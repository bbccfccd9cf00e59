------------------------- MODULE JavaSchedulerProofs -------------------------
(***************************************************************************)
(* What holds of JavaScheduler for all entry points, budgets, caps,        *)
(* reserves and steps.                                                     *)
(*                                                                         *)
(* The lemmas on the plan and on an attempt are repeated from              *)
(* SpringSchedulerProofs, which declares the variables of the other        *)
(* scheduler.                                                              *)
(***************************************************************************)
EXTENDS JavaScheduler, SequenceTheorems, TLAPS

-----------------------------------------------------------------------------
(* The arithmetic of the plan, and a step of an attempt *)

\* The deadlines of a plan are in order, and none is before the plan began.
LEMMA PlanProperties ==
  ASSUME NEW outer \in Nat, NEW fin \in Nat, NEW ex \in Nat
  PROVE  LET plan == Plan(0, outer, fin, ex)
         IN /\ plan.analysis \in Nat
            /\ plan.finalization \in Nat
            /\ plan.analysis <= plan.finalization
            /\ plan.finalization <= outer
  <1> DEFINE exit         == Least(ex, outer)
             finalization == Least(fin, outer - exit)
  <1>1. Monus(outer, 0) = outer
    BY DEF Monus
  <1>2. exit \in 0 .. outer
    BY DEF Least
  <1>3. finalization \in 0 .. outer - exit
    BY <1>2 DEF Least
  <1>4. /\ Plan(0, outer, fin, ex).analysis = outer - exit - finalization
        /\ Plan(0, outer, fin, ex).finalization = outer - exit
    BY <1>1 DEF Plan
  <1> HIDE DEF exit, finalization
  <1>5. QED
    BY <1>2, <1>3, <1>4

\* Rounding up a quotient.
LEMMA CeilDivProperties ==
  ASSUME NEW a \in Nat, NEW n \in Nat \ {0}
  PROVE  /\ CeilDiv(a, n) \in Nat
         /\ a <= n * CeilDiv(a, n)
         /\ n * CeilDiv(a, n) < a + n
  <1> DEFINE c == (a + (n - 1)) \div n
  <1>1. c \in Nat
    OBVIOUS
  <1>2. /\ n * c <= a + (n - 1)
        /\ a + (n - 1) < n * c + n
    OBVIOUS
  <1>3. n * c \in Nat
    BY <1>1
  <1> HIDE DEF c
  <1>4. a <= n * c /\ n * c < a + n
    BY <1>2, <1>3
  <1>5. QED
    BY <1>1, <1>4 DEF CeilDiv, c

\* An allotment ends at the analysis deadline at the latest.
LEMMA AllocationProperties ==
  ASSUME NEW plan, plan.analysis \in Nat, NEW t \in Nat, NEW n \in Nat, NEW cap \in Nat
  PROVE  /\ Allocation(plan, t, n, cap) \in Nat
         /\ Allocation(plan, t, n, cap) > 0 =>
              /\ t + Allocation(plan, t, n, cap) <= plan.analysis
              /\ Allocation(plan, t, n, cap) <= cap
              /\ n # 0
              /\ Allocation(plan, t, n, cap) <= CeilDiv(Remaining(plan, t), n)
  <1>1. CASE n = 0 \/ t >= plan.analysis
    BY <1>1 DEF Allocation
  <1>2. CASE ~(n = 0 \/ t >= plan.analysis)
    <2> DEFINE r == Remaining(plan, t)
               c == CeilDiv(r, n)
    <2>1. r \in Nat /\ t + r = plan.analysis
      BY <1>2 DEF Remaining, Monus
    <2>2. c \in Nat
      BY <1>2, <2>1, CeilDivProperties
    <2>3. Allocation(plan, t, n, cap) = Least(cap, Least(c, r))
      BY <1>2 DEF Allocation
    <2> HIDE DEF r, c
    <2>4. /\ Least(cap, Least(c, r)) \in Nat
          /\ Least(cap, Least(c, r)) <= cap
          /\ Least(cap, Least(c, r)) <= c
          /\ Least(cap, Least(c, r)) <= r
      BY <2>1, <2>2 DEF Least
    <2>5. QED
      BY <1>2, <2>1, <2>3, <2>4 DEF r, c
  <1>3. QED
    BY <1>1, <1>2

\* If k attempts have the share q each, up to a slack, then whatever one of
\* them uses of its allotment the k - 1 others still have theirs.
LEMMA ShareIsKept ==
  ASSUME NEW r \in Nat, NEW slack \in Nat, NEW k \in Nat \ {0}, NEW q \in Nat,
         r + slack >= k * q,
         NEW used \in Nat, used <= CeilDiv(r, k)
  PROVE  r - used + slack >= (k - 1) * q
  <1> DEFINE c == CeilDiv(r, k)
  <1>1. c \in Nat /\ k * c < r + k
    BY CeilDivProperties
  <1>2. (k - 1) * q = k * q - q /\ k * q \in Nat /\ (k - 1) * q \in Nat
    OBVIOUS
  <1> HIDE DEF c
  <1>3. CASE c <= q
    BY <1>1, <1>2, <1>3 DEF c
  <1>4. CASE c > q
    <2>1. (k - 1) * c >= (k - 1) * q
      BY <1>1, <1>4
    <2>2. k * c = (k - 1) * c + c /\ (k - 1) * c \in Nat
      BY <1>1
    <2>3. (k - 1) * c + c < r + k
      BY <1>1, <2>2
    <2>4. PICK d \in Nat : c = d + 1
      BY <1>1, <1>4
    <2>5. (k - 1) * c = (k - 1) * d + (k - 1) /\ (k - 1) * d \in Nat
      BY <2>4
    <2>6. (k - 1) * d >= (k - 1) * q
      BY <1>1, <1>4, <2>4
    <2>7. r - c >= (k - 1) * d
      BY <1>1, <2>3, <2>5
    <2>8. r - used >= (k - 1) * q
      BY <1>1, <1>2, <2>5, <2>6, <2>7 DEF c
    <2>9. QED
      BY <1>2, <2>8
  <1>5. QED
    BY <1>1, <1>3, <1>4

\* A step of an attempt keeps its types, and an attempt that started with a
\* deadline misses it by less than MaxStep ticks.
LEMMA AttemptStepProperties ==
  ASSUME AttemptTypeOK, AttemptStep
  PROVE  /\ AttemptTypeOK'
         /\ UNCHANGED entryPointDeadline
         /\ running
         /\ now' <= now \/ now' <= entryPointDeadline + (MaxStep - 1)
  <1>1. CASE Interpret
    <2>1. PICK ticks \in 1 .. MaxStep : now' = now + ticks
      BY <1>1 DEF Interpret
    <2>2. entryPointDeadline \in Nat /\ now < entryPointDeadline
      BY <1>1 DEF Interpret, ShouldAbort, AttemptTypeOK
    <2>3. now' \in Nat /\ now' <= entryPointDeadline + (MaxStep - 1)
      BY <2>1, <2>2, AttemptAssumption DEF AttemptTypeOK
    <2>4. QED
      BY <1>1, <2>3 DEF Interpret, AttemptTypeOK
  <1>2. CASE Abort
    <2>1. UNCHANGED <<now, entryPointDeadline, todo>> /\ running
      BY <1>2 DEF Abort
    <2>2. timedOut' \in BOOLEAN /\ entryPointTimeout' \in BOOLEAN /\ running' \in BOOLEAN /\ ~running'
      BY <1>2 DEF Abort
    <2>3. now' <= now
      BY <2>1 DEF AttemptTypeOK
    <2>4. QED
      BY <2>1, <2>2, <2>3 DEF AttemptTypeOK
  <1>3. CASE Return
    <2>1. UNCHANGED <<now, entryPointDeadline, timedOut, entryPointTimeout>> /\ running
      BY <1>3 DEF Return
    <2>2. todo' \in 0 .. Implementations
      <3>1. todo \in 0 .. Implementations /\ todo > 0 /\ todo' = todo - 1
        BY <1>3 DEF Return, AttemptTypeOK
      <3>2. QED
        BY <3>1, AttemptAssumption
    <2>3. running' \in BOOLEAN /\ (running' => todo' > 0)
      BY <1>3 DEF Return
    <2>4. now' <= now
      BY <2>1 DEF AttemptTypeOK
    <2>5. QED
      BY <2>1, <2>2, <2>3, <2>4 DEF AttemptTypeOK
  <1>4. CASE Throw
    <2>1. UNCHANGED <<now, entryPointDeadline, timedOut, entryPointTimeout>> /\ running
      BY <1>4 DEF Throw
    <2>2. todo' \in 0 .. Implementations
      BY <1>4, AttemptAssumption DEF Throw
    <2>3. running' \in BOOLEAN /\ ~running'
      BY <1>4 DEF Throw
    <2>4. now' <= now
      BY <2>1 DEF AttemptTypeOK
    <2>5. QED
      BY <2>1, <2>2, <2>3, <2>4 DEF AttemptTypeOK
  <1>5. QED
    BY <1>1, <1>2, <1>3, <1>4 DEF AttemptStep


-----------------------------------------------------------------------------
(* Type correctness *)

A == deadlinePlan.analysis

LEMMA PlanType == A \in Nat /\ deadlinePlan' = deadlinePlan /\ A' = A
  BY PlanProperties, JavaAssumption DEF A, deadlinePlan

LEMMA RemainingType ==
  ASSUME NEW t \in Nat
  PROVE  /\ Remaining(deadlinePlan, t) \in Nat
         /\ Remaining(deadlinePlan, t) >= A - t
         /\ t <= A => Remaining(deadlinePlan, t) = A - t
  BY PlanType DEF Remaining, Monus, A

\* What an attempt or a rerun is allotted.
LEMMA AllocationType ==
  ASSUME NEW n \in Nat, NEW cap \in Nat, now \in Nat
  PROVE  /\ Allocation(deadlinePlan, now, n, cap) \in Nat
         /\ Allocation(deadlinePlan, now, n, cap) > 0 =>
              /\ now + Allocation(deadlinePlan, now, n, cap) <= A
              /\ n # 0
              /\ Allocation(deadlinePlan, now, n, cap) <=
                   CeilDiv(Remaining(deadlinePlan, now), n)
  BY PlanType, AllocationProperties DEF A

FirstPass == {"entry", "overload", "attempt"}

\* The types, and that reruns begin once and the checkpoint comes last.
LoopInv ==
  /\ TypeOK
  /\ pc \in FirstPass => rerunIdx = 0
  /\ pc \notin {"done", "failed"} => checkpoints = 0

\* The numbers that the steps compute with.
LEMMA Numbers ==
  ASSUME TypeOK
  PROVE  /\ now \in Nat
         /\ openedAt \in Nat
         /\ entryPointDeadline \in Int
         /\ overloadIdx \in Nat
         /\ rerunIdx \in Nat
         /\ configTimeoutMs \in Nat
         /\ Len(Overloads) \in Nat
         /\ Len(timeoutEntryPoints) \in Nat
         /\ timeoutEntryPoints \in Seq(Attempts)
         /\ entryPoint \in 1 .. Len(Overloads) + 1
         /\ entryPoint <= Len(Overloads) => Overloads[entryPoint] \in Nat
         /\ MaxStep \in Nat \ {0}
  BY JavaAssumption, AttemptAssumption, LenProperties, ElementOfSeq
     DEF TypeOK, AttemptTypeOK, NoDeadline

LEMMA FirstAllocationType ==
  ASSUME TypeOK, pc = "overload", overloadIdx < Overloads[entryPoint]
  PROVE  /\ Overloads[entryPoint] - overloadIdx \in Nat \ {0}
         /\ FirstAllocation \in Nat
         /\ FirstAllocation > 0 =>
              /\ now + FirstAllocation <= A
              /\ FirstAllocation <=
                   CeilDiv(Remaining(deadlinePlan, now), Overloads[entryPoint] - overloadIdx)
  <1>1. entryPoint <= Len(Overloads)
    BY DEF TypeOK
  <1>2. Overloads[entryPoint] - overloadIdx \in Nat \ {0}
    BY <1>1, Numbers
  <1>3. QED
    BY <1>2, Numbers, AllocationType DEF FirstAllocation

LEMMA RerunAllocationType ==
  ASSUME TypeOK, pc = "rerun", rerunIdx < Len(timeoutEntryPoints)
  PROVE  /\ Len(timeoutEntryPoints) - rerunIdx \in Nat \ {0}
         /\ RerunAllocation \in Nat
         /\ RerunAllocation > 0 =>
              /\ now + RerunAllocation <= A
              /\ RerunAllocation <=
                   CeilDiv(Remaining(deadlinePlan, now), Len(timeoutEntryPoints) - rerunIdx)
  <1>1. Len(timeoutEntryPoints) - rerunIdx \in Nat \ {0}
    BY Numbers
  <1>2. QED
    BY <1>1, Numbers, AllocationType DEF RerunAllocation

LEMMA RerunCapType ==
  ASSUME TypeOK, timeoutEntryPoints # <<>>
  PROVE  /\ Len(timeoutEntryPoints) \in Nat \ {0}
         /\ RerunCap(Len(timeoutEntryPoints)) \in Nat
         /\ Remaining(deadlinePlan, now) >=
              Len(timeoutEntryPoints) * RerunCap(Len(timeoutEntryPoints))
  <1> DEFINE n == Len(timeoutEntryPoints)
             r == Remaining(deadlinePlan, now)
             q == r \div n
  <1>1. n \in Nat \ {0} /\ r \in Nat
    BY Numbers, EmptySeq, RemainingType
  <1>2. q \in Nat /\ n * q <= r
    BY <1>1
  <1>3. RerunCap(n) = Least(q, EntryPointTimeoutMs)
    BY DEF RerunCap
  <1> HIDE DEF n, r, q
  <1>4. RerunCap(n) \in Nat /\ RerunCap(n) <= q
    BY <1>2, <1>3, JavaAssumption DEF Least
  <1>5. n * RerunCap(n) <= n * q
    BY <1>1, <1>2, <1>4
  <1>6. n * RerunCap(n) \in Nat /\ n * q \in Nat
    BY <1>1, <1>2, <1>4
  <1>7. r >= n * RerunCap(n)
    BY <1>1, <1>2, <1>5, <1>6
  <1>8. QED
    BY <1>1, <1>4, <1>7 DEF n, r

LEMMA InstallType ==
  ASSUME AttemptTypeOK, NEW a \in Nat, Install(a)
  PROVE  AttemptTypeOK'
  <1>1. entryPointDeadline' \in Nat /\ entryPointDeadline' # NoDeadline /\ now' \in Nat
    BY DEF AttemptTypeOK, Install, NoDeadline
  <1>2. timedOut' \in BOOLEAN /\ entryPointTimeout' \in BOOLEAN /\ running' \in BOOLEAN
    BY DEF Install
  <1>3. todo' \in 0 .. Implementations /\ todo' > 0
    BY AttemptAssumption DEF Install
  <1>4. QED
    BY <1>1, <1>2, <1>3 DEF AttemptTypeOK

LEMMA ClearType ==
  ASSUME AttemptTypeOK, ClearAttemptState
  PROVE  AttemptTypeOK'
  BY DEF AttemptTypeOK, ClearAttemptState

\* The attempt at hand, as the queue names it.
LEMMA AttemptAtHand ==
  ASSUME TypeOK, pc = "attempt"
  PROVE  <<entryPoint, overloadIdx + 1>> \in Attempts
  <1>1. entryPoint <= Len(Overloads)
    BY DEF TypeOK
  <1>2. entryPoint \in 1 .. Len(Overloads) /\ overloadIdx + 1 \in Nat
    BY <1>1, Numbers
  <1>3. QED
    BY <1>2 DEF Attempts

LEMMA NextLoop == LoopInv /\ [Next]_vars => LoopInv'
  <1> SUFFICES ASSUME LoopInv, [Next]_vars PROVE LoopInv'
    OBVIOUS
  <1>0. /\ TypeOK /\ AttemptTypeOK
        /\ overloadIdx \in Nat /\ rerunIdx \in Nat
        /\ Len(Overloads) \in Nat
        /\ Len(timeoutEntryPoints) \in Nat
        /\ entryPoint \in 1 .. Len(Overloads) + 1
        /\ entryPoint <= Len(Overloads) => Overloads[entryPoint] \in Nat
    BY Numbers DEF LoopInv, TypeOK
  <1>1. CASE SkipEntryPoint
    <2>1. AttemptTypeOK'
      BY <1>0, <1>1, ClearType DEF SkipEntryPoint
    <2>2. QED
      BY <1>0, <1>1, <2>1 DEF SkipEntryPoint, LoopInv, TypeOK, FirstPass
  <1>2. CASE OpenEntryPoint
    <2>1. now' \in Nat
      BY <1>0, <1>2, AttemptAssumption DEF OpenEntryPoint, AttemptTypeOK
    <2>2. AttemptTypeOK'
      BY <1>0, <1>2, <2>1 DEF OpenEntryPoint, AttemptTypeOK
    <2>3. overloadIdx' = 0 /\ openedAt' \in Nat /\ entryPoint' <= Len(Overloads)
      BY <1>2, <2>1 DEF OpenEntryPoint
    <2>4. QED
      BY <1>0, <1>2, <2>2, <2>3 DEF OpenEntryPoint, LoopInv, TypeOK, FirstPass
  <1>3. CASE StartAttempt
    <2>1. FirstAllocation \in Nat
      BY <1>0, <1>3, FirstAllocationType DEF StartAttempt
    <2>2. AttemptTypeOK'
      BY <1>0, <1>3, <2>1, InstallType DEF StartAttempt
    <2>3. QED
      BY <1>0, <1>3, <2>2 DEF StartAttempt, LoopInv, TypeOK, FirstPass, loopVars
  <1>4. CASE EndAttempt
    <2>1. timeoutEntryPoints' \in Seq(Attempts)
      BY <1>0, <1>4, AttemptAtHand, AppendProperties DEF EndAttempt, TypeOK
    <2>2. overloadIdx' \in Nat /\ overloadIdx' <= Overloads[entryPoint]
      BY <1>0, <1>4 DEF EndAttempt, TypeOK
    <2>3. AttemptTypeOK'
      BY <1>0, <1>4 DEF EndAttempt, AttemptTypeOK, attemptVars
    <2>4. QED
      BY <1>0, <1>4, <2>1, <2>2, <2>3 DEF EndAttempt, LoopInv, TypeOK, FirstPass
  <1>5. CASE CloseEntryPoint
    <2>1. AttemptTypeOK'
      BY <1>0, <1>5, ClearType DEF CloseEntryPoint
    <2>2. QED
      BY <1>0, <1>5, <2>1 DEF CloseEntryPoint, LoopInv, TypeOK, FirstPass
  <1>6. CASE BeginReruns
    <2>1. configTimeoutMs' \in Nat
      BY <1>0, <1>6, RerunCapType DEF BeginReruns
    <2>2. AttemptTypeOK' /\ openedAt' \in Nat
      BY <1>0, <1>6 DEF BeginReruns, AttemptTypeOK, attemptVars
    <2>3. rerunIdx' <= Len(timeoutEntryPoints')
      BY <1>0, <1>6 DEF BeginReruns, LoopInv, FirstPass
    <2>4. aggressiveMode' \in BOOLEAN
      BY <1>6 DEF BeginReruns
    <2>5. QED
      BY <1>0, <1>6, <2>1, <2>2, <2>3, <2>4 DEF BeginReruns, LoopInv, TypeOK, FirstPass
  <1>7. CASE StartRerun
    <2>1. RerunAllocation \in Nat
      BY <1>0, <1>7, RerunAllocationType DEF StartRerun
    <2>2. AttemptTypeOK'
      BY <1>0, <1>7, <2>1, InstallType DEF StartRerun
    <2>3. QED
      BY <1>0, <1>7, <2>2 DEF StartRerun, LoopInv, TypeOK, FirstPass
  <1>8. CASE DenyRerun
    <2>1. AttemptTypeOK'
      BY <1>0, <1>8, ClearType DEF DenyRerun
    <2>2. QED
      BY <1>0, <1>8, <2>1 DEF DenyRerun, LoopInv, TypeOK, FirstPass
  <1>9. CASE EndRerun
    <2>1. AttemptTypeOK'
      BY <1>0, <1>9, ClearType DEF EndRerun
    <2>2. QED
      BY <1>0, <1>9, <2>1 DEF EndRerun, LoopInv, TypeOK, FirstPass
  <1>10. CASE EndReruns
    <2>1. AttemptTypeOK'
      BY <1>0, <1>10 DEF EndReruns, AttemptTypeOK, attemptVars
    <2>2. aggressiveMode' \in BOOLEAN
      BY <1>0, <1>10 DEF EndReruns, TypeOK
    <2>3. configTimeoutMs' \in Nat /\ timeoutEntryPoints' \in Seq(Attempts)
      BY <1>0, <1>10, JavaAssumption, EmptySeq DEF EndReruns, TypeOK
    <2>4. QED
      BY <1>0, <1>10, <2>1, <2>2, <2>3 DEF EndReruns, LoopInv, TypeOK, FirstPass
  <1>11. CASE SchedulingError
    <2>1. AttemptTypeOK'
      BY <1>0, <1>11, ClearType DEF SchedulingError
    <2>2. aggressiveMode' \in BOOLEAN
      BY <1>0, <1>11 DEF SchedulingError, TypeOK
    <2>3. configTimeoutMs' \in Nat
      BY <1>0, <1>11, JavaAssumption DEF SchedulingError, TypeOK
    <2>4. pc \notin {"done", "failed"}
      BY <1>11 DEF SchedulingError
    <2>5. QED
      BY <1>0, <1>11, <2>1, <2>2, <2>3, <2>4 DEF SchedulingError, LoopInv, TypeOK, FirstPass
  <1>12. CASE Leave
    <2>1. AttemptTypeOK'
      BY <1>0, <1>12 DEF Leave, AttemptTypeOK, attemptVars
    <2>2. checkpoints' = 1 /\ pc' \in {"done", "failed"}
      BY <1>12 DEF Leave, LoopInv
    <2>3. configTimeoutMs' \in Nat /\ aggressiveMode' \in BOOLEAN
      BY <1>12, JavaAssumption DEF Leave
    <2>4. QED
      BY <1>0, <1>12, <2>1, <2>2, <2>3 DEF Leave, LoopInv, TypeOK, FirstPass
  <1>13. CASE Execute
    <2>1. AttemptTypeOK'
      BY <1>0, <1>13, AttemptStepProperties DEF Execute
    <2>2. left' \subseteq Attempts
      BY <1>0, <1>13, AttemptAtHand DEF Execute, TypeOK
    <2>3. QED
      BY <1>0, <1>13, <2>1, <2>2 DEF Execute, LoopInv, TypeOK, FirstPass
  <1>14. CASE UNCHANGED vars
    BY <1>0, <1>14 DEF vars, loopVars, attemptVars, LoopInv, TypeOK, AttemptTypeOK, FirstPass
  <1>15. QED
    BY <1>1, <1>2, <1>3, <1>4, <1>5, <1>6, <1>7, <1>8, <1>9, <1>10, <1>11, <1>12, <1>13,
       <1>14 DEF Next

LEMMA InitLoop == Init => LoopInv
  <1> SUFFICES ASSUME Init PROVE LoopInv
    OBVIOUS
  <1>1. Len(Overloads) \in Nat /\ <<>> \in Seq(Attempts)
    BY JavaAssumption, LenProperties, EmptySeq
  <1>2. AttemptTypeOK
    <2>1. now \in Nat /\ entryPointDeadline = NoDeadline /\ todo \in 0 .. Implementations
      BY AttemptAssumption DEF Init
    <2>2. timedOut \in BOOLEAN /\ entryPointTimeout \in BOOLEAN /\ running \in BOOLEAN
      BY DEF Init
    <2>3. ~running
      BY DEF Init
    <2>4. QED
      BY <2>1, <2>2, <2>3 DEF AttemptTypeOK
  <1>3. entryPoint \in 1 .. Len(Overloads) + 1 /\ pc = "entry"
    BY <1>1 DEF Init
  <1>4. configTimeoutMs \in Nat /\ aggressiveMode \in BOOLEAN
    BY JavaAssumption DEF Init
  <1>5. QED
    BY <1>1, <1>2, <1>3, <1>4 DEF Init, LoopInv, TypeOK

\* Every variable of the Java scheduler keeps its type.
THEOREM TypeCorrect == Spec => []TypeOK
  <1>1. LoopInv => TypeOK
    BY DEF LoopInv
  <1>2. QED
    BY <1>1, InitLoop, NextLoop, PTL DEF Spec
-----------------------------------------------------------------------------
(* No false timeout *)

\* While an attempt runs neither its latch nor the global flag is set; once
\* it has ended, the flag says that it was cut short, and then by its deadline.
FlagInv ==
  /\ LoopInv
  /\ pc \in {"attempt", "reattempt"} =>
       /\ running => ~timedOut /\ ~entryPointTimeout
       /\ ~running => (entryPointTimeout <=> Cut)
       /\ ~running /\ Cut => timedOut /\ now >= entryPointDeadline

LEMMA NextFlag == FlagInv /\ [Next]_vars => FlagInv'
  <1> SUFFICES ASSUME FlagInv, [Next]_vars PROVE FlagInv'
    OBVIOUS
  <1>0. TypeOK /\ LoopInv' /\ entryPointDeadline \in Int /\ now \in Nat
    BY NextLoop, Numbers DEF FlagInv, LoopInv
  <1>1. CASE StartAttempt \/ StartRerun
    <2>1. running' /\ ~timedOut' /\ ~entryPointTimeout'
      BY <1>1 DEF StartAttempt, StartRerun, Install
    <2>2. QED
      BY <1>0, <2>1 DEF FlagInv
  <1>2. CASE Execute
    <2>1. /\ pc \in {"attempt", "reattempt"} /\ running
          /\ ~timedOut /\ ~entryPointTimeout
          /\ todo \in 0 .. Implementations /\ todo > 0
      BY <1>0, <1>2 DEF Execute, AttemptStep, Interpret, Abort, Return, Throw, FlagInv, TypeOK,
                        AttemptTypeOK
    <2>2. CASE Interpret
      BY <1>0, <2>1, <2>2 DEF Interpret, FlagInv
    <2>3. CASE Abort
      <3>1. /\ ~running' /\ timedOut' /\ entryPointTimeout'
            /\ UNCHANGED <<now, entryPointDeadline, todo>>
            /\ now >= entryPointDeadline
        BY <2>1, <2>3 DEF Abort, ShouldAbort
      <3>2. QED
        BY <1>0, <2>1, <3>1 DEF FlagInv, Cut
    <2>4. CASE Return
      BY <1>0, <2>1, <2>4, AttemptAssumption DEF Return, FlagInv, Cut
    <2>5. CASE Throw
      BY <1>0, <2>1, <2>5 DEF Throw, FlagInv, Cut
    <2>6. QED
      BY <1>2, <2>2, <2>3, <2>4, <2>5 DEF Execute, AttemptStep
  <1>3. CASE \/ SkipEntryPoint \/ OpenEntryPoint \/ EndAttempt \/ CloseEntryPoint
             \/ BeginReruns \/ DenyRerun \/ EndRerun \/ EndReruns \/ SchedulingError \/ Leave
    <2>1. pc' \notin {"attempt", "reattempt"}
      BY <1>3 DEF SkipEntryPoint, OpenEntryPoint, EndAttempt, CloseEntryPoint, BeginReruns,
                  DenyRerun, EndRerun, EndReruns, SchedulingError, Leave
    <2>2. QED
      BY <1>0, <2>1 DEF FlagInv
  <1>4. CASE UNCHANGED vars
    BY <1>0, <1>4 DEF FlagInv, vars, attemptVars, Cut
  <1>5. QED
    BY <1>1, <1>2, <1>3, <1>4 DEF Next

LEMMA InitFlag == Init => FlagInv
  BY InitLoop DEF Init, FlagInv

\* For all budgets and bodies: no attempt is cut short by the timeout of
\* another one.
THEOREM CutByOwnDeadline == Spec => []NoFalseTimeout
  <1>1. FlagInv => NoFalseTimeout
    BY DEF FlagInv, NoFalseTimeout
  <1>2. QED
    BY <1>1, InitFlag, NextFlag, PTL DEF Spec

-----------------------------------------------------------------------------
(* Nothing is forgotten *)

\* The attempts that timed out and are queued beyond the first k.
Queued(k) == {timeoutEntryPoints[i] : i \in k + 1 .. Len(timeoutEntryPoints)}

\* The first pass is beyond this attempt.
Passed(p) ==
  \/ p[1] < entryPoint
  \/ pc # "entry" /\ p[1] = entryPoint /\ p[2] <= overloadIdx

\* The queue never holds an attempt twice, since it grows in the order of the
\* first pass, and what is left is the queue, from the next rerun on.
QueueInv ==
  /\ FlagInv
  /\ \A i, j \in 1 .. Len(timeoutEntryPoints) :
       timeoutEntryPoints[i] = timeoutEntryPoints[j] => i = j
  /\ pc \in FirstPass => \A i \in 1 .. Len(timeoutEntryPoints) : Passed(timeoutEntryPoints[i])
  /\ pc \in {"entry", "overload"} => left = Queued(0)
  /\ pc = "attempt" =>
       left = Queued(0) \cup (IF ~running /\ Cut THEN {<<entryPoint, overloadIdx + 1>>} ELSE {})
  /\ pc = "rerun" /\ CanStartAnalysis(deadlinePlan, now) /\ configTimeoutMs > 0 =>
       left = Queued(rerunIdx)
  /\ pc = "reattempt" /\ CanStartAnalysis(deadlinePlan, now) /\ configTimeoutMs > 0 =>
       left = Queued(rerunIdx + 1)

\* While time is left, only a cap of no tick denies a rerun.
LEMMA CanStartRerun ==
  ASSUME TypeOK, pc = "rerun", rerunIdx < Len(timeoutEntryPoints),
         CanStartAnalysis(deadlinePlan, now), configTimeoutMs > 0
  PROVE  RerunAllocation > 0
  <1> DEFINE n == Len(timeoutEntryPoints) - rerunIdx
             r == Remaining(deadlinePlan, now)
             c == CeilDiv(r, n)
  <1>1. n \in Nat \ {0} /\ now \in Nat /\ now < A
    BY Numbers DEF CanStartAnalysis, A
  <1>2. r \in Nat /\ r > 0
    BY <1>1, PlanType DEF Remaining, Monus, A
  <1>3. c \in Nat /\ r <= n * c
    BY <1>1, <1>2, CeilDivProperties
  <1> HIDE DEF n, r, c
  <1>4. c > 0
    <2>1. c = 0 => n * c = 0
      BY <1>1
    <2>2. QED
      BY <1>2, <1>3, <2>1
  <1>5. RerunAllocation = Least(configTimeoutMs, Least(c, r))
    BY <1>1, PlanType DEF RerunAllocation, Allocation, A, c, r, n
  <1>6. QED
    BY <1>2, <1>3, <1>4, <1>5, Numbers DEF Least

LEMMA NextQueue == QueueInv /\ [Next]_vars => QueueInv'
  <1> SUFFICES ASSUME QueueInv, [Next]_vars PROVE QueueInv'
    OBVIOUS
  <1> DEFINE L == Len(timeoutEntryPoints)
  <1>0. /\ TypeOK /\ LoopInv /\ FlagInv /\ FlagInv'
        /\ now \in Nat /\ now' \in Nat
        /\ L \in Nat
        /\ timeoutEntryPoints \in Seq(Attempts)
        /\ rerunIdx \in Nat /\ overloadIdx \in Nat
        /\ entryPoint \in Nat
        /\ \A i \in 1 .. L : timeoutEntryPoints[i] \in Attempts
        /\ A \in Nat /\ deadlinePlan' = deadlinePlan
    <2>1. FlagInv /\ FlagInv'
      BY NextFlag DEF QueueInv
    <2>2. LoopInv /\ TypeOK /\ TypeOK'
      BY <2>1 DEF FlagInv, LoopInv
    <2>3. now' \in Nat
      BY <2>2 DEF TypeOK, AttemptTypeOK
    <2>4. \A i \in 1 .. L : timeoutEntryPoints[i] \in Attempts
      BY <2>2, Numbers, ElementOfSeq
    <2>5. QED
      BY <2>1, <2>2, <2>3, <2>4, Numbers, PlanType
  <1>1. CASE SkipEntryPoint \/ CloseEntryPoint
    <2>1. /\ pc \in {"entry", "overload"} /\ pc' = "entry"
          /\ entryPoint' = entryPoint + 1
          /\ UNCHANGED <<timeoutEntryPoints, left>>
      BY <1>1 DEF SkipEntryPoint, CloseEntryPoint
    <2>2. \A i \in 1 .. L : Passed(timeoutEntryPoints[i])'
      <3> SUFFICES ASSUME NEW i \in 1 .. L PROVE Passed(timeoutEntryPoints[i])'
        OBVIOUS
      <3>1. Passed(timeoutEntryPoints[i]) /\ timeoutEntryPoints[i][1] \in Nat
        BY <1>0, <2>1 DEF QueueInv, FirstPass, Attempts
      <3>2. QED
        BY <1>0, <2>1, <3>1 DEF Passed
    <2>3. QED
      BY <1>0, <2>1, <2>2 DEF QueueInv, Queued, FirstPass
  <1>2. CASE OpenEntryPoint
    <2>1. /\ pc = "entry" /\ pc' = "overload"
          /\ UNCHANGED <<entryPoint, timeoutEntryPoints, left>>
      BY <1>2 DEF OpenEntryPoint
    <2>2. \A i \in 1 .. L : Passed(timeoutEntryPoints[i])'
      BY <1>0, <2>1 DEF QueueInv, FirstPass, Passed
    <2>3. QED
      BY <1>0, <2>1, <2>2 DEF QueueInv, Queued, FirstPass
  <1>3. CASE StartAttempt
    <2>1. /\ pc = "overload" /\ pc' = "attempt" /\ running'
          /\ UNCHANGED <<entryPoint, overloadIdx, timeoutEntryPoints, left>>
      BY <1>3 DEF StartAttempt, Install, loopVars
    <2>2. \A i \in 1 .. L : Passed(timeoutEntryPoints[i])'
      BY <1>0, <2>1 DEF QueueInv, FirstPass, Passed
    <2>3. QED
      BY <1>0, <2>1, <2>2 DEF QueueInv, Queued, FirstPass
  <1>4. CASE EndAttempt
    <2> DEFINE here == <<entryPoint, overloadIdx + 1>>
    <2>1. /\ pc = "attempt" /\ pc' = "overload" /\ ~running
          /\ overloadIdx' = overloadIdx + 1
          /\ UNCHANGED <<entryPoint, left>>
          /\ timeoutEntryPoints' = IF entryPointTimeout THEN Append(timeoutEntryPoints, here)
                                   ELSE timeoutEntryPoints
      BY <1>4 DEF EndAttempt
    <2>2. entryPointTimeout <=> Cut
      BY <1>0, <2>1 DEF FlagInv
    <2>3. \A i \in 1 .. L : /\ Passed(timeoutEntryPoints[i])
                            /\ timeoutEntryPoints[i][1] \in Nat
                            /\ timeoutEntryPoints[i][2] \in Nat
      BY <1>0, <2>1 DEF QueueInv, FirstPass, Attempts
    <2>4. \A i \in 1 .. L : timeoutEntryPoints[i] # here
      BY <1>0, <2>3 DEF Passed
    <2>5. ASSUME NEW p, p[1] \in Nat, p[2] \in Nat, Passed(p) PROVE Passed(p)'
      BY <1>0, <2>1, <2>5 DEF Passed
    <2>6. CASE entryPointTimeout
      <3>1. /\ Len(timeoutEntryPoints') = L + 1
            /\ \A i \in 1 .. L : timeoutEntryPoints'[i] = timeoutEntryPoints[i]
            /\ timeoutEntryPoints'[L + 1] = here
        BY <1>0, <2>1, <2>6, AttemptAtHand, AppendProperties
      <3>2. 1 .. L + 1 = 1 .. L \cup {L + 1}
        BY <1>0
      <3>3. \A i \in 1 .. Len(timeoutEntryPoints') : Passed(timeoutEntryPoints[i])'
        <4> SUFFICES ASSUME NEW i \in 1 .. L + 1 PROVE Passed(timeoutEntryPoints[i])'
          BY <3>1
        <4>1. CASE i = L + 1
          <5>1. timeoutEntryPoints'[i] = <<entryPoint', overloadIdx'>> /\ pc' # "entry"
            BY <2>1, <3>1, <4>1
          <5>2. overloadIdx' \in Nat
            BY <1>0, <2>1
          <5>3. QED
            BY <5>1, <5>2 DEF Passed
        <4>2. CASE i # L + 1
          <5>1. i \in 1 .. L
            BY <1>0, <4>2
          <5>2. QED
            BY <2>1, <2>3, <2>5, <3>1, <5>1 DEF Passed
        <4>3. QED
          BY <4>1, <4>2
      <3>4. \A i, j \in 1 .. Len(timeoutEntryPoints') :
              timeoutEntryPoints'[i] = timeoutEntryPoints'[j] => i = j
        BY <1>0, <2>4, <3>1 DEF QueueInv
      <3>5. Queued(0)' = Queued(0) \cup {here}
        <4> HIDE DEF here, L
        <4>1. Queued(0)' = {timeoutEntryPoints'[i] : i \in 1 .. L + 1}
          BY <3>1 DEF Queued
        <4>2. Queued(0) = {timeoutEntryPoints'[i] : i \in 1 .. L}
          BY <3>1 DEF Queued, L
        <4>3. QED
          BY <3>1, <3>2, <4>1, <4>2
      <3>6. left = Queued(0) \cup {here}
        BY <2>1, <2>2, <2>6 DEF QueueInv
      <3>7. QED
        BY <1>0, <2>1, <3>3, <3>4, <3>5, <3>6 DEF QueueInv, FirstPass
    <2>7. CASE ~entryPointTimeout
      <3>1. \A i \in 1 .. L : Passed(timeoutEntryPoints[i])'
        BY <2>1, <2>3, <2>5, <2>7 DEF Passed
      <3>2. left = Queued(0)
        BY <2>1, <2>2, <2>7 DEF QueueInv
      <3>3. timeoutEntryPoints' = timeoutEntryPoints
        BY <2>1, <2>7
      <3>4. QED
        BY <1>0, <2>1, <3>1, <3>2, <3>3 DEF QueueInv, Queued, FirstPass
    <2>8. QED
      BY <2>6, <2>7
  <1>5. CASE BeginReruns
    <2>1. /\ pc = "entry" /\ pc' = "rerun" /\ rerunIdx' = rerunIdx
          /\ UNCHANGED <<timeoutEntryPoints, left>>
      BY <1>5 DEF BeginReruns
    <2>2. rerunIdx = 0
      BY <1>0, <2>1 DEF LoopInv, FirstPass
    <2>3. QED
      BY <1>0, <2>1, <2>2 DEF QueueInv, Queued, FirstPass
  <1>6. CASE StartRerun
    <2>1. /\ pc = "rerun" /\ pc' = "reattempt" /\ rerunIdx < L
          /\ left' = left \ {timeoutEntryPoints[rerunIdx + 1]}
          /\ UNCHANGED <<timeoutEntryPoints, rerunIdx, configTimeoutMs, now>>
      BY <1>6 DEF StartRerun, Install
    <2>2. Queued(rerunIdx + 1) = Queued(rerunIdx) \ {timeoutEntryPoints[rerunIdx + 1]}
      <3>1. \A i \in rerunIdx + 2 .. L : timeoutEntryPoints[i] # timeoutEntryPoints[rerunIdx + 1]
        BY <1>0, <2>1 DEF QueueInv
      <3>2. rerunIdx + 1 .. L = {rerunIdx + 1} \cup (rerunIdx + 2 .. L)
        BY <1>0, <2>1
      <3>3. QED
        BY <1>0, <3>1, <3>2 DEF Queued
    <2>3. Queued(rerunIdx + 1)' = Queued(rerunIdx + 1)
      BY <2>1 DEF Queued
    <2>4. QED
      BY <1>0, <2>1, <2>2, <2>3 DEF QueueInv, FirstPass
  <1>7. CASE DenyRerun
    <2>1. /\ pc = "rerun" /\ pc' = "rerun" /\ rerunIdx < L /\ RerunAllocation = 0
          /\ UNCHANGED <<timeoutEntryPoints, configTimeoutMs, now>>
      BY <1>7 DEF DenyRerun, ClearAttemptState
    <2>2. ~(CanStartAnalysis(deadlinePlan, now) /\ configTimeoutMs > 0)
      BY <1>0, <2>1, CanStartRerun
    <2>3. QED
      BY <1>0, <2>1, <2>2 DEF QueueInv, FirstPass
  <1>8. CASE EndRerun
    <2>1. /\ pc = "reattempt" /\ pc' = "rerun" /\ rerunIdx' = rerunIdx + 1
          /\ UNCHANGED <<timeoutEntryPoints, configTimeoutMs, left, now>>
      BY <1>8 DEF EndRerun, ClearAttemptState
    <2>2. Queued(rerunIdx)' = Queued(rerunIdx + 1)
      BY <2>1 DEF Queued
    <2>3. QED
      BY <1>0, <2>1, <2>2 DEF QueueInv, FirstPass
  <1>9. CASE EndReruns
    <2>1. pc' = "finalize" /\ timeoutEntryPoints' = <<>>
      BY <1>9 DEF EndReruns
    <2>2. Len(timeoutEntryPoints') = 0
      BY <2>1, EmptySeq
    <2>3. QED
      BY <1>0, <2>1, <2>2 DEF QueueInv, FirstPass
  <1>10. CASE SchedulingError \/ Leave
    <2>1. pc' \in {"recover", "done", "failed"} /\ UNCHANGED timeoutEntryPoints
      BY <1>10 DEF SchedulingError, Leave
    <2>2. QED
      BY <1>0, <2>1 DEF QueueInv, FirstPass
  <1>11. CASE Execute
    <2>1. /\ pc \in {"attempt", "reattempt"} /\ pc' = pc /\ running
          /\ left' = IF pc = "attempt" /\ ~running' /\ Cut'
                     THEN left \cup {<<entryPoint, overloadIdx + 1>>} ELSE left
          /\ UNCHANGED <<entryPoint, overloadIdx, timeoutEntryPoints, rerunIdx, configTimeoutMs>>
      BY <1>0, <1>11, AttemptStepProperties DEF Execute, TypeOK
    <2>2. now <= now'
      BY <1>0, <1>11, AttemptAssumption DEF Execute, AttemptStep, Interpret, Abort, Return, Throw
    <2>3. CanStartAnalysis(deadlinePlan, now)' => CanStartAnalysis(deadlinePlan, now)
      BY <1>0, <2>2 DEF CanStartAnalysis, A
    <2>4. \A k : Queued(k)' = Queued(k)
      BY <2>1 DEF Queued
    <2>5. CASE pc = "attempt"
      <3>1. left = Queued(0)
        BY <2>1, <2>5 DEF QueueInv
      <3>2. left' = Queued(0) \cup (IF ~running' /\ Cut' THEN {<<entryPoint, overloadIdx + 1>>} ELSE {})
        BY <2>1, <2>5, <3>1
      <3>3. \A i \in 1 .. L : Passed(timeoutEntryPoints[i])'
        BY <2>1, <2>5 DEF QueueInv, FirstPass, Passed
      <3>4. QED
        BY <1>0, <2>1, <2>4, <2>5, <3>2, <3>3 DEF QueueInv
    <2>6. CASE pc = "reattempt"
      <3>1. left' = left
        BY <2>1, <2>6
      <3>2. QED
        BY <1>0, <2>1, <2>3, <2>4, <2>6, <3>1 DEF QueueInv, FirstPass
    <2>7. QED
      BY <2>1, <2>5, <2>6
  <1>12. CASE UNCHANGED vars
    BY <1>0, <1>12 DEF QueueInv, Queued, Passed, FirstPass, Cut, CanStartAnalysis, vars, loopVars,
                       attemptVars
  <1>13. QED
    BY <1>1, <1>2, <1>3, <1>4, <1>5, <1>6, <1>7, <1>8, <1>9, <1>10, <1>11, <1>12 DEF Next

LEMMA InitQueue == Init => QueueInv
  <1> SUFFICES ASSUME Init PROVE QueueInv
    OBVIOUS
  <1>1. pc = "entry" /\ timeoutEntryPoints = <<>> /\ left = {} /\ Len(timeoutEntryPoints) = 0
    BY EmptySeq DEF Init
  <1>2. QED
    BY <1>1, InitFlag DEF QueueInv, Queued, FirstPass

\* For all entry points, budgets and bodies: what the first pass leaves
\* unfinished is queued, once, and rerun while time is left.
THEOREM CutAreRerun == Spec => []NothingIsForgotten
  <1>1. QueueInv => NothingIsForgotten
    <2> SUFFICES ASSUME QueueInv PROVE NothingIsForgotten
      OBVIOUS
    <2>1. Len(timeoutEntryPoints) \in Nat /\ DOMAIN timeoutEntryPoints = 1 .. Len(timeoutEntryPoints)
      BY Numbers, LenProperties DEF QueueInv, FlagInv, LoopInv
    <2>2. QED
      BY <2>1 DEF QueueInv, NothingIsForgotten, Queued
  <1>2. QED
    BY <1>1, InitQueue, NextQueue, PTL DEF Spec

-----------------------------------------------------------------------------
(* The shares of overloads and of reruns *)

Overrun == MaxStep - 1

\* After the attempt at hand, which ends by its deadline but for the overrun,
\* `others` attempts still have q ticks each, up to `done` overruns.
LeavesEnough(others, q, done) ==
  /\ now <= entryPointDeadline + Overrun
  /\ (A - entryPointDeadline) + done * Overrun >= others * q

\* Before an attempt starts, the n attempts still to come have q ticks each.
HasEnough(n, q, done) == Remaining(deadlinePlan, now) + done * Overrun >= n * q

LEMMA OverrunType == Overrun \in Nat
  BY AttemptAssumption DEF Overrun

\* An allotment of at most an equal share leaves enough for the others.
LEMMA StartKeepsShares ==
  ASSUME now \in Nat, NEW n \in Nat \ {0}, NEW q \in Nat, NEW done \in Nat,
         HasEnough(n, q, done),
         NEW a \in Nat, now + a <= A, a <= CeilDiv(Remaining(deadlinePlan, now), n),
         now' = now, entryPointDeadline' = now + a
  PROVE  /\ now' <= entryPointDeadline' + Overrun
         /\ (A - entryPointDeadline') + done * Overrun >= (n - 1) * q
  <1> DEFINE r == Remaining(deadlinePlan, now)
  <1>1. r \in Nat /\ r = A - now
    BY RemainingType, PlanType
  <1>2. done * Overrun \in Nat /\ Overrun \in Nat
    BY OverrunType
  <1> HIDE DEF r
  <1>3. r + done * Overrun >= n * q
    BY DEF HasEnough, r
  <1>4. a <= CeilDiv(r, n)
    BY DEF r
  <1>5. r - a + done * Overrun >= (n - 1) * q
    BY <1>1, <1>2, <1>3, <1>4, ShareIsKept
  <1>6. A - entryPointDeadline' = r - a
    BY <1>1, PlanType
  <1>7. now' <= entryPointDeadline' + Overrun
    BY <1>2
  <1>8. QED
    BY <1>5, <1>6, <1>7

\* When it has ended, there is one overrun more.
LEMMA EndKeepsShares ==
  ASSUME now \in Nat, entryPointDeadline \in Int,
         NEW n \in Int, NEW q \in Nat, NEW done \in Nat,
         LeavesEnough(n, q, done)
  PROVE  HasEnough(n, q, done + 1)
  <1>1. /\ Remaining(deadlinePlan, now) \in Nat
        /\ Remaining(deadlinePlan, now) >= A - now
        /\ A \in Nat
    BY RemainingType, PlanType
  <1>2. /\ Overrun \in Nat
        /\ done * Overrun \in Nat
        /\ (done + 1) * Overrun = done * Overrun + Overrun
        /\ n * q \in Int
    BY OverrunType
  <1>3. /\ now <= entryPointDeadline + Overrun
        /\ (A - entryPointDeadline) + done * Overrun >= n * q
    BY DEF LeavesEnough
  <1>4. Remaining(deadlinePlan, now) + (done + 1) * Overrun >= n * q
    BY <1>1, <1>2, <1>3
  <1>5. QED
    BY <1>4 DEF HasEnough

\* A step of the attempt moves neither its deadline nor, beyond the overrun,
\* the clock past it.
LEMMA ExecuteKeepsShares ==
  ASSUME TypeOK, Execute, NEW n, NEW q, NEW done, LeavesEnough(n, q, done)
  PROVE  /\ now' <= entryPointDeadline' + Overrun
         /\ (A - entryPointDeadline)' + done * Overrun >= n * q
  <1>1. /\ entryPointDeadline' = entryPointDeadline
        /\ now' <= now \/ now' <= entryPointDeadline + Overrun
        /\ now' \in Nat
    BY AttemptStepProperties DEF Execute, TypeOK, Overrun, AttemptTypeOK
  <1>2. now <= entryPointDeadline + Overrun /\ (A - entryPointDeadline) + done * Overrun >= n * q
    BY DEF LeavesEnough
  <1>3. QED
    BY <1>1, <1>2, Numbers, PlanType, OverrunType

\* What each overload of the entry point was promised when it was opened.
FirstShare == Remaining(deadlinePlan, openedAt) \div Overloads[entryPoint]

LEMMA FirstShareType ==
  ASSUME TypeOK, entryPoint <= Len(Overloads), Overloads[entryPoint] # 0
  PROVE  FirstShare \in Nat
  <1>1. Remaining(deadlinePlan, openedAt) \in Nat /\ Overloads[entryPoint] \in Nat \ {0}
    BY Numbers, RemainingType
  <1>2. QED
    BY <1>1 DEF FirstShare

ShareInv ==
  /\ LoopInv
  /\ pc = "overload" /\ overloadIdx < Overloads[entryPoint] =>
       HasEnough(Overloads[entryPoint] - overloadIdx, FirstShare, overloadIdx)
  /\ pc = "attempt" =>
       LeavesEnough(Overloads[entryPoint] - overloadIdx - 1, FirstShare, overloadIdx)

LEMMA NextShare == ShareInv /\ [Next]_vars => ShareInv'
  <1> SUFFICES ASSUME ShareInv, [Next]_vars PROVE ShareInv'
    OBVIOUS
  <1>0. TypeOK /\ LoopInv' /\ TypeOK'
    BY NextLoop DEF ShareInv, LoopInv
  <1>1. CASE OpenEntryPoint
    <2> DEFINE n == Overloads[entryPoint]
               r == Remaining(deadlinePlan, now)'
               q == r \div n
    <2>1. /\ overloadIdx' = 0 /\ pc' = "overload" /\ openedAt' = now'
          /\ entryPoint' = entryPoint
          /\ n \in Nat
      BY <1>0, <1>1, Numbers DEF OpenEntryPoint
    <2>2. r \in Nat
      <3>1. now' \in Nat
        BY <1>0 DEF TypeOK, AttemptTypeOK
      <3>2. QED
        BY <3>1, RemainingType, PlanType
    <2>3. FirstShare' = q
      BY <2>1 DEF FirstShare
    <2>4. Overrun \in Nat /\ Overrun' = Overrun
      BY OverrunType DEF Overrun
    <2>5. HasEnough(Overloads[entryPoint] - overloadIdx, FirstShare, overloadIdx)' <=>
            r + 0 * Overrun >= (n - 0) * q
      BY <2>1, <2>3, <2>4 DEF HasEnough
    <2>6. n # 0 => r >= n * q
      BY <2>1, <2>2
    <2> HIDE DEF q, r
    <2>7. n # 0 => r + 0 * Overrun >= (n - 0) * q
      BY <2>1, <2>2, <2>4, <2>6
    <2>8. QED
      BY <1>0, <2>1, <2>5, <2>7 DEF ShareInv
  <1>2. CASE StartAttempt
    <2> DEFINE n == Overloads[entryPoint] - overloadIdx
    <2>1. /\ pc = "overload" /\ pc' = "attempt" /\ overloadIdx < Overloads[entryPoint]
          /\ now' = now /\ entryPointDeadline' = now + FirstAllocation
          /\ UNCHANGED <<entryPoint, overloadIdx, openedAt>>
          /\ FirstAllocation > 0
      BY <1>2 DEF StartAttempt, Install, loopVars
    <2>2. /\ n \in Nat \ {0}
          /\ FirstAllocation \in Nat
          /\ now + FirstAllocation <= A
          /\ FirstAllocation <= CeilDiv(Remaining(deadlinePlan, now), n)
      BY <1>0, <2>1, FirstAllocationType
    <2>3. entryPoint <= Len(Overloads) /\ Overloads[entryPoint] # 0
      BY <1>0, <2>1, Numbers DEF TypeOK
    <2>4. FirstShare \in Nat /\ overloadIdx \in Nat /\ now \in Nat
      BY <1>0, <2>3, FirstShareType, Numbers
    <2>5. HasEnough(n, FirstShare, overloadIdx)
      BY <2>1 DEF ShareInv
    <2> HIDE DEF n
    <2>6. /\ now' <= entryPointDeadline' + Overrun
          /\ (A - entryPointDeadline') + overloadIdx * Overrun >= (n - 1) * FirstShare
      BY <2>1, <2>2, <2>4, <2>5, StartKeepsShares
    <2>7. LeavesEnough(Overloads[entryPoint] - overloadIdx - 1, FirstShare, overloadIdx)'
      <3>1. FirstShare' = FirstShare
        BY <2>1, PlanType DEF FirstShare
      <3>2. QED
        BY <2>1, <2>6, <3>1, PlanType DEF LeavesEnough, Overrun, n
    <2>8. QED
      BY <1>0, <2>1, <2>7 DEF ShareInv
  <1>3. CASE Execute
    <2>1. /\ UNCHANGED <<pc, entryPoint, overloadIdx, openedAt>>
          /\ pc # "overload"
      BY <1>3 DEF Execute
    <2>2. CASE pc = "attempt"
      <3>1. LeavesEnough(Overloads[entryPoint] - overloadIdx - 1, FirstShare, overloadIdx)
        BY <2>2 DEF ShareInv
      <3>2. /\ now' <= entryPointDeadline' + Overrun
            /\ (A - entryPointDeadline)' + overloadIdx * Overrun >=
                 (Overloads[entryPoint] - overloadIdx - 1) * FirstShare
        BY <1>0, <1>3, <3>1, ExecuteKeepsShares
      <3>3. FirstShare' = FirstShare /\ Overrun' = Overrun
        BY <2>1, PlanType DEF FirstShare, Overrun
      <3>4. LeavesEnough(Overloads[entryPoint] - overloadIdx - 1, FirstShare, overloadIdx)'
        BY <2>1, <3>2, <3>3 DEF LeavesEnough
      <3>5. QED
        BY <1>0, <2>1, <2>2, <3>4 DEF ShareInv
    <2>3. QED
      BY <1>0, <2>1, <2>2 DEF ShareInv
  <1>4. CASE EndAttempt
    <2> DEFINE n == Overloads[entryPoint] - overloadIdx - 1
    <2>1. /\ pc = "attempt" /\ pc' = "overload"
          /\ overloadIdx' = overloadIdx + 1
          /\ UNCHANGED <<entryPoint, openedAt, now>>
      BY <1>4 DEF EndAttempt, attemptVars
    <2>2. /\ entryPoint <= Len(Overloads) /\ overloadIdx < Overloads[entryPoint]
          /\ overloadIdx \in Nat /\ now \in Nat /\ entryPointDeadline \in Int
          /\ Overloads[entryPoint] \in Nat
      BY <1>0, <2>1, Numbers DEF TypeOK
    <2>3. FirstShare \in Nat
      BY <1>0, <2>2, FirstShareType
    <2>4. LeavesEnough(n, FirstShare, overloadIdx)
      BY <2>1 DEF ShareInv
    <2>5. n \in Int /\ Overloads[entryPoint] - (overloadIdx + 1) = n
      BY <2>2
    <2> HIDE DEF n
    <2>6. HasEnough(n, FirstShare, overloadIdx + 1)
      BY <2>2, <2>3, <2>4, <2>5, EndKeepsShares
    <2>7. FirstShare' = FirstShare /\ Overrun' = Overrun
      BY <2>1, PlanType DEF FirstShare, Overrun
    <2>8. HasEnough(Overloads[entryPoint] - overloadIdx, FirstShare, overloadIdx)'
      BY <2>1, <2>5, <2>6, <2>7, PlanType DEF HasEnough
    <2>9. QED
      BY <1>0, <2>1, <2>8 DEF ShareInv
  <1>5. CASE \/ SkipEntryPoint \/ CloseEntryPoint \/ BeginReruns \/ StartRerun \/ DenyRerun
             \/ EndRerun \/ EndReruns \/ SchedulingError \/ Leave
    <2>1. pc' \notin {"overload", "attempt"}
      BY <1>5 DEF SkipEntryPoint, CloseEntryPoint, BeginReruns, StartRerun, DenyRerun, EndRerun,
                  EndReruns, SchedulingError, Leave
    <2>2. QED
      BY <1>0, <2>1 DEF ShareInv
  <1>6. CASE UNCHANGED vars
    <2>1. UNCHANGED <<pc, now, entryPoint, overloadIdx, openedAt, entryPointDeadline>>
      BY <1>6 DEF vars, loopVars, attemptVars
    <2>2. FirstShare' = FirstShare /\ Overrun' = Overrun
      BY <2>1, PlanType DEF FirstShare, Overrun
    <2>3. QED
      BY <1>0, <2>1, <2>2, PlanType DEF ShareInv, HasEnough, LeavesEnough
  <1>7. QED
    BY <1>1, <1>2, <1>3, <1>4, <1>5, <1>6 DEF Next

\* For all overloads, caps and bodies: each overload is reached with its share
\* of the time its entry point had when it was opened, up to the overruns.
THEOREM SharesAreKept == Spec => []FairShare
  <1>1. Init => ShareInv
    BY InitLoop DEF Init, ShareInv
  <1>2. ShareInv => FairShare
    BY DEF ShareInv, FairShare, HasEnough, FirstShare, Overrun
  <1>3. QED
    BY <1>1, <1>2, NextShare, PTL DEF Spec

-----------------------------------------------------------------------------

\* Every rerun to come has the common cap, up to the overruns.
CapInv ==
  /\ LoopInv
  /\ pc = "rerun" =>
       HasEnough(Len(timeoutEntryPoints) - rerunIdx, configTimeoutMs, rerunIdx)
  /\ pc = "reattempt" =>
       LeavesEnough(Len(timeoutEntryPoints) - rerunIdx - 1, configTimeoutMs, rerunIdx)

\* A rerun that is denied leaves its share to the others.
LEMMA DenialKeepsShares ==
  ASSUME now \in Nat, NEW n \in Nat \ {0}, NEW q \in Nat, NEW done \in Nat,
         HasEnough(n, q, done)
  PROVE  HasEnough(n - 1, q, done + 1)
  <1>1. /\ Remaining(deadlinePlan, now) \in Nat
        /\ Overrun \in Nat
        /\ done * Overrun \in Nat
        /\ (done + 1) * Overrun = done * Overrun + Overrun
        /\ n * q = (n - 1) * q + q
        /\ (n - 1) * q \in Nat
    BY RemainingType, OverrunType
  <1>2. Remaining(deadlinePlan, now) + done * Overrun >= n * q
    BY DEF HasEnough
  <1>3. Remaining(deadlinePlan, now) + (done + 1) * Overrun >= (n - 1) * q
    BY <1>1, <1>2
  <1>4. QED
    BY <1>3 DEF HasEnough

LEMMA NextCap == CapInv /\ [Next]_vars => CapInv'
  <1> SUFFICES ASSUME CapInv, [Next]_vars PROVE CapInv'
    OBVIOUS
  <1> DEFINE L == Len(timeoutEntryPoints)
  <1>0. /\ TypeOK /\ LoopInv /\ LoopInv'
        /\ L \in Nat /\ rerunIdx \in Nat /\ configTimeoutMs \in Nat
        /\ now \in Nat /\ entryPointDeadline \in Int
        /\ Overrun \in Nat /\ Overrun' = Overrun
    BY NextLoop, Numbers, OverrunType DEF CapInv, LoopInv, Overrun
  <1>1. CASE BeginReruns
    <2> DEFINE r == Remaining(deadlinePlan, now)
               c == RerunCap(L)
    <2>1. /\ pc = "entry" /\ pc' = "rerun" /\ timeoutEntryPoints # <<>>
          /\ configTimeoutMs' = c
          /\ UNCHANGED <<now, rerunIdx, timeoutEntryPoints>>
      BY <1>1 DEF BeginReruns, attemptVars
    <2>2. rerunIdx = 0
      BY <1>0, <2>1 DEF LoopInv, FirstPass
    <2>3. c \in Nat /\ r >= L * c /\ r \in Nat
      BY <1>0, <2>1, RerunCapType, RemainingType
    <2>4. HasEnough(L - rerunIdx, configTimeoutMs, rerunIdx)' <=> r + 0 * Overrun >= (L - 0) * c
      BY <1>0, <2>1, <2>2, PlanType DEF HasEnough
    <2> HIDE DEF c, r
    <2>5. r + 0 * Overrun >= (L - 0) * c
      <3>1. 0 * Overrun = 0 /\ L - 0 = L /\ r + 0 = r
        BY <1>0, <2>3
      <3>2. QED
        BY <2>3, <3>1
    <2>6. QED
      BY <1>0, <2>1, <2>4, <2>5 DEF CapInv
  <1>2. CASE StartRerun
    <2> DEFINE n == L - rerunIdx
    <2>1. /\ pc = "rerun" /\ pc' = "reattempt" /\ rerunIdx < L
          /\ RerunAllocation > 0
          /\ now' = now /\ entryPointDeadline' = now + RerunAllocation
          /\ UNCHANGED <<timeoutEntryPoints, rerunIdx, configTimeoutMs>>
      BY <1>2 DEF StartRerun, Install
    <2>2. /\ n \in Nat \ {0}
          /\ RerunAllocation \in Nat
          /\ now + RerunAllocation <= A
          /\ RerunAllocation <= CeilDiv(Remaining(deadlinePlan, now), n)
      BY <1>0, <2>1, RerunAllocationType
    <2>3. HasEnough(n, configTimeoutMs, rerunIdx)
      BY <2>1 DEF CapInv
    <2> HIDE DEF n
    <2>4. /\ now' <= entryPointDeadline' + Overrun
          /\ (A - entryPointDeadline') + rerunIdx * Overrun >= (n - 1) * configTimeoutMs
      BY <1>0, <2>1, <2>2, <2>3, StartKeepsShares
    <2>5. LeavesEnough(L - rerunIdx - 1, configTimeoutMs, rerunIdx)'
      BY <1>0, <2>1, <2>4, PlanType DEF LeavesEnough, n
    <2>6. QED
      BY <1>0, <2>1, <2>5 DEF CapInv
  <1>3. CASE DenyRerun
    <2> DEFINE n == L - rerunIdx
    <2>1. /\ pc = "rerun" /\ pc' = "rerun" /\ rerunIdx < L /\ rerunIdx' = rerunIdx + 1
          /\ UNCHANGED <<now, timeoutEntryPoints, configTimeoutMs>>
      BY <1>3 DEF DenyRerun, ClearAttemptState
    <2>2. n \in Nat \ {0} /\ n - 1 = L - (rerunIdx + 1)
      BY <1>0, <2>1
    <2>3. HasEnough(n, configTimeoutMs, rerunIdx)
      BY <2>1 DEF CapInv
    <2> HIDE DEF n
    <2>4. HasEnough(n - 1, configTimeoutMs, rerunIdx + 1)
      BY <1>0, <2>2, <2>3, DenialKeepsShares
    <2>5. HasEnough(L - rerunIdx, configTimeoutMs, rerunIdx)'
      BY <1>0, <2>1, <2>2, <2>4, PlanType DEF HasEnough
    <2>6. QED
      BY <1>0, <2>1, <2>5 DEF CapInv
  <1>4. CASE Execute
    <2>1. /\ UNCHANGED <<pc, timeoutEntryPoints, rerunIdx, configTimeoutMs>>
          /\ pc # "rerun"
      BY <1>4 DEF Execute
    <2>2. CASE pc = "reattempt"
      <3>1. LeavesEnough(L - rerunIdx - 1, configTimeoutMs, rerunIdx)
        BY <2>2 DEF CapInv
      <3>2. /\ now' <= entryPointDeadline' + Overrun
            /\ (A - entryPointDeadline)' + rerunIdx * Overrun >= (L - rerunIdx - 1) * configTimeoutMs
        BY <1>0, <1>4, <3>1, ExecuteKeepsShares
      <3>3. LeavesEnough(L - rerunIdx - 1, configTimeoutMs, rerunIdx)'
        BY <1>0, <2>1, <3>2 DEF LeavesEnough
      <3>4. QED
        BY <1>0, <2>1, <2>2, <3>3 DEF CapInv
    <2>3. QED
      BY <1>0, <2>1, <2>2 DEF CapInv
  <1>5. CASE EndRerun
    <2> DEFINE n == L - rerunIdx - 1
    <2>1. /\ pc = "reattempt" /\ pc' = "rerun" /\ rerunIdx' = rerunIdx + 1
          /\ UNCHANGED <<now, timeoutEntryPoints, configTimeoutMs>>
      BY <1>5 DEF EndRerun, ClearAttemptState
    <2>2. n \in Int /\ L - (rerunIdx + 1) = n
      BY <1>0
    <2>3. LeavesEnough(n, configTimeoutMs, rerunIdx)
      BY <2>1 DEF CapInv
    <2> HIDE DEF n
    <2>4. HasEnough(n, configTimeoutMs, rerunIdx + 1)
      BY <1>0, <2>2, <2>3, EndKeepsShares
    <2>5. HasEnough(L - rerunIdx, configTimeoutMs, rerunIdx)'
      BY <1>0, <2>1, <2>2, <2>4, PlanType DEF HasEnough
    <2>6. QED
      BY <1>0, <2>1, <2>5 DEF CapInv
  <1>6. CASE \/ SkipEntryPoint \/ OpenEntryPoint \/ StartAttempt \/ EndAttempt \/ CloseEntryPoint
             \/ EndReruns \/ SchedulingError \/ Leave
    <2>1. pc' \notin {"rerun", "reattempt"}
      BY <1>6 DEF SkipEntryPoint, OpenEntryPoint, StartAttempt, EndAttempt, CloseEntryPoint,
                  EndReruns, SchedulingError, Leave
    <2>2. QED
      BY <1>0, <2>1 DEF CapInv
  <1>7. CASE UNCHANGED vars
    <2>1. UNCHANGED <<pc, now, timeoutEntryPoints, rerunIdx, configTimeoutMs, entryPointDeadline>>
      BY <1>7 DEF vars, loopVars, attemptVars
    <2>2. QED
      BY <1>0, <2>1, PlanType DEF CapInv, HasEnough, LeavesEnough
  <1>8. QED
    BY <1>1, <1>2, <1>3, <1>4, <1>5, <1>6, <1>7 DEF Next

\* If n attempts have q ticks each, up to a slack, the allotment of the next
\* one under the cap q is q, up to the slack.
LEMMA AllotmentIsEnough ==
  ASSUME now \in Nat, NEW n \in Nat \ {0}, NEW q \in Nat, NEW slack \in Nat,
         Remaining(deadlinePlan, now) + slack >= n * q
  PROVE  Allocation(deadlinePlan, now, n, q) + slack >= q
  <1> DEFINE r == Remaining(deadlinePlan, now)
             c == CeilDiv(r, n)
             a == Allocation(deadlinePlan, now, n, q)
  <1>1. r \in Nat /\ A \in Nat
    BY RemainingType, PlanType
  <1>2. c \in Nat /\ r <= n * c
    BY <1>1, CeilDivProperties
  <1>3. n * q >= q /\ n * q \in Nat
    <2>1. n * q = (n - 1) * q + q /\ (n - 1) * q \in Nat
      OBVIOUS
    <2>2. QED
      BY <2>1
  <1>4. CASE now >= A
    <2>1. a = 0 /\ r = 0
      BY <1>1, <1>4 DEF Allocation, Remaining, Monus, A
    <2>2. QED
      BY <1>3, <2>1
  <1>5. CASE now < A
    <2>1. a = Least(q, Least(c, r))
      BY <1>1, <1>5 DEF Allocation, A
    <2>2. r + slack >= n * q
      OBVIOUS
    <2> HIDE DEF r, c, a
    <2>3. r + slack >= q
      BY <1>1, <1>3, <2>2
    <2>4. c + slack >= q
      <3>1. CASE c >= q
        BY <1>2, <3>1
      <3>2. CASE c < q
        <4>1. PICK d \in Nat : q = c + d
          BY <1>2, <3>2
        <4>2. n * q = n * c + n * d /\ n * c \in Nat /\ n * d \in Nat /\ n * d >= d
          <5>1. n * d = (n - 1) * d + d /\ (n - 1) * d \in Nat
            BY <4>1
          <5>2. QED
            BY <1>2, <4>1, <5>1
        <4>3. slack >= n * d
          BY <1>1, <1>2, <2>2, <4>2
        <4>4. QED
          BY <1>2, <4>1, <4>2, <4>3
      <3>3. QED
        BY <1>2, <3>1, <3>2
    <2>5. QED
      BY <1>1, <1>2, <2>1, <2>3, <2>4 DEF Least, a
  <1>6. QED
    BY <1>1, <1>4, <1>5

\* For all queues, budgets and bodies: each rerun is allotted the common cap,
\* up to the overruns of the reruns before it.
THEOREM RerunsHaveTheirCap == Spec => []RerunsGetTheirShare
  <1>1. Init => CapInv
    BY InitLoop DEF Init, CapInv
  <1>2. CapInv => RerunsGetTheirShare
    <2> SUFFICES ASSUME CapInv, pc = "rerun", rerunIdx < Len(timeoutEntryPoints)
                 PROVE  RerunAllocation + rerunIdx * Overrun >= configTimeoutMs
      BY DEF RerunsGetTheirShare, Overrun
    <2> DEFINE n == Len(timeoutEntryPoints) - rerunIdx
    <2>1. /\ n \in Nat \ {0} /\ now \in Nat /\ configTimeoutMs \in Nat
          /\ rerunIdx * Overrun \in Nat
      BY Numbers, OverrunType DEF CapInv, LoopInv
    <2>2. Remaining(deadlinePlan, now) + rerunIdx * Overrun >= n * configTimeoutMs
      BY DEF CapInv, HasEnough
    <2> HIDE DEF n
    <2>3. Allocation(deadlinePlan, now, n, configTimeoutMs) + rerunIdx * Overrun >= configTimeoutMs
      BY <2>1, <2>2, AllotmentIsEnough
    <2>4. QED
      BY <2>3 DEF RerunAllocation, n
  <1>3. QED
    BY <1>1, <1>2, NextCap, PTL DEF Spec

-----------------------------------------------------------------------------
(* The analysis stops in time *)

\* No deadline is later than the one of the analysis, and none is missed by
\* more than a step.
DeadlineInv ==
  /\ LoopInv
  /\ now < A + MaxStep
  /\ pc \in {"attempt", "reattempt"} => entryPointDeadline <= A

LEMMA InitDeadline == Init => DeadlineInv
  <1> SUFFICES ASSUME Init PROVE DeadlineInv
    OBVIOUS
  <1>1. now = 0 /\ pc = "entry"
    BY DEF Init
  <1>2. QED
    BY <1>1, InitLoop, PlanType, AttemptAssumption DEF DeadlineInv

LEMMA NextDeadline == DeadlineInv /\ [Next]_vars => DeadlineInv'
  <1> SUFFICES ASSUME DeadlineInv, [Next]_vars PROVE DeadlineInv'
    OBVIOUS
  <1>0. /\ TypeOK /\ LoopInv'
        /\ now \in Nat
        /\ A \in Nat /\ A' = A
        /\ MaxStep \in Nat \ {0}
    BY NextLoop, PlanType, AttemptAssumption DEF DeadlineInv, LoopInv, TypeOK, AttemptTypeOK
  <1>1. CASE OpenEntryPoint
    <2>1. now < A /\ pc' = "overload" /\ \E ticks \in 0 .. MaxStep : now' = now + ticks
      BY <1>1 DEF OpenEntryPoint, CanStartAnalysis, A
    <2>2. QED
      BY <1>0, <2>1 DEF DeadlineInv
  <1>2. CASE StartAttempt
    <2>1. now + FirstAllocation <= A
      BY <1>0, <1>2, FirstAllocationType DEF StartAttempt
    <2>2. now' = now /\ entryPointDeadline' = now + FirstAllocation
      BY <1>2 DEF StartAttempt, Install
    <2>3. QED
      BY <1>0, <2>1, <2>2 DEF DeadlineInv
  <1>3. CASE StartRerun
    <2>1. now + RerunAllocation <= A
      BY <1>0, <1>3, RerunAllocationType DEF StartRerun
    <2>2. now' = now /\ entryPointDeadline' = now + RerunAllocation
      BY <1>3 DEF StartRerun, Install
    <2>3. QED
      BY <1>0, <2>1, <2>2 DEF DeadlineInv
  <1>4. CASE Execute
    <2>1. /\ UNCHANGED <<entryPointDeadline, pc>>
          /\ pc \in {"attempt", "reattempt"}
          /\ running
          /\ now' <= now \/ now' <= entryPointDeadline + (MaxStep - 1)
      BY <1>0, <1>4, AttemptStepProperties DEF Execute, TypeOK
    <2>2. entryPointDeadline \in Nat /\ now' \in Nat
      BY <1>0, <2>1 DEF LoopInv, TypeOK, AttemptTypeOK
    <2>3. now' < A + MaxStep
      BY <1>0, <2>1, <2>2 DEF DeadlineInv
    <2>4. QED
      BY <1>0, <2>1, <2>3 DEF DeadlineInv
  <1>5. CASE \/ SkipEntryPoint \/ CloseEntryPoint \/ EndAttempt \/ BeginReruns \/ DenyRerun
             \/ EndRerun \/ EndReruns \/ SchedulingError \/ Leave
    <2>1. now' = now /\ pc' \notin {"attempt", "reattempt"}
      BY <1>5 DEF SkipEntryPoint, CloseEntryPoint, EndAttempt, BeginReruns, DenyRerun, EndRerun,
                  EndReruns, SchedulingError, Leave, ClearAttemptState, attemptVars
    <2>2. QED
      BY <1>0, <2>1 DEF DeadlineInv
  <1>6. CASE UNCHANGED vars
    BY <1>0, <1>6 DEF DeadlineInv, vars, attemptVars
  <1>7. QED
    BY <1>1, <1>2, <1>3, <1>4, <1>5, <1>6 DEF Next

\* The deadlines of the analysis and of the finalization are in order.
LEMMA FinalizationType ==
  /\ deadlinePlan.finalization \in Nat
  /\ A <= deadlinePlan.finalization
  BY PlanProperties, JavaAssumption DEF A, deadlinePlan

\* Whatever the entry points are and whatever their analysis does, the clock
\* passes the analysis deadline by less than one step of the interpreter.
THEOREM AnalysisIsInTime == Spec => []AnalysisStopsInTime
  <1>1. DeadlineInv => AnalysisStopsInTime
    <2> SUFFICES ASSUME DeadlineInv PROVE AnalysisStopsInTime
      OBVIOUS
    <2>1. now \in Nat /\ now < A + MaxStep /\ MaxStep \in Nat
      BY AttemptAssumption DEF DeadlineInv, LoopInv, TypeOK, AttemptTypeOK
    <2>2. MaxStep <= deadlinePlan.finalization - A => now < deadlinePlan.finalization
      BY <2>1, PlanType, FinalizationType
    <2>3. QED
      BY <2>1, <2>2 DEF AnalysisStopsInTime, CanFinalize, A
  <1>2. QED
    BY <1>1, InitDeadline, NextDeadline, PTL DEF Spec

-----------------------------------------------------------------------------
(* Every step leaves less to do *)

\* How each component of the rank can be the first that falls.
LEMMA FirstToFall ==
  ASSUME NEW a, NEW b, DOMAIN b = 1 .. 8
  PROVE  /\ a[1] < b[1] => Lower(a, b)
         /\ a[1] = b[1] /\ a[2] < b[2] => Lower(a, b)
         /\ a[1] = b[1] /\ a[2] = b[2] /\ a[3] < b[3] => Lower(a, b)
         /\ a[1] = b[1] /\ a[2] = b[2] /\ a[3] = b[3] /\ a[4] < b[4] => Lower(a, b)
         /\ (\A j \in 1 .. 4 : a[j] = b[j]) /\ a[5] < b[5] => Lower(a, b)
         /\ (\A j \in 1 .. 5 : a[j] = b[j]) /\ a[6] < b[6] => Lower(a, b)
         /\ (\A j \in 1 .. 6 : a[j] = b[j]) /\ a[7] < b[7] => Lower(a, b)
         /\ (\A j \in 1 .. 7 : a[j] = b[j]) /\ a[8] < b[8] => Lower(a, b)
  BY DEF Lower

OverloadsLeft == IF pc \in {"overload", "attempt"} THEN Overloads[entryPoint] - overloadIdx ELSE 0

LEMMA RankEntries ==
  /\ DOMAIN Rank = 1 .. 8
  /\ Rank[1] = Phase
  /\ Rank[2] = ItemsLeft
  /\ Rank[3] = IF pc = "entry" THEN 1 ELSE 0
  /\ Rank[4] = OverloadsLeft
  /\ Rank[5] = IF pc \in {"overload", "rerun"} THEN 1 ELSE 0
  /\ Rank[6] = IF running THEN 1 ELSE 0
  /\ Rank[7] = todo
  /\ Rank[8] = Remaining(deadlinePlan, now)
  BY DEF Rank, OverloadsLeft

LEMMA RankEntriesNext ==
  /\ Rank'[1] = Phase'
  /\ Rank'[2] = ItemsLeft'
  /\ Rank'[3] = IF pc' = "entry" THEN 1 ELSE 0
  /\ Rank'[4] = OverloadsLeft'
  /\ Rank'[5] = IF pc' \in {"overload", "rerun"} THEN 1 ELSE 0
  /\ Rank'[6] = IF running' THEN 1 ELSE 0
  /\ Rank'[7] = todo'
  /\ Rank'[8] = Remaining(deadlinePlan, now')
  BY DEF Rank, OverloadsLeft, deadlinePlan

\* Each component of the rank is a natural number.
LEMMA RankParts ==
  ASSUME TypeOK
  PROVE  /\ Phase \in 0 .. 3
         /\ ItemsLeft \in Nat
         /\ OverloadsLeft \in Nat
         /\ todo \in Nat
         /\ Remaining(deadlinePlan, now) \in Nat
  <1>1. Phase \in 0 .. 3
    BY DEF Phase
  <1>2. /\ Len(Overloads) + 1 - entryPoint \in Nat
        /\ pc \in {"rerun", "reattempt"} => Len(timeoutEntryPoints) - rerunIdx \in Nat
    BY Numbers DEF TypeOK
  <1>3. ItemsLeft \in Nat
    BY <1>2 DEF ItemsLeft
  <1>4. OverloadsLeft \in Nat
    BY Numbers DEF OverloadsLeft, TypeOK
  <1>5. todo \in Nat
    BY AttemptAssumption DEF TypeOK, AttemptTypeOK
  <1>6. QED
    BY <1>1, <1>3, <1>4, <1>5, Numbers, RemainingType

\* An instruction takes time; a body that returns or throws, and an abort,
\* leave less of the fan-out or end it.
LEMMA AttemptStepAdvances ==
  ASSUME DeadlineInv, pc \in {"attempt", "reattempt"}, AttemptStep
  PROVE  /\ running
         /\ \/ ~running'
            \/ running' /\ todo' < todo
            \/ running' /\ todo' = todo /\ Remaining(deadlinePlan, now') < Remaining(deadlinePlan, now)
  <1>0. /\ now \in Nat /\ MaxStep \in Nat /\ A \in Nat
        /\ running \in BOOLEAN /\ running' \in BOOLEAN
        /\ todo \in Nat
    <2>1. running' \in BOOLEAN
      BY AttemptStepProperties DEF DeadlineInv, LoopInv, TypeOK, AttemptTypeOK
    <2>2. QED
      BY <2>1, AttemptAssumption, PlanType DEF DeadlineInv, LoopInv, TypeOK, AttemptTypeOK
  <1>1. CASE Interpret
    <2>1. PICK ticks \in 1 .. MaxStep : now' = now + ticks
      BY <1>1 DEF Interpret
    <2>2. running /\ running' = running /\ todo' = todo /\ ~(now >= entryPointDeadline)
      BY <1>1 DEF Interpret, ShouldAbort
    <2>3. entryPointDeadline \in Nat /\ entryPointDeadline <= A
      BY <2>2 DEF DeadlineInv, LoopInv, TypeOK, AttemptTypeOK
    <2>4. now < A /\ now' \in Nat /\ now < now'
      BY <1>0, <2>1, <2>2, <2>3
    <2>5. Remaining(deadlinePlan, now') < Remaining(deadlinePlan, now)
      BY <1>0, <2>4 DEF Remaining, Monus, A
    <2>6. QED
      BY <1>0, <2>2, <2>5
  <1>2. CASE Abort
    BY <1>2 DEF Abort
  <1>3. CASE Return
    BY <1>0, <1>3 DEF Return
  <1>4. CASE Throw
    BY <1>4 DEF Throw
  <1>5. QED
    BY <1>1, <1>2, <1>3, <1>4 DEF AttemptStep

LEMMA NextAdvances == DeadlineInv /\ DeadlineInv' /\ Next => Lower(Rank', Rank)
  <1> SUFFICES ASSUME DeadlineInv, DeadlineInv', Next PROVE Lower(Rank', Rank)
    OBVIOUS
  <1>0. /\ TypeOK
        /\ Len(Overloads) \in Nat
        /\ Len(timeoutEntryPoints) \in Nat
        /\ overloadIdx \in Nat /\ rerunIdx \in Nat /\ entryPoint \in Nat
        /\ entryPoint <= Len(Overloads) => Overloads[entryPoint] \in Nat
    BY Numbers DEF DeadlineInv, LoopInv
  <1>1. CASE BeginReruns \/ EndReruns \/ SchedulingError \/ Leave
    <2>1. Phase' < Phase
      BY <1>1 DEF Phase, BeginReruns, EndReruns, SchedulingError, Leave
    <2>2. QED
      BY <2>1, RankEntries, RankEntriesNext, FirstToFall
  <1>2. CASE SkipEntryPoint \/ CloseEntryPoint
    <2>1. /\ pc \in {"entry", "overload"} /\ pc' = "entry" /\ entryPoint' = entryPoint + 1
      BY <1>2 DEF SkipEntryPoint, CloseEntryPoint
    <2>2. Phase' = Phase /\ ItemsLeft' < ItemsLeft
      BY <1>0, <2>1 DEF Phase, ItemsLeft
    <2>3. QED
      BY <2>2, RankEntries, RankEntriesNext, FirstToFall
  <1>3. CASE DenyRerun \/ EndRerun
    <2>1. /\ pc \in {"rerun", "reattempt"} /\ pc' = "rerun"
          /\ rerunIdx' = rerunIdx + 1 /\ UNCHANGED timeoutEntryPoints
      BY <1>3 DEF DenyRerun, EndRerun
    <2>2. Phase' = Phase /\ ItemsLeft' < ItemsLeft
      BY <1>0, <2>1 DEF Phase, ItemsLeft
    <2>3. QED
      BY <2>2, RankEntries, RankEntriesNext, FirstToFall
  <1>4. CASE OpenEntryPoint
    <2>1. pc = "entry" /\ pc' = "overload" /\ UNCHANGED entryPoint
      BY <1>4 DEF OpenEntryPoint
    <2>2. Rank'[1] = Rank[1] /\ Rank'[2] = Rank[2] /\ Rank'[3] < Rank[3]
      BY <2>1, RankEntries, RankEntriesNext DEF Phase, ItemsLeft
    <2>3. QED
      BY <2>2, RankEntries, FirstToFall
  <1>5. CASE EndAttempt
    <2>1. /\ pc = "attempt" /\ pc' = "overload" /\ UNCHANGED entryPoint
          /\ overloadIdx' = overloadIdx + 1
      BY <1>5 DEF EndAttempt
    <2>2. entryPoint <= Len(Overloads)
      BY <1>0, <2>1 DEF TypeOK
    <2>3. OverloadsLeft' < OverloadsLeft
      BY <1>0, <2>1, <2>2 DEF OverloadsLeft
    <2>4. Rank'[1] = Rank[1] /\ Rank'[2] = Rank[2] /\ Rank'[3] = Rank[3] /\ Rank'[4] < Rank[4]
      BY <2>1, <2>3, RankEntries, RankEntriesNext DEF Phase, ItemsLeft
    <2>5. QED
      BY <2>4, RankEntries, FirstToFall
  <1>6. CASE StartAttempt \/ StartRerun
    <2>1. \/ pc = "overload" /\ pc' = "attempt" /\ UNCHANGED <<entryPoint, overloadIdx>>
          \/ pc = "rerun" /\ pc' = "reattempt" /\ UNCHANGED <<rerunIdx, timeoutEntryPoints>>
      BY <1>6 DEF StartAttempt, StartRerun, loopVars
    <2>2. /\ Rank'[1] = Rank[1] /\ Rank'[2] = Rank[2] /\ Rank'[3] = Rank[3]
          /\ Rank'[4] = Rank[4] /\ Rank'[5] < Rank[5]
      BY <2>1, RankEntries, RankEntriesNext DEF Phase, ItemsLeft, OverloadsLeft
    <2>3. \A j \in 1 .. 4 : Rank'[j] = Rank[j]
      BY <2>2
    <2>4. QED
      BY <2>2, <2>3, RankEntries, FirstToFall
  <1>7. CASE Execute
    <2>1. /\ pc \in {"attempt", "reattempt"} /\ AttemptStep
          /\ UNCHANGED <<pc, entryPoint, overloadIdx, timeoutEntryPoints, rerunIdx>>
      BY <1>7 DEF Execute
    <2>2. /\ Rank'[1] = Rank[1] /\ Rank'[2] = Rank[2] /\ Rank'[3] = Rank[3]
          /\ Rank'[4] = Rank[4] /\ Rank'[5] = Rank[5]
      BY <2>1, RankEntries, RankEntriesNext DEF Phase, ItemsLeft, OverloadsLeft
    <2>3. /\ running
          /\ \/ ~running'
             \/ running' /\ todo' < todo
             \/ running' /\ todo' = todo /\ Remaining(deadlinePlan, now') < Remaining(deadlinePlan, now)
      BY <2>1, AttemptStepAdvances
    <2>4. CASE ~running'
      <3>1. Rank'[6] < Rank[6]
        BY <2>3, <2>4, RankEntries, RankEntriesNext
      <3>2. \A j \in 1 .. 5 : Rank'[j] = Rank[j]
        BY <2>2
      <3>3. QED
        BY <3>1, <3>2, RankEntries, FirstToFall
    <2>5. CASE running' /\ todo' < todo
      <3>1. Rank'[6] = Rank[6] /\ Rank'[7] < Rank[7]
        BY <2>3, <2>5, RankEntries, RankEntriesNext
      <3>2. \A j \in 1 .. 6 : Rank'[j] = Rank[j]
        BY <2>2, <3>1
      <3>3. QED
        BY <3>1, <3>2, RankEntries, FirstToFall
    <2>6. CASE running' /\ todo' = todo /\ Remaining(deadlinePlan, now') < Remaining(deadlinePlan, now)
      <3>1. Rank'[6] = Rank[6] /\ Rank'[7] = Rank[7] /\ Rank'[8] < Rank[8]
        BY <2>3, <2>6, RankEntries, RankEntriesNext
      <3>2. \A j \in 1 .. 7 : Rank'[j] = Rank[j]
        BY <2>2, <3>1
      <3>3. QED
        BY <3>1, <3>2, RankEntries, FirstToFall
    <2>7. QED
      BY <2>3, <2>4, <2>5, <2>6
  <1>8. QED
    BY <1>1, <1>2, <1>3, <1>4, <1>5, <1>6, <1>7 DEF Next

\* Whatever the bodies do and however many attempts time out, are denied or
\* fail, every step of the scheduler leaves it less to do.
THEOREM EveryStepAdvances == Spec => Advances
  <1>1. DeadlineInv /\ DeadlineInv' /\ [Next]_vars => [Lower(Rank', Rank)]_vars
    BY NextAdvances
  <1>2. QED
    BY <1>1, InitDeadline, NextDeadline, PTL DEF Spec, Advances

\* The ranks are tuples of eight natural numbers, so that they cannot go down
\* for ever.
THEOREM RankIsNatural == Spec => [](Rank \in [1 .. 8 -> Nat])
  <1>1. TypeOK => Rank \in [1 .. 8 -> Nat]
    <2> SUFFICES ASSUME TypeOK PROVE Rank \in [1 .. 8 -> Nat]
      OBVIOUS
    <2>1. /\ (IF pc = "entry" THEN 1 ELSE 0) \in Nat
          /\ (IF pc \in {"overload", "rerun"} THEN 1 ELSE 0) \in Nat
          /\ (IF running THEN 1 ELSE 0) \in Nat
      OBVIOUS
    <2>2. QED
      BY <2>1, RankParts DEF Rank, OverloadsLeft
  <1>2. QED
    BY <1>1, TypeCorrect, PTL

-----------------------------------------------------------------------------
(* The reruns are in order *)

OrderInv == QueueInv /\ RerunsAreInOrder

LEMMA NextOrder == OrderInv /\ [Next]_vars => OrderInv'
  <1> SUFFICES ASSUME OrderInv, [Next]_vars PROVE OrderInv'
    OBVIOUS
  <1> DEFINE L == Len(timeoutEntryPoints)
  <1>0. /\ QueueInv /\ QueueInv' /\ TypeOK
        /\ timeoutEntryPoints \in Seq(Attempts)
        /\ L \in Nat /\ DOMAIN timeoutEntryPoints = 1 .. L
        /\ \A i \in 1 .. L : timeoutEntryPoints[i] \in Attempts
        /\ overloadIdx \in Nat
    BY NextQueue, Numbers, LenProperties, ElementOfSeq DEF OrderInv, QueueInv, FlagInv, LoopInv
  <1>1. ASSUME UNCHANGED timeoutEntryPoints PROVE OrderInv'
    BY <1>0, <1>1 DEF OrderInv, RerunsAreInOrder, Before
  <1>2. CASE EndAttempt
    <2> DEFINE here == <<entryPoint, overloadIdx + 1>>
    <2>1. CASE ~entryPointTimeout
      BY <1>1, <1>2, <2>1 DEF EndAttempt
    <2>2. CASE entryPointTimeout
      <3>1. pc = "attempt" /\ timeoutEntryPoints' = Append(timeoutEntryPoints, here)
        BY <1>2, <2>2 DEF EndAttempt
      <3>2. /\ DOMAIN timeoutEntryPoints' = 1 .. L + 1
            /\ \A i \in 1 .. L : timeoutEntryPoints'[i] = timeoutEntryPoints[i]
            /\ timeoutEntryPoints'[L + 1] = here
        BY <1>0, <3>1, AttemptAtHand, AppendProperties, LenProperties
      <3>3. \A i \in 1 .. L : Before(timeoutEntryPoints[i], here)
        <4> SUFFICES ASSUME NEW i \in 1 .. L PROVE Before(timeoutEntryPoints[i], here)
          OBVIOUS
        <4>1. Passed(timeoutEntryPoints[i]) /\ timeoutEntryPoints[i][2] \in Nat
          BY <1>0, <3>1 DEF QueueInv, FirstPass, Attempts
        <4>2. QED
          BY <1>0, <4>1 DEF Passed, Before
      <3>4. RerunsAreInOrder'
        <4> HIDE DEF here, L
        <4>1. ASSUME NEW i \in 1 .. L + 1, NEW j \in 1 .. L + 1, i < j
              PROVE  Before(timeoutEntryPoints'[i], timeoutEntryPoints'[j])
          <5>1. i \in 1 .. L
            BY <1>0, <4>1
          <5>2. CASE j \in 1 .. L
            BY <1>0, <3>2, <4>1, <5>1, <5>2 DEF OrderInv, RerunsAreInOrder
          <5>3. CASE j = L + 1
            BY <3>2, <3>3, <5>1, <5>3
          <5>4. QED
            BY <1>0, <5>2, <5>3
        <4>2. QED
          BY <3>2, <4>1 DEF RerunsAreInOrder, Before
      <3>5. QED
        BY <1>0, <3>4 DEF OrderInv
    <2>3. QED
      BY <2>1, <2>2
  <1>3. CASE EndReruns
    BY <1>0, <1>3 DEF EndReruns, OrderInv, RerunsAreInOrder
  <1>4. CASE \/ SkipEntryPoint \/ OpenEntryPoint \/ CloseEntryPoint \/ StartAttempt
             \/ BeginReruns \/ StartRerun \/ DenyRerun \/ EndRerun
             \/ SchedulingError \/ Leave \/ Execute \/ UNCHANGED vars
    BY <1>1, <1>4 DEF SkipEntryPoint, OpenEntryPoint, CloseEntryPoint, StartAttempt, BeginReruns,
                      StartRerun, DenyRerun, EndRerun, SchedulingError, Leave, Execute, loopVars, vars
  <1>5. QED
    BY <1>2, <1>3, <1>4 DEF Next

\* No attempt is rerun twice or out of its turn, whatever is skipped, denied or
\* cut short before it (java-analyzer.ts: symbolInterpret, timeoutEntryPoints).
THEOREM RerunsKeepOrder == Spec => []RerunsAreInOrder
  <1>1. Init => OrderInv
    <2>1. Init => RerunsAreInOrder
      BY DEF Init, RerunsAreInOrder
    <2>2. QED
      BY <2>1, InitQueue DEF OrderInv
  <1>2. OrderInv => RerunsAreInOrder
    BY DEF OrderInv
  <1>3. QED
    BY <1>1, <1>2, NextOrder, PTL DEF Spec

=============================================================================
