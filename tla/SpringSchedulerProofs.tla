------------------------ MODULE SpringSchedulerProofs ------------------------
(***************************************************************************)
(* What holds of SpringScheduler for all entry points, budgets, caps,      *)
(* reserves and steps.                                                     *)
(***************************************************************************)
EXTENDS SpringScheduler, SequenceTheorems, TLAPS

-----------------------------------------------------------------------------
(* The arithmetic of the plan, and a step of an attempt *)

\* The deadlines of a plan are in order, and none is before the plan began.
LEMMA PlanProperties ==
  ASSUME NEW outer \in Nat, NEW fin \in Nat, NEW ex \in Nat
  PROVE  LET plan == Plan(0, outer, fin, ex)
         IN /\ plan.analysis \in Nat
            /\ plan.finalization \in Nat
            /\ plan.analysis <= plan.finalization
            /\ plan.finalization <= outer
  <1> DEFINE exit         == Least(ex, outer)
             finalization == Least(fin, outer - exit)
  <1>1. Monus(outer, 0) = outer
    BY DEF Monus
  <1>2. exit \in 0 .. outer
    BY DEF Least
  <1>3. finalization \in 0 .. outer - exit
    BY <1>2 DEF Least
  <1>4. /\ Plan(0, outer, fin, ex).analysis = outer - exit - finalization
        /\ Plan(0, outer, fin, ex).finalization = outer - exit
    BY <1>1 DEF Plan
  <1> HIDE DEF exit, finalization
  <1>5. QED
    BY <1>2, <1>3, <1>4

\* Rounding up a quotient.
LEMMA CeilDivProperties ==
  ASSUME NEW a \in Nat, NEW n \in Nat \ {0}
  PROVE  /\ CeilDiv(a, n) \in Nat
         /\ a <= n * CeilDiv(a, n)
         /\ n * CeilDiv(a, n) < a + n
  <1> DEFINE c == (a + (n - 1)) \div n
  <1>1. c \in Nat
    OBVIOUS
  <1>2. /\ n * c <= a + (n - 1)
        /\ a + (n - 1) < n * c + n
    OBVIOUS
  <1>3. n * c \in Nat
    BY <1>1
  <1> HIDE DEF c
  <1>4. a <= n * c /\ n * c < a + n
    BY <1>2, <1>3
  <1>5. QED
    BY <1>1, <1>4 DEF CeilDiv, c

\* An allotment ends at the analysis deadline at the latest.
LEMMA AllocationProperties ==
  ASSUME NEW plan, plan.analysis \in Nat, NEW t \in Nat, NEW n \in Nat, NEW cap \in Nat
  PROVE  /\ Allocation(plan, t, n, cap) \in Nat
         /\ Allocation(plan, t, n, cap) > 0 =>
              /\ t + Allocation(plan, t, n, cap) <= plan.analysis
              /\ Allocation(plan, t, n, cap) <= cap
              /\ n # 0
              /\ Allocation(plan, t, n, cap) <= CeilDiv(Remaining(plan, t), n)
  <1>1. CASE n = 0 \/ t >= plan.analysis
    BY <1>1 DEF Allocation
  <1>2. CASE ~(n = 0 \/ t >= plan.analysis)
    <2> DEFINE r == Remaining(plan, t)
               c == CeilDiv(r, n)
    <2>1. r \in Nat /\ t + r = plan.analysis
      BY <1>2 DEF Remaining, Monus
    <2>2. c \in Nat
      BY <1>2, <2>1, CeilDivProperties
    <2>3. Allocation(plan, t, n, cap) = Least(cap, Least(c, r))
      BY <1>2 DEF Allocation
    <2> HIDE DEF r, c
    <2>4. /\ Least(cap, Least(c, r)) \in Nat
          /\ Least(cap, Least(c, r)) <= cap
          /\ Least(cap, Least(c, r)) <= c
          /\ Least(cap, Least(c, r)) <= r
      BY <2>1, <2>2 DEF Least
    <2>5. QED
      BY <1>2, <2>1, <2>3, <2>4 DEF r, c
  <1>3. QED
    BY <1>1, <1>2

\* If k attempts have the share q each, up to a slack, then whatever one of
\* them uses of its allotment the k - 1 others still have theirs.
LEMMA ShareIsKept ==
  ASSUME NEW r \in Nat, NEW slack \in Nat, NEW k \in Nat \ {0}, NEW q \in Nat,
         r + slack >= k * q,
         NEW used \in Nat, used <= CeilDiv(r, k)
  PROVE  r - used + slack >= (k - 1) * q
  <1> DEFINE c == CeilDiv(r, k)
  <1>1. c \in Nat /\ k * c < r + k
    BY CeilDivProperties
  <1>2. (k - 1) * q = k * q - q /\ k * q \in Nat /\ (k - 1) * q \in Nat
    OBVIOUS
  <1> HIDE DEF c
  <1>3. CASE c <= q
    BY <1>1, <1>2, <1>3 DEF c
  <1>4. CASE c > q
    <2>1. (k - 1) * c >= (k - 1) * q
      BY <1>1, <1>4
    <2>2. k * c = (k - 1) * c + c /\ (k - 1) * c \in Nat
      BY <1>1
    <2>3. (k - 1) * c + c < r + k
      BY <1>1, <2>2
    <2>4. PICK d \in Nat : c = d + 1
      BY <1>1, <1>4
    <2>5. (k - 1) * c = (k - 1) * d + (k - 1) /\ (k - 1) * d \in Nat
      BY <2>4
    <2>6. (k - 1) * d >= (k - 1) * q
      BY <1>1, <1>4, <2>4
    <2>7. r - c >= (k - 1) * d
      BY <1>1, <2>3, <2>5
    <2>8. r - used >= (k - 1) * q
      BY <1>1, <1>2, <2>5, <2>6, <2>7 DEF c
    <2>9. QED
      BY <1>2, <2>8
  <1>5. QED
    BY <1>1, <1>3, <1>4

\* A step of an attempt keeps its types, and an attempt that started with a
\* deadline misses it by less than MaxStep ticks.
LEMMA AttemptStepProperties ==
  ASSUME AttemptTypeOK, AttemptStep
  PROVE  /\ AttemptTypeOK'
         /\ UNCHANGED entryPointDeadline
         /\ running
         /\ now' <= now \/ now' <= entryPointDeadline + (MaxStep - 1)
  <1>1. CASE Interpret
    <2>1. PICK ticks \in 1 .. MaxStep : now' = now + ticks
      BY <1>1 DEF Interpret
    <2>2. entryPointDeadline \in Nat /\ now < entryPointDeadline
      BY <1>1 DEF Interpret, ShouldAbort, AttemptTypeOK
    <2>3. now' \in Nat /\ now' <= entryPointDeadline + (MaxStep - 1)
      BY <2>1, <2>2, AttemptAssumption DEF AttemptTypeOK
    <2>4. QED
      BY <1>1, <2>3 DEF Interpret, AttemptTypeOK
  <1>2. CASE Abort
    <2>1. UNCHANGED <<now, entryPointDeadline, todo>> /\ running
      BY <1>2 DEF Abort
    <2>2. timedOut' \in BOOLEAN /\ entryPointTimeout' \in BOOLEAN /\ running' \in BOOLEAN /\ ~running'
      BY <1>2 DEF Abort
    <2>3. now' <= now
      BY <2>1 DEF AttemptTypeOK
    <2>4. QED
      BY <2>1, <2>2, <2>3 DEF AttemptTypeOK
  <1>3. CASE Return
    <2>1. UNCHANGED <<now, entryPointDeadline, timedOut, entryPointTimeout>> /\ running
      BY <1>3 DEF Return
    <2>2. todo' \in 0 .. Implementations
      <3>1. todo \in 0 .. Implementations /\ todo > 0 /\ todo' = todo - 1
        BY <1>3 DEF Return, AttemptTypeOK
      <3>2. QED
        BY <3>1, AttemptAssumption
    <2>3. running' \in BOOLEAN /\ (running' => todo' > 0)
      BY <1>3 DEF Return
    <2>4. now' <= now
      BY <2>1 DEF AttemptTypeOK
    <2>5. QED
      BY <2>1, <2>2, <2>3, <2>4 DEF AttemptTypeOK
  <1>4. CASE Throw
    <2>1. UNCHANGED <<now, entryPointDeadline, timedOut, entryPointTimeout>> /\ running
      BY <1>4 DEF Throw
    <2>2. todo' \in 0 .. Implementations
      BY <1>4, AttemptAssumption DEF Throw
    <2>3. running' \in BOOLEAN /\ ~running'
      BY <1>4 DEF Throw
    <2>4. now' <= now
      BY <2>1 DEF AttemptTypeOK
    <2>5. QED
      BY <2>1, <2>2, <2>3, <2>4 DEF AttemptTypeOK
  <1>5. QED
    BY <1>1, <1>2, <1>3, <1>4 DEF AttemptStep


-----------------------------------------------------------------------------
(* What the plan allots *)

A == deadlinePlan.analysis

LEMMA PlanType ==
  /\ A \in Nat
  /\ deadlinePlan.finalization \in Nat
  /\ A <= deadlinePlan.finalization
  BY PlanProperties, SpringAssumption DEF A, deadlinePlan

LEMMA RemainingType ==
  ASSUME NEW t \in Nat
  PROVE  /\ Remaining(deadlinePlan, t) \in Nat
         /\ Remaining(deadlinePlan, t) >= A - t
         /\ t <= A => Remaining(deadlinePlan, t) = A - t
  BY PlanType DEF Remaining, Monus, A

\* What an attempt or a rerun is allotted.
LEMMA AllocationType ==
  ASSUME NEW n \in Nat, NEW cap \in Nat, now \in Nat
  PROVE  /\ Allocation(deadlinePlan, now, n, cap) \in Nat
         /\ Allocation(deadlinePlan, now, n, cap) > 0 =>
              /\ now + Allocation(deadlinePlan, now, n, cap) <= A
              /\ n # 0
              /\ Allocation(deadlinePlan, now, n, cap) <=
                   CeilDiv(Remaining(deadlinePlan, now), n)
  BY PlanType, AllocationProperties DEF A

-----------------------------------------------------------------------------
(* Type correctness *)

LEMMA InitType == Init => TypeOK
  <1> SUFFICES ASSUME Init PROVE TypeOK
    OBVIOUS
  <1>1. Len(Overloads) \in Nat /\ <<>> \in Seq(Attempts) /\ Len(<<>>) = 0
    BY SpringAssumption, LenProperties, EmptySeq
  <1>2. AttemptTypeOK
    <2>1. now \in Nat /\ entryPointDeadline = NoDeadline /\ todo \in 0 .. Implementations
      BY AttemptAssumption DEF Init
    <2>2. timedOut \in BOOLEAN /\ entryPointTimeout \in BOOLEAN /\ running \in BOOLEAN
      BY DEF Init
    <2>3. ~running
      BY DEF Init
    <2>4. QED
      BY <2>1, <2>2, <2>3 DEF AttemptTypeOK
  <1>3. attemptSnapshot \in BOOLEAN /\ aggressiveMode \in BOOLEAN
    BY DEF Init
  <1>4. configTimeoutMs \in Nat /\ startedAt \in Nat /\ owed \subseteq Attempts
    BY SpringAssumption DEF Init
  <1>5. entryPoint \in 1 .. Len(Overloads) + 1 /\ index = 0 /\ rerunIdx = 0 /\ pc = "build"
    BY <1>1 DEF Init
  <1>6. worklist \in Seq(Attempts) /\ Len(worklist) = 0 /\ timeoutEntryPoints \in Seq(Attempts)
    BY <1>1 DEF Init
  <1>7. QED
    BY <1>2, <1>3, <1>4, <1>5, <1>6 DEF TypeOK

LEMMA BuildAddType ==
  ASSUME TypeOK, BuildAdd
  PROVE  TypeOK'
  <1>1. now' \in Nat
    BY AttemptAssumption DEF BuildAdd, TypeOK, AttemptTypeOK
  <1>2. AttemptTypeOK'
    BY <1>1 DEF BuildAdd, TypeOK, AttemptTypeOK
  <1>3. /\ worklist' \in Seq(Attempts)
        /\ Len(worklist') >= Len(worklist)
        /\ Len(worklist') \in Nat
    <2> DEFINE added == [o \in 1 .. Overloads[entryPoint] |-> <<entryPoint, o>>]
    <2>1. CASE UNCHANGED worklist
      BY <2>1, LenProperties DEF TypeOK
    <2>2. CASE worklist' = worklist \o added
      <3>1. entryPoint \in 1 .. Len(Overloads) /\ Overloads[entryPoint] \in Nat
        BY SpringAssumption, LenProperties, ElementOfSeq DEF BuildAdd, TypeOK
      <3>2. \A o \in 1 .. Overloads[entryPoint] : <<entryPoint, o>> \in Attempts
        BY <3>1 DEF Attempts
      <3>3. added \in [1 .. Overloads[entryPoint] -> Attempts]
        BY <3>2
      <3>4. Seq(Attempts) = UNION {[1 .. k -> Attempts] : k \in Nat}
        OBVIOUS
      <3>5. added \in Seq(Attempts)
        BY <3>1, <3>3, <3>4
      <3> HIDE DEF added
      <3>6. QED
        BY <2>2, <3>5, ConcatProperties, LenProperties DEF TypeOK
    <2>3. QED
      BY <2>1, <2>2 DEF BuildAdd
  <1>4. entryPoint' \in 1 .. Len(Overloads) + 1
    BY SpringAssumption, LenProperties DEF BuildAdd, TypeOK
  <1>5. index' \in 0 .. Len(worklist')
    BY <1>3, LenProperties DEF BuildAdd, TypeOK
  <1>6. QED
    BY <1>2, <1>3, <1>4, <1>5 DEF BuildAdd, TypeOK

\* The finally block of an attempt queues an item of the worklist or nothing.
LEMMA RestoreAttemptType ==
  ASSUME TypeOK, pc = "attempt", RestoreAttempt(worklist[index + 1])
  PROVE  /\ worklist[index + 1] \in Attempts
         /\ timeoutEntryPoints' \in Seq(Attempts)
         /\ entryPointDeadline' = NoDeadline
         /\ timedOut' \in BOOLEAN
  <1>1. index + 1 \in 1 .. Len(worklist)
    BY LenProperties DEF TypeOK
  <1>2. worklist[index + 1] \in Attempts
    BY <1>1, ElementOfSeq DEF TypeOK
  <1>3. QED
    BY <1>2, AppendProperties DEF RestoreAttempt, TypeOK

LEMMA NextType == TypeOK /\ [Next]_vars => TypeOK'
  <1> SUFFICES ASSUME TypeOK, [Next]_vars PROVE TypeOK'
    OBVIOUS
  <1>0. /\ now \in Nat
        /\ Len(worklist) \in Nat
        /\ Len(timeoutEntryPoints) \in Nat
        /\ Len(Overloads) \in Nat
    BY SpringAssumption, LenProperties DEF TypeOK, AttemptTypeOK
  <1>1. CASE BuildEnd
    BY <1>1 DEF BuildEnd, TypeOK, AttemptTypeOK, attemptVars
  <1>2. CASE BuildSkip
    BY <1>0, <1>2 DEF BuildSkip, TypeOK, AttemptTypeOK, attemptVars, loopVars
  <1>3. CASE BuildAdd
    BY <1>3, BuildAddType
  <1>4. CASE StartAttempt
    <2>1. Len(worklist) - index \in Nat
      BY <1>0, <1>4 DEF StartAttempt, TypeOK
    <2>2. FirstAllocation \in Nat
      BY <1>0, <2>1, AllocationType, SpringAssumption DEF FirstAllocation
    <2>3. entryPointDeadline' \in Nat
      BY <1>0, <1>4, <2>2 DEF StartAttempt
    <2>4. todo' \in 0 .. Implementations /\ todo' > 0
      BY <1>4, AttemptAssumption DEF StartAttempt
    <2>5. AttemptTypeOK'
      <3>1. entryPointDeadline' # NoDeadline
        BY <2>3 DEF NoDeadline
      <3>2. running' \in BOOLEAN /\ timedOut' \in BOOLEAN /\ entryPointTimeout' \in BOOLEAN
        BY <1>4 DEF StartAttempt, AttemptTypeOK, TypeOK
      <3>3. now' \in Nat
        BY <1>0, <1>4 DEF StartAttempt
      <3>4. QED
        BY <2>3, <2>4, <3>1, <3>2, <3>3 DEF AttemptTypeOK
    <2>6. QED
      BY <1>4, <2>5 DEF StartAttempt, TypeOK, loopVars
  <1>5. CASE DenyAttempt
    BY <1>0, <1>5 DEF DenyAttempt, TypeOK, AttemptTypeOK, attemptVars
  <1>6. CASE EndAttempt
    <2>1. /\ timeoutEntryPoints' \in Seq(Attempts)
          /\ entryPointDeadline' = NoDeadline
          /\ timedOut' \in BOOLEAN
      BY <1>6, RestoreAttemptType DEF EndAttempt
    <2>2. AttemptTypeOK'
      BY <1>6, <2>1 DEF EndAttempt, AttemptTypeOK, TypeOK
    <2>3. index' \in 0 .. Len(worklist')
      BY <1>0, <1>6 DEF EndAttempt, TypeOK
    <2>4. QED
      BY <1>6, <2>1, <2>2, <2>3 DEF EndAttempt, TypeOK
  <1>7. CASE BeginReruns
    <2>1. pc' = "rerun" /\ aggressiveMode' \in BOOLEAN
      BY <1>7 DEF BeginReruns
    <2>2. rerunIdx' <= Len(timeoutEntryPoints')
      BY <1>0, <1>7 DEF BeginReruns, TypeOK
    <2>3. AttemptTypeOK'
      BY <1>7 DEF BeginReruns, TypeOK, AttemptTypeOK, attemptVars
    <2>4. QED
      BY <1>0, <1>7, <2>1, <2>2, <2>3 DEF BeginReruns, TypeOK
  <1>8. CASE StartRerun
    <2>1. Len(timeoutEntryPoints) - rerunIdx \in Nat
      BY <1>0, <1>8 DEF StartRerun, TypeOK
    <2>2. RerunAllocation \in Nat
      BY <1>0, <2>1, AllocationType, SpringAssumption DEF RerunAllocation
    <2>3. entryPointDeadline' \in Nat
      BY <1>0, <1>8, <2>2 DEF StartRerun
    <2>4. todo' \in 0 .. Implementations /\ todo' > 0
      BY <1>8, AttemptAssumption DEF StartRerun
    <2>5. AttemptTypeOK'
      <3>1. entryPointDeadline' # NoDeadline
        BY <2>3 DEF NoDeadline
      <3>2. running' \in BOOLEAN /\ timedOut' \in BOOLEAN /\ entryPointTimeout' \in BOOLEAN
        BY <1>8 DEF StartRerun, AttemptTypeOK, TypeOK
      <3>3. now' \in Nat
        BY <1>0, <1>8 DEF StartRerun
      <3>4. QED
        BY <2>3, <2>4, <3>1, <3>2, <3>3 DEF AttemptTypeOK
    <2>6. attemptSnapshot' \in BOOLEAN
      BY <1>8 DEF StartRerun, TypeOK, AttemptTypeOK
    <2>7. QED
      BY <1>8, <2>2, <2>5, <2>6 DEF StartRerun, TypeOK
  <1>9. CASE DenyRerun
    BY <1>0, <1>9 DEF DenyRerun, TypeOK, AttemptTypeOK, attemptVars
  <1>10. CASE EndRerun
    <2>1. AttemptTypeOK'
      BY <1>10 DEF EndRerun, ClearAttemptState, AttemptTypeOK, TypeOK
    <2>2. QED
      BY <1>0, <1>10, <2>1 DEF EndRerun, TypeOK
  <1>11. CASE Finish
    BY <1>11, EmptySeq, SpringAssumption
       DEF Finish, RestoreConfig, TypeOK, AttemptTypeOK, attemptVars
  <1>12. CASE ErrorInAttempt
    <2>1. /\ timeoutEntryPoints' \in Seq(Attempts)
          /\ entryPointDeadline' = NoDeadline
          /\ timedOut' \in BOOLEAN
      BY <1>12, RestoreAttemptType DEF ErrorInAttempt
    <2>2. AttemptTypeOK'
      BY <1>12, <2>1 DEF ErrorInAttempt, AttemptTypeOK, TypeOK
    <2>3. QED
      BY <1>12, <2>1, <2>2 DEF ErrorInAttempt, TypeOK
  <1>13. CASE ErrorInRerun
    <2>1. AttemptTypeOK'
      BY <1>13 DEF ErrorInRerun, ClearAttemptState, AttemptTypeOK, TypeOK
    <2>2. QED
      BY <1>13, <2>1, SpringAssumption DEF ErrorInRerun, RestoreConfig, TypeOK
  <1>14. CASE Recover
    BY <1>14, SpringAssumption DEF Recover, RestoreConfig, TypeOK, AttemptTypeOK, attemptVars
  <1>15. CASE Execute
    <2>1. AttemptTypeOK'
      BY <1>15, AttemptStepProperties DEF Execute, TypeOK
    <2>2. owed' \subseteq Attempts
      <3>1. CASE pc = "attempt"
        <4>1. index + 1 \in 1 .. Len(worklist)
          BY <1>0, <3>1 DEF TypeOK
        <4>2. worklist[index + 1] \in Attempts
          BY <4>1, ElementOfSeq DEF TypeOK
        <4>3. QED
          BY <1>15, <4>2 DEF Execute, TypeOK
      <3>2. CASE pc # "attempt"
        BY <1>15, <3>2 DEF Execute, TypeOK
      <3>3. QED
        BY <3>1, <3>2
    <2>3. QED
      BY <1>15, <2>1, <2>2 DEF Execute, TypeOK
  <1>16. CASE UNCHANGED vars
    BY <1>16 DEF vars, loopVars, attemptVars, TypeOK, AttemptTypeOK
  <1>17. QED
    BY <1>1, <1>2, <1>3, <1>4, <1>5, <1>6, <1>7, <1>8, <1>9, <1>10, <1>11, <1>12,
       <1>13, <1>14, <1>15, <1>16 DEF Next

\* Every variable of the Spring scheduler keeps its type.
THEOREM TypeCorrect == Spec => []TypeOK
  BY InitType, NextType, PTL DEF Spec

-----------------------------------------------------------------------------
(* The analysis stops in time *)

\* No deadline is later than the one of the analysis.
DeadlineInv ==
  /\ TypeOK
  /\ now < A + MaxStep
  /\ pc \in {"attempt", "reattempt"} => entryPointDeadline <= A

LEMMA InitDeadline == Init => DeadlineInv
  <1> SUFFICES ASSUME Init PROVE DeadlineInv
    OBVIOUS
  <1>1. TypeOK
    BY InitType
  <1>2. now = 0 /\ pc = "build"
    BY DEF Init
  <1>3. QED
    BY <1>1, <1>2, PlanType, AttemptAssumption DEF DeadlineInv

LEMMA NextDeadline == DeadlineInv /\ [Next]_vars => DeadlineInv'
  <1> SUFFICES ASSUME DeadlineInv, [Next]_vars PROVE DeadlineInv'
    OBVIOUS
  <1>0. /\ TypeOK
        /\ TypeOK'
        /\ now \in Nat
        /\ A \in Nat
        /\ A' = A
        /\ MaxStep \in Nat \ {0}
    <2>1. A' = A
      BY DEF A, deadlinePlan
    <2>2. QED
      BY <2>1, NextType, PlanType, AttemptAssumption DEF DeadlineInv, TypeOK, AttemptTypeOK
  <1>1. CASE BuildAdd
    <2>1. now < A /\ \E ticks \in 0 .. MaxStep : now' = now + ticks
      BY <1>1 DEF BuildAdd, CanStartAnalysis, A
    <2>2. pc' = "build"
      BY <1>1 DEF BuildAdd, TypeOK
    <2>3. QED
      BY <1>0, <2>1, <2>2 DEF DeadlineInv
  <1>2. CASE StartAttempt
    <2>1. Len(worklist) - index \in Nat
      BY <1>0, <1>2, LenProperties DEF StartAttempt, TypeOK
    <2>2. now + FirstAllocation <= A
      BY <1>0, <1>2, <2>1, AllocationType, SpringAssumption DEF StartAttempt, FirstAllocation
    <2>3. now' = now /\ entryPointDeadline' = now + FirstAllocation
      BY <1>2 DEF StartAttempt
    <2>4. QED
      BY <1>0, <2>2, <2>3 DEF DeadlineInv
  <1>3. CASE StartRerun
    <2>1. Len(timeoutEntryPoints) - rerunIdx \in Nat
      BY <1>0, <1>3, LenProperties DEF StartRerun, TypeOK
    <2>2. now + RerunAllocation <= A
      BY <1>0, <1>3, <2>1, AllocationType, SpringAssumption DEF StartRerun, RerunAllocation
    <2>3. now' = now /\ entryPointDeadline' = now + RerunAllocation
      BY <1>3 DEF StartRerun
    <2>4. QED
      BY <1>0, <2>2, <2>3 DEF DeadlineInv
  <1>4. CASE Execute
    <2>1. /\ UNCHANGED <<entryPointDeadline, pc>>
          /\ pc \in {"attempt", "reattempt"}
          /\ running
          /\ now' <= now \/ now' <= entryPointDeadline + (MaxStep - 1)
      BY <1>0, <1>4, AttemptStepProperties DEF Execute, TypeOK
    <2>2. entryPointDeadline \in Nat /\ now' \in Nat
      BY <1>0, <2>1 DEF TypeOK, AttemptTypeOK
    <2>3. now' < A + MaxStep
      BY <1>0, <2>1, <2>2 DEF DeadlineInv
    <2>4. QED
      BY <1>0, <2>1, <2>3 DEF DeadlineInv
  <1>5. CASE \/ BuildEnd \/ BuildSkip \/ DenyAttempt \/ EndAttempt
             \/ BeginReruns \/ DenyRerun \/ EndRerun \/ Finish
             \/ ErrorInAttempt \/ ErrorInRerun \/ Recover
    <2>1. now' = now /\ pc' \notin {"attempt", "reattempt"}
      BY <1>5 DEF BuildEnd, BuildSkip, DenyAttempt, EndAttempt, BeginReruns, DenyRerun,
                  EndRerun, Finish, ErrorInAttempt, ErrorInRerun, Recover, attemptVars
    <2>2. QED
      BY <1>0, <2>1 DEF DeadlineInv
  <1>6. CASE UNCHANGED vars
    BY <1>0, <1>6 DEF DeadlineInv, vars, attemptVars
  <1>7. QED
    BY <1>1, <1>2, <1>3, <1>4, <1>5, <1>6 DEF Next

\* Whatever the entry points are and whatever their analysis does, the clock
\* passes the analysis deadline by less than one step of the interpreter.
THEOREM AnalysisIsInTime == Spec => []AnalysisStopsInTime
  <1>1. DeadlineInv => AnalysisStopsInTime
    <2> SUFFICES ASSUME DeadlineInv PROVE AnalysisStopsInTime
      OBVIOUS
    <2>1. now \in Nat /\ now < A + MaxStep /\ MaxStep \in Nat
      BY AttemptAssumption DEF DeadlineInv, TypeOK, AttemptTypeOK
    <2>2. MaxStep <= deadlinePlan.finalization - A => now < deadlinePlan.finalization
      BY <2>1, PlanType
    <2>3. QED
      BY <2>1, <2>2 DEF AnalysisStopsInTime, CanFinalize, A
  <1>2. QED
    BY <1>1, InitDeadline, NextDeadline, PTL DEF Spec

-----------------------------------------------------------------------------
(* No attempt uses up the time of a later one *)

\* The attempts that are still to come have their shares: while an attempt
\* runs, what is left after its deadline is enough for those after it.
ShareInv ==
  /\ DeadlineInv
  /\ FairShare
  /\ pc = "attempt" =>
       /\ now <= entryPointDeadline + (MaxStep - 1)
       /\ (A - entryPointDeadline) + index * (MaxStep - 1) >= (Len(worklist) - index - 1) * Share

LEMMA ShareType ==
  ASSUME TypeOK, Len(worklist) # 0
  PROVE  Share \in Nat
  <1>1. Remaining(deadlinePlan, startedAt) \in Nat
    BY RemainingType DEF TypeOK
  <1>2. Len(worklist) \in Nat \ {0}
    BY LenProperties DEF TypeOK
  <1>3. QED
    BY <1>1, <1>2 DEF Share

LEMMA NextShare == ShareInv /\ [Next]_vars => ShareInv'
  <1> SUFFICES ASSUME ShareInv, [Next]_vars PROVE ShareInv'
    OBVIOUS
  <1> DEFINE M == MaxStep - 1
  <1>0. /\ TypeOK
        /\ DeadlineInv'
        /\ now \in Nat
        /\ index \in Nat
        /\ Len(worklist) \in Nat
        /\ A \in Nat
        /\ M \in Nat
        /\ A' = A
    <2>1. A' = A
      BY DEF A, deadlinePlan
    <2>2. TypeOK /\ DeadlineInv'
      BY NextDeadline DEF ShareInv, DeadlineInv
    <2>3. QED
      BY <2>1, <2>2, PlanType, LenProperties, AttemptAssumption DEF TypeOK, AttemptTypeOK
  <1>1. CASE BuildEnd
    <2>1. pc = "build" /\ pc' = "next" /\ startedAt' = now
          /\ UNCHANGED <<now, index, worklist>>
      BY <1>1 DEF BuildEnd, attemptVars
    <2>2. index = 0
      BY <1>0, <2>1 DEF TypeOK
    <2>3. ASSUME Len(worklist) # 0
          PROVE  Remaining(deadlinePlan, now) >=
                   Len(worklist) * (Remaining(deadlinePlan, now) \div Len(worklist))
      <3>1. Remaining(deadlinePlan, now) \in Nat
        BY <1>0, RemainingType
      <3>2. QED
        BY <1>0, <2>3, <3>1
    <2>4. Share' = Remaining(deadlinePlan, now) \div Len(worklist)
      BY <2>1 DEF Share, deadlinePlan
    <2>5. Remaining(deadlinePlan, now)' = Remaining(deadlinePlan, now)
      BY <2>1 DEF deadlinePlan
    <2>6. FairShare'
      BY <1>0, <2>1, <2>2, <2>3, <2>4, <2>5, RemainingType DEF FairShare
    <2>7. QED
      BY <1>0, <2>1, <2>6 DEF ShareInv
  <1>2. CASE StartAttempt
    <2> DEFINE r == Remaining(deadlinePlan, now)
               k == Len(worklist) - index
    <2>1. /\ k \in Nat \ {0}
          /\ Len(worklist) # 0
          /\ pc = "next"
      BY <1>0, <1>2 DEF StartAttempt
    <2>2. Share \in Nat
      BY <1>0, <2>1, ShareType
    <2>3. /\ FirstAllocation \in Nat
          /\ FirstAllocation <= CeilDiv(r, k)
          /\ now + FirstAllocation <= A
      BY <1>0, <1>2, <2>1, AllocationType, SpringAssumption DEF StartAttempt, FirstAllocation
    <2>4. r \in Nat /\ r = A - now
      BY <1>0, <2>3, RemainingType
    <2>5. r + index * M >= k * Share
      BY <1>0, <1>2 DEF StartAttempt, ShareInv, FairShare
    <2>6. index * M \in Nat
      BY <1>0
    <2> HIDE DEF r, k, M
    <2>7. r - FirstAllocation + index * M >= (k - 1) * Share
      BY <2>1, <2>2, <2>3, <2>4, <2>5, <2>6, ShareIsKept
    <2>8. /\ pc' = "attempt"
          /\ entryPointDeadline' = now + FirstAllocation
          /\ UNCHANGED <<now, index, worklist, startedAt>>
      BY <1>2 DEF StartAttempt, loopVars
    <2>9. Share' = Share
      BY <2>8 DEF Share, deadlinePlan
    <2>10. A - entryPointDeadline' = r - FirstAllocation
      BY <1>0, <2>3, <2>4, <2>8
    <2>11. (A - entryPointDeadline') + index * M >= (Len(worklist) - index - 1) * Share
      BY <2>7, <2>10 DEF k
    <2>12. now' <= entryPointDeadline' + M
      BY <1>0, <2>3, <2>8
    <2>13. QED
      BY <1>0, <2>8, <2>9, <2>11, <2>12 DEF ShareInv, FairShare, M
  <1>3. CASE DenyAttempt
    <2>1. /\ pc = "next" /\ index < Len(worklist)
          /\ index' = index + 1
          /\ UNCHANGED <<pc, now, worklist, startedAt>>
      BY <1>3 DEF DenyAttempt, attemptVars
    <2>2. Share \in Nat
      BY <1>0, <2>1, ShareType
    <2>3. Share' = Share /\ Remaining(deadlinePlan, now)' = Remaining(deadlinePlan, now)
      BY <2>1 DEF Share, deadlinePlan
    <2>4. Remaining(deadlinePlan, now) + index * M >= (Len(worklist) - index) * Share
      BY <2>1 DEF ShareInv, FairShare
    <2>5. /\ (Len(worklist) - index) * Share = (Len(worklist) - index') * Share + Share
          /\ (Len(worklist) - index') * Share \in Int
      BY <1>0, <2>1, <2>2
    <2>6. index' * M = index * M + M /\ index * M \in Nat
      BY <1>0, <2>1
    <2>7. Remaining(deadlinePlan, now) \in Nat
      BY <1>0, RemainingType
    <2>8. Remaining(deadlinePlan, now) + index' * M >= (Len(worklist) - index') * Share
      <3> HIDE DEF M
      <3>1. QED
        BY <1>0, <2>2, <2>4, <2>5, <2>6, <2>7
    <2>9. QED
      BY <1>0, <2>1, <2>3, <2>8 DEF ShareInv, FairShare
  <1>4. CASE EndAttempt
    <2>1. /\ pc = "attempt" /\ pc' = "next"
          /\ index' = index + 1
          /\ UNCHANGED <<now, worklist, startedAt>>
      BY <1>4 DEF EndAttempt
    <2>2. index < Len(worklist)
      BY <1>0, <2>1 DEF TypeOK
    <2>3. Share \in Nat
      BY <1>0, <2>2, ShareType
    <2>4. /\ now <= entryPointDeadline + M
          /\ (A - entryPointDeadline) + index * M >= (Len(worklist) - index - 1) * Share
      BY <2>1 DEF ShareInv
    <2>5. Share' = Share /\ Remaining(deadlinePlan, now)' = Remaining(deadlinePlan, now)
      BY <2>1 DEF Share, deadlinePlan
    <2>6. /\ Remaining(deadlinePlan, now) \in Nat
          /\ Remaining(deadlinePlan, now) >= A - now
      BY <1>0, RemainingType
    <2>7. index' * M = index * M + M /\ index * M \in Nat
      BY <1>0, <2>1
    <2>8. /\ (Len(worklist) - index - 1) * Share = (Len(worklist) - index') * Share
          /\ (Len(worklist) - index') * Share \in Int
      BY <1>0, <2>1, <2>3
    <2>9. entryPointDeadline \in Int
      BY <1>0 DEF TypeOK, AttemptTypeOK, NoDeadline
    <2>10. Remaining(deadlinePlan, now) + index' * M >= (Len(worklist) - index') * Share
      <3> HIDE DEF M
      <3>1. QED
        BY <1>0, <2>4, <2>6, <2>7, <2>8, <2>9
    <2>11. QED
      BY <1>0, <2>1, <2>5, <2>10 DEF ShareInv, FairShare
  <1>5. CASE Execute
    <2>1. /\ UNCHANGED <<pc, entryPointDeadline, index, worklist, startedAt>>
          /\ pc # "next"
          /\ now' <= now \/ now' <= entryPointDeadline + M
          /\ running
      BY <1>0, <1>5, AttemptStepProperties DEF Execute, TypeOK
    <2>2. Share' = Share
      BY <2>1 DEF Share, deadlinePlan
    <2>3. entryPointDeadline \in Int /\ now' \in Nat
      BY <1>0 DEF TypeOK, AttemptTypeOK, NoDeadline, DeadlineInv
    <2>4. pc = "attempt" => now' <= entryPointDeadline + M
      BY <1>0, <2>1, <2>3 DEF ShareInv
    <2>5. QED
      BY <1>0, <2>1, <2>2, <2>4 DEF ShareInv, FairShare
  <1>6. CASE \/ BuildSkip \/ BuildAdd \/ BeginReruns \/ StartRerun \/ DenyRerun
             \/ EndRerun \/ Finish \/ ErrorInAttempt \/ ErrorInRerun \/ Recover
    <2>1. pc' \notin {"next", "attempt"}
      BY <1>6 DEF BuildSkip, BuildAdd, BeginReruns, StartRerun, DenyRerun, EndRerun,
                  Finish, ErrorInAttempt, ErrorInRerun, Recover
    <2>2. QED
      BY <1>0, <2>1 DEF ShareInv, FairShare
  <1>7. CASE UNCHANGED vars
    <2>1. UNCHANGED <<pc, now, index, worklist, startedAt, entryPointDeadline>>
      BY <1>7 DEF vars, loopVars, attemptVars
    <2>2. Share' = Share /\ Remaining(deadlinePlan, now)' = Remaining(deadlinePlan, now)
      BY <2>1 DEF Share, deadlinePlan
    <2>3. QED
      BY <1>0, <2>1, <2>2 DEF ShareInv, FairShare
  <1>8. QED
    BY <1>1, <1>2, <1>3, <1>4, <1>5, <1>6, <1>7 DEF Next

\* Whatever the earlier attempts do, each overload of the worklist is reached
\* with its share of the time, up to the steps by which deadlines are missed.
THEOREM SharesAreKept == Spec => []FairShare
  <1>1. Init => ShareInv
    <2> SUFFICES ASSUME Init PROVE ShareInv
      OBVIOUS
    <2>1. pc = "build"
      BY DEF Init
    <2>2. QED
      BY <2>1, InitDeadline DEF ShareInv, FairShare
  <1>2. ShareInv => FairShare
    BY DEF ShareInv
  <1>3. QED
    BY <1>1, <1>2, NextShare, PTL DEF Spec
-----------------------------------------------------------------------------
(* What timed out is rerun *)

\* The attempts that timed out and are queued beyond the first k.
Queued(k) == {timeoutEntryPoints[i] : i \in k + 1 .. Len(timeoutEntryPoints)}

LEMMA CanStartRerun ==
  ASSUME TypeOK, pc = "rerun", rerunIdx < Len(timeoutEntryPoints),
         CanStartAnalysis(deadlinePlan, now), EntryPointTimeoutMs > 0
  PROVE  RerunAllocation > 0
  <1> DEFINE n == Len(timeoutEntryPoints) - rerunIdx
             r == Remaining(deadlinePlan, now)
             c == CeilDiv(r, n)
  <1>1. n \in Nat \ {0} /\ now \in Nat /\ now < A
    BY LenProperties DEF TypeOK, AttemptTypeOK, CanStartAnalysis, A
  <1>2. r \in Nat /\ r > 0
    BY <1>1, PlanType DEF Remaining, Monus, A
  <1>3. c \in Nat /\ r <= n * c
    BY <1>1, <1>2, CeilDivProperties
  <1> HIDE DEF n, r, c
  <1>4. c > 0
    <2>1. c = 0 => n * c = 0
      BY <1>1
    <2>2. QED
      BY <1>2, <1>3, <2>1
  <1>5. Allocation(deadlinePlan, now, n, EntryPointTimeoutMs) =
          Least(EntryPointTimeoutMs, Least(c, r))
    BY <1>1, PlanType DEF Allocation, A, c, r
  <1>6. QED
    BY <1>2, <1>3, <1>4, <1>5, SpringAssumption DEF Least, RerunAllocation, n

\* What an attempt owes is in the queue of reruns, at or after the next one;
\* while the first attempt that owes it runs, its latch says so.
RerunInv ==
  /\ TypeOK
  /\ pc \in {"build", "next"} => owed \subseteq Queued(0)
  /\ pc = "attempt" =>
       owed \subseteq Queued(0) \cup (IF timedOut THEN {worklist[index + 1]} ELSE {})
  /\ pc = "rerun" /\ CanStartAnalysis(deadlinePlan, now) /\ EntryPointTimeoutMs > 0 =>
       owed \subseteq Queued(rerunIdx)
  /\ pc = "reattempt" /\ CanStartAnalysis(deadlinePlan, now) /\ EntryPointTimeoutMs > 0 =>
       owed \subseteq Queued(rerunIdx + 1)
  /\ TimeoutsAreRerun

LEMMA NextRerun == RerunInv /\ [Next]_vars => RerunInv'
  <1> SUFFICES ASSUME RerunInv, [Next]_vars PROVE RerunInv'
    OBVIOUS
  <1>0. /\ TypeOK /\ TypeOK'
        /\ now \in Nat /\ now' \in Nat
        /\ Len(timeoutEntryPoints) \in Nat
        /\ timeoutEntryPoints \in Seq(Attempts)
        /\ A \in Nat /\ deadlinePlan' = deadlinePlan
    <2>1. deadlinePlan' = deadlinePlan
      BY DEF deadlinePlan
    <2>2. TypeOK /\ TypeOK'
      BY NextType DEF RerunInv
    <2>3. QED
      BY <2>1, <2>2, PlanType, LenProperties DEF TypeOK, AttemptTypeOK
  <1>1. CASE BuildEnd \/ BuildSkip \/ BuildAdd \/ DenyAttempt
    <2>1. /\ pc \in {"build", "next"} /\ pc' \in {"build", "next"}
          /\ UNCHANGED <<owed, timeoutEntryPoints>>
      BY <1>1 DEF BuildEnd, BuildSkip, BuildAdd, DenyAttempt, loopVars
    <2>2. QED
      BY <1>0, <2>1 DEF RerunInv, Queued, TimeoutsAreRerun
  <1>2. CASE StartAttempt
    <2>1. pc = "next" /\ pc' = "attempt" /\ UNCHANGED <<owed, timeoutEntryPoints>>
      BY <1>2 DEF StartAttempt, loopVars
    <2>2. QED
      BY <1>0, <2>1 DEF RerunInv, Queued, TimeoutsAreRerun
  <1>3. CASE EndAttempt
    <2>1. /\ pc = "attempt" /\ pc' = "next" /\ UNCHANGED owed
          /\ timeoutEntryPoints' = IF timedOut THEN Append(timeoutEntryPoints, worklist[index + 1])
                                   ELSE timeoutEntryPoints
      BY <1>3 DEF EndAttempt, RestoreAttempt
    <2>2. CASE timedOut
      <3>1. worklist[index + 1] \in Attempts
        BY <1>0, <1>3, RestoreAttemptType DEF EndAttempt
      <3>2. /\ Len(timeoutEntryPoints') = Len(timeoutEntryPoints) + 1
            /\ \A i \in 1 .. Len(timeoutEntryPoints) :
                 timeoutEntryPoints'[i] = timeoutEntryPoints[i]
            /\ timeoutEntryPoints'[Len(timeoutEntryPoints) + 1] = worklist[index + 1]
        BY <1>0, <2>1, <2>2, <3>1, AppendProperties
      <3>3. Queued(0) \cup {worklist[index + 1]} \subseteq Queued(0)'
        BY <1>0, <3>2 DEF Queued
      <3>4. owed \subseteq Queued(0) \cup {worklist[index + 1]}
        BY <2>1, <2>2 DEF RerunInv
      <3>5. QED
        BY <1>0, <2>1, <3>3, <3>4 DEF RerunInv, TimeoutsAreRerun
    <2>3. CASE ~timedOut
      BY <1>0, <2>1, <2>3 DEF RerunInv, Queued, TimeoutsAreRerun
    <2>4. QED
      BY <2>2, <2>3
  <1>4. CASE BeginReruns
    <2>1. /\ pc = "next" /\ pc' = "rerun"
          /\ UNCHANGED <<owed, timeoutEntryPoints, rerunIdx>>
      BY <1>4 DEF BeginReruns
    <2>2. rerunIdx = 0
      BY <1>0, <2>1 DEF TypeOK
    <2>3. QED
      BY <1>0, <2>1, <2>2 DEF RerunInv, Queued, TimeoutsAreRerun
  <1>5. CASE StartRerun
    <2>1. /\ pc = "rerun" /\ pc' = "reattempt" /\ rerunIdx < Len(timeoutEntryPoints)
          /\ owed' = owed \ {timeoutEntryPoints[rerunIdx + 1]}
          /\ UNCHANGED <<timeoutEntryPoints, rerunIdx, now>>
      BY <1>5 DEF StartRerun
    <2>2. Queued(rerunIdx) \subseteq Queued(rerunIdx + 1) \cup {timeoutEntryPoints[rerunIdx + 1]}
      BY <1>0, <2>1 DEF Queued, TypeOK
    <2>3. QED
      BY <1>0, <2>1, <2>2 DEF RerunInv, Queued, TimeoutsAreRerun
  <1>6. CASE DenyRerun
    <2>1. /\ pc = "rerun" /\ pc' = "rerun" /\ rerunIdx < Len(timeoutEntryPoints)
          /\ RerunAllocation = 0
          /\ UNCHANGED <<timeoutEntryPoints, owed, now>>
      BY <1>6 DEF DenyRerun, attemptVars
    <2>2. ~(CanStartAnalysis(deadlinePlan, now) /\ EntryPointTimeoutMs > 0)
      BY <1>0, <2>1, CanStartRerun
    <2>3. QED
      BY <1>0, <2>1, <2>2 DEF RerunInv, TimeoutsAreRerun
  <1>7. CASE EndRerun
    <2>1. /\ pc = "reattempt" /\ pc' = "rerun" /\ rerunIdx' = rerunIdx + 1
          /\ UNCHANGED <<timeoutEntryPoints, owed, now>>
      BY <1>7 DEF EndRerun
    <2>2. QED
      BY <1>0, <2>1 DEF RerunInv, Queued, TimeoutsAreRerun
  <1>8. CASE Finish
    <2>1. pc' = "done" /\ UNCHANGED <<owed, now>>
      BY <1>8 DEF Finish, attemptVars
    <2>2. CASE pc = "next"
      <3>1. timeoutEntryPoints = <<>> \/ ~CanStartAnalysis(deadlinePlan, now)
        BY <1>8, <2>2 DEF Finish
      <3>2. timeoutEntryPoints = <<>> => Queued(0) = {}
        BY EmptySeq DEF Queued
      <3>3. QED
        BY <1>0, <2>1, <2>2, <3>1, <3>2 DEF RerunInv, TimeoutsAreRerun
    <2>3. CASE pc # "next"
      <3>1. pc = "rerun" /\ rerunIdx = Len(timeoutEntryPoints)
        BY <1>8, <2>3 DEF Finish
      <3>2. Queued(rerunIdx) = {}
        BY <1>0, <3>1 DEF Queued
      <3>3. QED
        BY <1>0, <2>1, <3>1, <3>2 DEF RerunInv, TimeoutsAreRerun
    <2>4. QED
      BY <2>2, <2>3
  <1>9. CASE ErrorInAttempt \/ ErrorInRerun \/ Recover
    <2>1. pc' \in {"recover", "failed"}
      BY <1>9 DEF ErrorInAttempt, ErrorInRerun, Recover
    <2>2. QED
      BY <1>0, <2>1 DEF RerunInv, TimeoutsAreRerun
  <1>10. CASE Execute
    <2>1. /\ pc \in {"attempt", "reattempt"} /\ pc' = pc
          /\ owed' = IF pc = "attempt" /\ timedOut' THEN owed \cup {worklist[index + 1]} ELSE owed
          /\ UNCHANGED <<worklist, index, timeoutEntryPoints, rerunIdx>>
      BY <1>10 DEF Execute
    <2>2. timedOut => timedOut'
      BY <1>0, <1>10 DEF Execute, AttemptStep, Interpret, Abort, Return, Throw
    <2>3. now <= now'
      BY <1>0, <1>10, AttemptAssumption DEF Execute, AttemptStep, Interpret, Abort, Return, Throw
    <2>4. CASE pc = "attempt"
      BY <1>0, <2>1, <2>2, <2>4 DEF RerunInv, Queued, TimeoutsAreRerun
    <2>5. CASE pc = "reattempt"
      <3>1. CanStartAnalysis(deadlinePlan, now)' => CanStartAnalysis(deadlinePlan, now)
        BY <1>0, <2>3 DEF CanStartAnalysis, A
      <3>2. owed' = owed
        BY <2>1, <2>5
      <3>3. QED
        BY <1>0, <2>1, <2>5, <3>1, <3>2 DEF RerunInv, Queued, TimeoutsAreRerun
    <2>6. QED
      BY <2>1, <2>4, <2>5
  <1>11. CASE UNCHANGED vars
    BY <1>0, <1>11 DEF RerunInv, Queued, TimeoutsAreRerun, vars, loopVars, attemptVars
  <1>12. QED
    BY <1>1, <1>2, <1>3, <1>4, <1>5, <1>6, <1>7, <1>8, <1>9, <1>10, <1>11 DEF Next

\* For all budgets and caps: when the analysis ends with time left, every
\* attempt whose latch was tripped has been attempted once more.
THEOREM TimedOutAreRerun == Spec => []TimeoutsAreRerun
  <1>1. Init => RerunInv
    BY InitType DEF Init, RerunInv, Queued, TimeoutsAreRerun
  <1>2. RerunInv => TimeoutsAreRerun
    BY DEF RerunInv
  <1>3. QED
    BY <1>1, <1>2, NextRerun, PTL DEF Spec

-----------------------------------------------------------------------------
(* Every step leaves less to do *)

\* How each component of the rank can be the first that falls.
LEMMA FirstToFall ==
  ASSUME NEW a, NEW b, DOMAIN b = 1 .. 6
  PROVE  /\ a[1] < b[1] => Lower(a, b)
         /\ a[1] = b[1] /\ a[2] < b[2] => Lower(a, b)
         /\ a[1] = b[1] /\ a[2] = b[2] /\ a[3] < b[3] => Lower(a, b)
         /\ a[1] = b[1] /\ a[2] = b[2] /\ a[3] = b[3] /\ a[4] < b[4] => Lower(a, b)
         /\ (\A j \in 1 .. 4 : a[j] = b[j]) /\ a[5] < b[5] => Lower(a, b)
         /\ (\A j \in 1 .. 5 : a[j] = b[j]) /\ a[6] < b[6] => Lower(a, b)
  BY DEF Lower

LEMMA RankEntries ==
  /\ DOMAIN Rank = 1 .. 6
  /\ Rank[1] = Phase
  /\ Rank[2] = ItemsLeft
  /\ Rank[3] = IF pc \in {"next", "rerun"} THEN 1 ELSE 0
  /\ Rank[4] = IF running THEN 1 ELSE 0
  /\ Rank[5] = todo
  /\ Rank[6] = Remaining(deadlinePlan, now)
  BY DEF Rank

LEMMA RankEntriesNext ==
  /\ Rank'[1] = Phase'
  /\ Rank'[2] = ItemsLeft'
  /\ Rank'[3] = IF pc' \in {"next", "rerun"} THEN 1 ELSE 0
  /\ Rank'[4] = IF running' THEN 1 ELSE 0
  /\ Rank'[5] = todo'
  /\ Rank'[6] = Remaining(deadlinePlan, now')
  BY DEF Rank, deadlinePlan

\* Time that passes before the analysis deadline is time used up.
LEMMA TimeIsUsedUp ==
  ASSUME NEW t \in Nat, NEW u \in Nat, t < A, t < u
  PROVE  Remaining(deadlinePlan, u) < Remaining(deadlinePlan, t)
  BY PlanType DEF Remaining, Monus, A

\* Each component of the rank is a natural number.
LEMMA RankParts ==
  ASSUME TypeOK
  PROVE  /\ Phase \in 0 .. 4
         /\ ItemsLeft \in Nat
         /\ todo \in Nat
         /\ Remaining(deadlinePlan, now) \in Nat
  <1>1. Phase \in 0 .. 4
    BY DEF Phase
  <1>2. /\ Len(Overloads) + 1 - entryPoint \in Nat
        /\ Len(worklist) - index \in Nat
        /\ pc \in {"rerun", "reattempt"} => Len(timeoutEntryPoints) - rerunIdx \in Nat
    BY SpringAssumption, LenProperties DEF TypeOK
  <1>3. ItemsLeft \in Nat
    BY <1>2 DEF ItemsLeft
  <1>4. todo \in Nat /\ now \in Nat
    BY AttemptAssumption DEF TypeOK, AttemptTypeOK
  <1>5. QED
    BY <1>1, <1>3, <1>4, RemainingType

\* An instruction takes time; a body that returns or throws, and an abort,
\* leave less of the fan-out or end it.
LEMMA AttemptStepAdvances ==
  ASSUME DeadlineInv, pc \in {"attempt", "reattempt"}, AttemptStep
  PROVE  /\ running
         /\ \/ ~running'
            \/ running' /\ todo' < todo
            \/ running' /\ todo' = todo /\ Remaining(deadlinePlan, now') < Remaining(deadlinePlan, now)
  <1>0. /\ now \in Nat /\ MaxStep \in Nat /\ A \in Nat
        /\ running \in BOOLEAN /\ running' \in BOOLEAN
        /\ todo \in Nat
    <2>1. running' \in BOOLEAN
      BY AttemptStepProperties DEF DeadlineInv, TypeOK, AttemptTypeOK
    <2>2. QED
      BY <2>1, AttemptAssumption, PlanType DEF DeadlineInv, TypeOK, AttemptTypeOK
  <1>1. CASE Interpret
    <2>1. PICK ticks \in 1 .. MaxStep : now' = now + ticks
      BY <1>1 DEF Interpret
    <2>2. running /\ running' = running /\ todo' = todo /\ now < entryPointDeadline
      BY <1>1, <1>0 DEF Interpret, ShouldAbort, DeadlineInv, TypeOK, AttemptTypeOK
    <2>3. entryPointDeadline \in Nat /\ entryPointDeadline <= A
      BY <2>2 DEF DeadlineInv, TypeOK, AttemptTypeOK
    <2>4. now < A /\ now' \in Nat /\ now < now'
      BY <1>0, <2>1, <2>2, <2>3
    <2>5. QED
      BY <1>0, <2>2, <2>4, TimeIsUsedUp
  <1>2. CASE Abort
    BY <1>2 DEF Abort
  <1>3. CASE Return
    BY <1>0, <1>3 DEF Return
  <1>4. CASE Throw
    BY <1>4 DEF Throw
  <1>5. QED
    BY <1>1, <1>2, <1>3, <1>4 DEF AttemptStep

LEMMA NextAdvances == DeadlineInv /\ DeadlineInv' /\ Next => Lower(Rank', Rank)
  <1> SUFFICES ASSUME DeadlineInv, DeadlineInv', Next PROVE Lower(Rank', Rank)
    OBVIOUS
  <1>0. /\ TypeOK /\ TypeOK'
        /\ Len(worklist) \in Nat
        /\ Len(Overloads) \in Nat
        /\ Len(timeoutEntryPoints) \in Nat
        /\ index \in Nat /\ rerunIdx \in Nat /\ entryPoint \in Nat
    BY SpringAssumption, LenProperties DEF DeadlineInv, TypeOK
  <1>1. CASE BuildEnd \/ BeginReruns \/ Finish \/ ErrorInAttempt \/ ErrorInRerun \/ Recover
    <2>1. Phase' < Phase
      BY <1>1 DEF Phase, BuildEnd, BeginReruns, Finish, ErrorInAttempt, ErrorInRerun, Recover
    <2>2. QED
      BY <2>1, RankEntries, RankEntriesNext, FirstToFall
  <1>2. CASE BuildSkip \/ (BuildAdd /\ entryPoint' = entryPoint + 1)
    <2>1. /\ pc = "build" /\ pc' = "build" /\ entryPoint' = entryPoint + 1
      BY <1>2 DEF BuildSkip, BuildAdd
    <2>2. Phase' = Phase /\ ItemsLeft' < ItemsLeft
      BY <1>0, <2>1 DEF Phase, ItemsLeft
    <2>3. QED
      BY <2>2, RankEntries, RankEntriesNext, FirstToFall
  <1>3. CASE BuildAdd /\ entryPoint' # entryPoint + 1
    <2>1. /\ pc = "build" /\ pc' = "build"
          /\ UNCHANGED <<entryPoint, running, todo>>
          /\ now < A /\ now' >= A
      <3>1. now' \in Nat
        BY <1>0 DEF TypeOK, AttemptTypeOK
      <3>2. QED
        BY <1>3, <3>1, PlanType DEF BuildAdd, CanStartAnalysis, A, deadlinePlan
    <2>2. Remaining(deadlinePlan, now') < Remaining(deadlinePlan, now)
      <3>1. now \in Nat /\ now' \in Nat
        BY <1>0 DEF TypeOK, AttemptTypeOK
      <3>2. QED
        BY <2>1, <3>1, PlanType, TimeIsUsedUp
    <2>3. /\ Rank'[1] = Rank[1] /\ Rank'[2] = Rank[2] /\ Rank'[3] = Rank[3]
          /\ Rank'[4] = Rank[4] /\ Rank'[5] = Rank[5]
      BY <2>1, RankEntries, RankEntriesNext DEF Phase, ItemsLeft
    <2>4. \A j \in 1 .. 5 : Rank'[j] = Rank[j]
      BY <2>3
    <2>5. QED
      BY <2>2, <2>4, RankEntries, RankEntriesNext, FirstToFall
  <1>4. CASE StartAttempt \/ StartRerun
    <2>1. \/ pc = "next" /\ pc' = "attempt" /\ UNCHANGED <<index, worklist>>
          \/ pc = "rerun" /\ pc' = "reattempt" /\ UNCHANGED <<rerunIdx, timeoutEntryPoints>>
      BY <1>4 DEF StartAttempt, StartRerun, loopVars
    <2>2. Rank'[1] = Rank[1] /\ Rank'[2] = Rank[2] /\ Rank'[3] < Rank[3]
      BY <2>1, RankEntries, RankEntriesNext DEF Phase, ItemsLeft
    <2>3. QED
      BY <2>2, RankEntries, FirstToFall
  <1>5. CASE DenyAttempt \/ EndAttempt
    <2>1. /\ pc \in {"next", "attempt"} /\ pc' \in {"next", "attempt"}
          /\ index' = index + 1 /\ UNCHANGED worklist
      BY <1>5 DEF DenyAttempt, EndAttempt
    <2>2. Phase' = Phase /\ ItemsLeft' < ItemsLeft
      BY <1>0, <2>1 DEF Phase, ItemsLeft
    <2>3. QED
      BY <2>2, RankEntries, RankEntriesNext, FirstToFall
  <1>6. CASE DenyRerun \/ EndRerun
    <2>1. /\ pc \in {"rerun", "reattempt"} /\ pc' \in {"rerun", "reattempt"}
          /\ rerunIdx' = rerunIdx + 1 /\ UNCHANGED timeoutEntryPoints
      BY <1>6 DEF DenyRerun, EndRerun
    <2>2. Phase' = Phase /\ ItemsLeft' < ItemsLeft
      BY <1>0, <2>1 DEF Phase, ItemsLeft
    <2>3. QED
      BY <2>2, RankEntries, RankEntriesNext, FirstToFall
  <1>7. CASE Execute
    <2>1. /\ pc \in {"attempt", "reattempt"} /\ AttemptStep
          /\ UNCHANGED <<pc, worklist, index, timeoutEntryPoints, rerunIdx>>
      BY <1>7 DEF Execute
    <2>2. Rank'[1] = Rank[1] /\ Rank'[2] = Rank[2] /\ Rank'[3] = Rank[3]
      BY <2>1, RankEntries, RankEntriesNext DEF Phase, ItemsLeft
    <2>3. /\ running
          /\ \/ ~running'
             \/ running' /\ todo' < todo
             \/ running' /\ todo' = todo /\ Remaining(deadlinePlan, now') < Remaining(deadlinePlan, now)
      BY <2>1, AttemptStepAdvances
    <2>4. CASE ~running'
      <3>1. Rank'[4] < Rank[4]
        BY <2>3, <2>4, RankEntries, RankEntriesNext
      <3>2. QED
        BY <2>2, <3>1, RankEntries, FirstToFall
    <2>5. CASE running' /\ todo' < todo
      <3>1. Rank'[4] = Rank[4] /\ Rank'[5] < Rank[5]
        BY <2>3, <2>5, RankEntries, RankEntriesNext
      <3>2. \A j \in 1 .. 4 : Rank'[j] = Rank[j]
        BY <2>2, <3>1
      <3>3. QED
        BY <3>1, <3>2, RankEntries, FirstToFall
    <2>6. CASE running' /\ todo' = todo /\ Remaining(deadlinePlan, now') < Remaining(deadlinePlan, now)
      <3>1. Rank'[4] = Rank[4] /\ Rank'[5] = Rank[5] /\ Rank'[6] < Rank[6]
        BY <2>3, <2>6, RankEntries, RankEntriesNext
      <3>2. \A j \in 1 .. 5 : Rank'[j] = Rank[j]
        BY <2>2, <3>1
      <3>3. QED
        BY <3>1, <3>2, RankEntries, FirstToFall
    <2>7. QED
      BY <2>3, <2>4, <2>5, <2>6
  <1>8. QED
    BY <1>1, <1>2, <1>3, <1>4, <1>5, <1>6, <1>7 DEF Next

\* Whatever the bodies do and however many attempts time out, are denied or
\* fail, every step of the scheduler leaves it less to do.
THEOREM EveryStepAdvances == Spec => Advances
  <1>1. DeadlineInv /\ DeadlineInv' /\ [Next]_vars => [Lower(Rank', Rank)]_vars
    BY NextAdvances
  <1>2. QED
    BY <1>1, InitDeadline, NextDeadline, PTL DEF Spec, Advances

\* The ranks are tuples of six natural numbers, so that they cannot go down for
\* ever.
THEOREM RankIsNatural == Spec => [](Rank \in [1 .. 6 -> Nat])
  <1>1. TypeOK => Rank \in [1 .. 6 -> Nat]
    <2> SUFFICES ASSUME TypeOK PROVE Rank \in [1 .. 6 -> Nat]
      OBVIOUS
    <2>1. /\ (IF pc \in {"next", "rerun"} THEN 1 ELSE 0) \in Nat
          /\ (IF running THEN 1 ELSE 0) \in Nat
      OBVIOUS
    <2>2. QED
      BY <2>1, RankParts DEF Rank
  <1>2. QED
    BY <1>1, TypeCorrect, PTL

-----------------------------------------------------------------------------
(* Whose timeout cuts an attempt short *)

\* While a rerun runs neither its latch nor the global flag is set.  In the
\* first pass the flag may be set by an earlier attempt, which is then queued.
FlagInv ==
  /\ TypeOK
  /\ pc = "build" => ~entryPointTimeout
  /\ pc = "next" /\ entryPointTimeout => timeoutEntryPoints # <<>>
  /\ pc \in {"attempt", "reattempt"} /\ running => ~timedOut
  /\ pc \in {"attempt", "reattempt"} /\ timedOut => now >= entryPointDeadline
  /\ pc \in {"attempt", "reattempt"} /\ ~running /\ Cut => entryPointTimeout
  /\ pc = "attempt" /\ entryPointTimeout => timedOut \/ timeoutEntryPoints # <<>>
  /\ pc = "reattempt" /\ entryPointTimeout => timedOut

LEMMA NextFlag == FlagInv /\ [Next]_vars => FlagInv'
  <1> SUFFICES ASSUME FlagInv, [Next]_vars PROVE FlagInv'
    OBVIOUS
  <1>0. /\ TypeOK /\ TypeOK' /\ AttemptTypeOK
    BY NextType DEF FlagInv, TypeOK
  <1>1. CASE BuildEnd \/ BuildSkip \/ BuildAdd
    <2>1. ~entryPointTimeout' /\ pc' \in {"build", "next"}
      BY <1>1 DEF BuildEnd, BuildSkip, BuildAdd, attemptVars, FlagInv
    <2>2. QED
      BY <1>0, <2>1 DEF FlagInv
  <1>2. CASE StartAttempt
    <2>1. /\ pc = "next" /\ pc' = "attempt" /\ running' /\ ~timedOut'
          /\ UNCHANGED <<entryPointTimeout, timeoutEntryPoints>>
      BY <1>2 DEF StartAttempt, loopVars
    <2>2. QED
      BY <1>0, <2>1 DEF FlagInv
  <1>3. CASE DenyAttempt
    BY <1>0, <1>3 DEF DenyAttempt, FlagInv, attemptVars
  <1>4. CASE EndAttempt
    <2>1. /\ pc = "attempt" /\ pc' = "next" /\ entryPointTimeout' = entryPointTimeout
          /\ timeoutEntryPoints' = IF timedOut THEN Append(timeoutEntryPoints, worklist[index + 1])
                                   ELSE timeoutEntryPoints
      BY <1>4 DEF EndAttempt, RestoreAttempt
    <2>2. timedOut => timeoutEntryPoints' # <<>>
      BY <1>0, <2>1, RestoreAttemptType, <1>4, AppendProperties DEF EndAttempt, TypeOK
    <2>3. QED
      BY <1>0, <2>1, <2>2 DEF FlagInv
  <1>5. CASE StartRerun
    <2>1. pc' = "reattempt" /\ running' /\ ~timedOut' /\ ~entryPointTimeout'
      BY <1>5 DEF StartRerun
    <2>2. QED
      BY <1>0, <2>1 DEF FlagInv
  <1>6. CASE \/ BeginReruns \/ DenyRerun \/ EndRerun \/ Finish
             \/ ErrorInAttempt \/ ErrorInRerun \/ Recover
    <2>1. pc' \notin {"build", "next", "attempt", "reattempt"}
      BY <1>6 DEF BeginReruns, DenyRerun, EndRerun, Finish, ErrorInAttempt, ErrorInRerun, Recover
    <2>2. QED
      BY <1>0, <2>1 DEF FlagInv
  <1>7. CASE Execute
    <2>1. /\ pc \in {"attempt", "reattempt"} /\ pc' = pc /\ running /\ ~timedOut
          /\ UNCHANGED timeoutEntryPoints
          /\ todo \in 0 .. Implementations /\ todo > 0
      BY <1>0, <1>7 DEF Execute, AttemptStep, Interpret, Abort, Return, Throw, FlagInv, AttemptTypeOK
    <2>2. CASE Interpret
      BY <1>0, <2>1, <2>2 DEF Interpret, FlagInv
    <2>3. CASE Abort
      <3>1. /\ ~running' /\ timedOut' /\ entryPointTimeout'
            /\ UNCHANGED <<now, entryPointDeadline>>
            /\ now >= entryPointDeadline
        BY <2>1, <2>3 DEF Abort, ShouldAbort
      <3>2. QED
        BY <1>0, <2>1, <3>1 DEF FlagInv
    <2>4. CASE Return
      <3>1. /\ todo' = todo - 1 /\ running' = (todo' > 0 /\ ~entryPointTimeout)
            /\ UNCHANGED <<now, entryPointDeadline, timedOut, entryPointTimeout>>
        BY <2>4 DEF Return
      <3>2. ~running' /\ Cut' => entryPointTimeout'
        BY <3>1 DEF Cut
      <3>3. QED
        BY <1>0, <2>1, <3>1, <3>2 DEF FlagInv
    <2>5. CASE Throw
      <3>1. /\ todo' = 0 /\ ~running'
            /\ UNCHANGED <<now, entryPointDeadline, timedOut, entryPointTimeout>>
        BY <2>5 DEF Throw
      <3>2. QED
        BY <1>0, <2>1, <3>1 DEF FlagInv, Cut
    <2>6. QED
      BY <1>7, <2>2, <2>3, <2>4, <2>5 DEF Execute, AttemptStep
  <1>8. CASE UNCHANGED vars
    BY <1>0, <1>8 DEF FlagInv, vars, loopVars, attemptVars, Cut
  <1>9. QED
    BY <1>1, <1>2, <1>3, <1>4, <1>5, <1>6, <1>7, <1>8 DEF Next

\* For all budgets and bodies: a timeout that is not an attempt's own cuts it
\* short only in the first pass, and only after another attempt has timed out
\* (spring-analyzer.ts: runAllocatedAttempt does not reset the flag, and
\* allocateAttempt of the reruns does).
THEOREM StaleFlagIsContained == Spec => []FalseTimeoutsFollowATimeout
  <1>1. Init => FlagInv
    BY InitType DEF Init, FlagInv
  <1>2. FlagInv => FalseTimeoutsFollowATimeout
    BY DEF FlagInv, FalseTimeoutsFollowATimeout
  <1>3. QED
    BY <1>1, <1>2, NextFlag, PTL DEF Spec

-----------------------------------------------------------------------------
(* The reruns are in order *)

\* The worklist is in order, and so is the queue, which lists attempts of the
\* worklist that were dealt with.
OrderInv ==
  /\ TypeOK
  /\ \A i, j \in 1 .. Len(worklist) : i < j => Before(worklist[i], worklist[j])
  /\ pc = "build" => \A i \in 1 .. Len(worklist) : worklist[i][1] < entryPoint
  /\ pc = "build" => timeoutEntryPoints = <<>>
  /\ pc \in {"next", "attempt"} =>
       \A i \in 1 .. Len(timeoutEntryPoints) :
         \E k \in 1 .. index : timeoutEntryPoints[i] = worklist[k]
  /\ RerunsAreInOrder

\* Overloads are appended in the order of the entry points.
LEMMA BuildAddOrder == OrderInv /\ BuildAdd => OrderInv'
  <1> SUFFICES ASSUME OrderInv, BuildAdd PROVE OrderInv'
    OBVIOUS
  <1> DEFINE n     == Overloads[entryPoint]
             added == [o \in 1 .. n |-> <<entryPoint, o>>]
             W     == Len(worklist)
  <1>0. /\ TypeOK /\ TypeOK' /\ pc = "build" /\ pc' = "build"
        /\ UNCHANGED <<timeoutEntryPoints>>
        /\ entryPoint \in 1 .. Len(Overloads) /\ n \in Nat
        /\ W \in Nat /\ worklist \in Seq(Attempts)
        /\ \A i \in 1 .. W : worklist[i][1] \in Nat
    <2>1. /\ TypeOK /\ TypeOK' /\ pc = "build" /\ pc' = "build"
          /\ UNCHANGED timeoutEntryPoints /\ entryPoint <= Len(Overloads)
      BY BuildAddType DEF OrderInv, BuildAdd
    <2>2. entryPoint \in 1 .. Len(Overloads)
      BY <2>1, SpringAssumption, LenProperties DEF TypeOK
    <2>3. n \in Nat
      BY <2>2, SpringAssumption, ElementOfSeq
    <2>4. W \in Nat /\ worklist \in Seq(Attempts)
      BY <2>1, LenProperties DEF TypeOK
    <2>5. \A i \in 1 .. W : worklist[i] \in Attempts
      BY <2>4, ElementOfSeq
    <2>6. \A i \in 1 .. W : worklist[i][1] \in Nat
      BY <2>5 DEF Attempts
    <2>7. QED
      BY <2>1, <2>2, <2>3, <2>4, <2>6
  <1>1. timeoutEntryPoints = <<>> /\ RerunsAreInOrder'
    BY <1>0 DEF OrderInv, RerunsAreInOrder, Before
  <1>2. entryPoint \in Nat /\ entryPoint' \in Nat /\ entryPoint' >= entryPoint
    BY <1>0 DEF BuildAdd
  <1>3. CASE UNCHANGED worklist
    <2>1. \A i \in 1 .. Len(worklist') : worklist'[i][1] < entryPoint'
      <3> SUFFICES ASSUME NEW i \in 1 .. W PROVE worklist[i][1] < entryPoint'
        BY <1>3
      <3>1. worklist[i][1] < entryPoint /\ worklist[i][1] \in Nat
        BY <1>0 DEF OrderInv
      <3>2. QED
        BY <1>2, <3>1
    <2>2. QED
      BY <1>0, <1>1, <1>3, <2>1 DEF OrderInv, Before
  <1>4. CASE worklist' = worklist \o added /\ entryPoint' = entryPoint + 1
    <2>1. added \in Seq(Attempts) /\ Len(added) = n /\ \A o \in 1 .. n : added[o] = <<entryPoint, o>>
      <3>1. \A o \in 1 .. n : <<entryPoint, o>> \in Attempts
        BY <1>0 DEF Attempts
      <3>2. added \in [1 .. n -> Attempts] /\ DOMAIN added = 1 .. n
        BY <3>1
      <3>3. Seq(Attempts) = UNION {[1 .. k -> Attempts] : k \in Nat}
        OBVIOUS
      <3>4. added \in Seq(Attempts)
        BY <1>0, <3>2, <3>3
      <3>5. Len(added) = n
        BY <1>0, <3>2, <3>4, LenProperties
      <3>6. QED
        BY <3>4, <3>5
    <2> HIDE DEF added, n, W
    <2>2. /\ Len(worklist') = W + n
          /\ \A i \in 1 .. W + n :
               worklist'[i] = IF i <= W THEN worklist[i] ELSE <<entryPoint, i - W>>
      <3>1. /\ Len(worklist') = W + n
            /\ \A i \in 1 .. W + n : worklist'[i] = IF i <= W THEN worklist[i] ELSE added[i - W]
        BY <1>0, <1>4, <2>1, ConcatProperties DEF W
      <3>2. \A i \in 1 .. W + n : ~(i <= W) => i - W \in 1 .. n
        BY <1>0
      <3>3. QED
        BY <2>1, <3>1, <3>2
    <2>3. \A i \in 1 .. W : worklist[i][1] < entryPoint /\ worklist[i][1] \in Nat
      BY <1>0 DEF OrderInv, W
    <2>4. ASSUME NEW i \in 1 .. W + n, NEW j \in 1 .. W + n, i < j
          PROVE  Before(worklist'[i], worklist'[j])
      <3>1. CASE j <= W
        <4>1. i \in 1 .. W /\ j \in 1 .. W
          BY <1>0, <2>4, <3>1
        <4>2. worklist'[i] = worklist[i] /\ worklist'[j] = worklist[j]
          BY <2>2, <4>1
        <4>3. QED
          BY <2>4, <4>1, <4>2 DEF OrderInv, W
      <3>2. CASE i <= W /\ ~(j <= W)
        <4>1. i \in 1 .. W
          BY <1>0, <3>2
        <4>2. QED
          BY <2>2, <2>3, <3>2, <4>1 DEF Before
      <3>3. CASE ~(i <= W)
        <4>1. ~(j <= W) /\ i - W < j - W
          BY <1>0, <2>4, <3>3
        <4>2. QED
          BY <2>2, <3>3, <4>1 DEF Before
      <3>4. QED
        BY <3>1, <3>2, <3>3
    <2>5. \A i \in 1 .. W + n : worklist'[i][1] < entryPoint'
      <3> SUFFICES ASSUME NEW i \in 1 .. W + n PROVE worklist'[i][1] < entryPoint'
        OBVIOUS
      <3>1. entryPoint < entryPoint'
        BY <1>2, <1>4
      <3>2. CASE i <= W
        <4>1. worklist'[i] = worklist[i] /\ i \in 1 .. W
          BY <1>0, <2>2, <3>2
        <4>2. worklist[i][1] < entryPoint /\ worklist[i][1] \in Nat
          BY <2>3, <4>1
        <4>3. QED
          BY <1>2, <3>1, <4>1, <4>2
      <3>3. CASE ~(i <= W)
        <4>1. worklist'[i] = <<entryPoint, i - W>>
          BY <2>2, <3>3
        <4>2. QED
          BY <3>1, <4>1
      <3>4. QED
        BY <3>2, <3>3
    <2>6. QED
      BY <1>0, <1>1, <2>2, <2>4, <2>5 DEF OrderInv, Before
  <1>5. QED
    BY <1>3, <1>4 DEF BuildAdd

\* The attempt at hand is queued behind those before it.
LEMMA RestoreOrder ==
  ASSUME OrderInv, pc = "attempt", RestoreAttempt(worklist[index + 1])
  PROVE  /\ RerunsAreInOrder'
         /\ \A i \in 1 .. Len(timeoutEntryPoints') :
              \E k \in 1 .. index + 1 : timeoutEntryPoints'[i] = worklist[k]
  <1> DEFINE L == Len(timeoutEntryPoints)
  <1>0. /\ TypeOK /\ L \in Nat /\ index \in Nat /\ index + 1 \in 1 .. Len(worklist)
        /\ Len(worklist) \in Nat
        /\ timeoutEntryPoints \in Seq(Attempts) /\ DOMAIN timeoutEntryPoints = 1 .. L
        /\ worklist[index + 1] \in Attempts
    BY RestoreAttemptType, LenProperties DEF OrderInv, TypeOK
  <1>1. \A i \in 1 .. L : \E k \in 1 .. index : timeoutEntryPoints[i] = worklist[k]
    BY DEF OrderInv
  <1>2. CASE ~timedOut
    <2>1. timeoutEntryPoints' = timeoutEntryPoints
      BY <1>2 DEF RestoreAttempt
    <2>2. QED
      BY <1>0, <1>1, <2>1 DEF OrderInv, RerunsAreInOrder, Before
  <1>3. CASE timedOut
    <2>1. timeoutEntryPoints' = Append(timeoutEntryPoints, worklist[index + 1])
      BY <1>3 DEF RestoreAttempt
    <2>2. /\ DOMAIN timeoutEntryPoints' = 1 .. L + 1 /\ Len(timeoutEntryPoints') = L + 1
          /\ \A i \in 1 .. L : timeoutEntryPoints'[i] = timeoutEntryPoints[i]
          /\ timeoutEntryPoints'[L + 1] = worklist[index + 1]
      BY <1>0, <2>1, AppendProperties, LenProperties
    <2> HIDE DEF L
    <2>3. \A i \in 1 .. L : Before(timeoutEntryPoints[i], worklist[index + 1])
      <3> SUFFICES ASSUME NEW i \in 1 .. L PROVE Before(timeoutEntryPoints[i], worklist[index + 1])
        OBVIOUS
      <3>1. PICK k \in 1 .. index : timeoutEntryPoints[i] = worklist[k]
        BY <1>1
      <3>2. k \in 1 .. Len(worklist) /\ k < index + 1
        BY <1>0
      <3>3. QED
        BY <1>0, <3>1, <3>2 DEF OrderInv
    <2>4. ASSUME NEW i \in 1 .. L + 1, NEW j \in 1 .. L + 1, i < j
          PROVE  Before(timeoutEntryPoints'[i], timeoutEntryPoints'[j])
      <3>1. i \in 1 .. L
        BY <1>0, <2>4
      <3>2. CASE j \in 1 .. L
        BY <1>0, <2>2, <2>4, <3>1, <3>2 DEF OrderInv, RerunsAreInOrder
      <3>3. CASE j = L + 1
        BY <2>2, <2>3, <3>1, <3>3
      <3>4. QED
        BY <1>0, <3>2, <3>3
    <2>5. ASSUME NEW i \in 1 .. L + 1
          PROVE  \E k \in 1 .. index + 1 : timeoutEntryPoints'[i] = worklist[k]
      <3>1. CASE i \in 1 .. L
        <4>1. PICK k \in 1 .. index : timeoutEntryPoints[i] = worklist[k]
          BY <1>1, <3>1
        <4>2. k \in 1 .. index + 1
          BY <1>0
        <4>3. QED
          BY <2>2, <3>1, <4>1, <4>2
      <3>2. CASE i = L + 1
        <4>1. index + 1 \in 1 .. index + 1
          BY <1>0
        <4>2. QED
          BY <2>2, <3>2, <4>1
      <3>3. QED
        BY <1>0, <3>1, <3>2
    <2>6. QED
      BY <2>2, <2>4, <2>5 DEF RerunsAreInOrder, Before
  <1>4. QED
    BY <1>2, <1>3

LEMMA NextOrder == OrderInv /\ [Next]_vars => OrderInv'
  <1> SUFFICES ASSUME OrderInv, [Next]_vars PROVE OrderInv'
    OBVIOUS
  <1>0. TypeOK /\ TypeOK' /\ index \in Nat
    BY NextType, LenProperties DEF OrderInv, TypeOK
  <1>1. CASE BuildAdd
    BY <1>1, BuildAddOrder
  <1>2. CASE BuildEnd
    <2>1. /\ pc = "build" /\ pc' = "next" /\ UNCHANGED <<worklist, index, timeoutEntryPoints>>
      BY <1>2 DEF BuildEnd
    <2>2. timeoutEntryPoints = <<>> /\ Len(timeoutEntryPoints) = 0
      BY <2>1, EmptySeq DEF OrderInv
    <2>3. QED
      BY <1>0, <2>1, <2>2 DEF OrderInv, RerunsAreInOrder, Before
  <1>3. CASE BuildSkip
    <2>1. /\ pc = "build" /\ pc' = "build" /\ entryPoint' = entryPoint + 1
          /\ UNCHANGED <<worklist, timeoutEntryPoints>>
      BY <1>3 DEF BuildSkip, loopVars
    <2>2. \A i \in 1 .. Len(worklist) : worklist[i][1] < entryPoint'
      <3> SUFFICES ASSUME NEW i \in 1 .. Len(worklist) PROVE worklist[i][1] < entryPoint'
        OBVIOUS
      <3>1. worklist[i] \in Attempts
        BY <1>0, ElementOfSeq DEF TypeOK
      <3>2. QED
        BY <1>0, <2>1, <3>1 DEF OrderInv, Attempts, TypeOK
    <2>3. QED
      BY <1>0, <2>1, <2>2 DEF OrderInv, RerunsAreInOrder, Before
  <1>4. CASE DenyAttempt
    <2>1. /\ pc = "next" /\ pc' = "next" /\ index' = index + 1
          /\ UNCHANGED <<worklist, timeoutEntryPoints>>
      BY <1>4 DEF DenyAttempt
    <2>2. 1 .. index \subseteq 1 .. index'
      BY <1>0, <2>1
    <2>3. QED
      BY <1>0, <2>1, <2>2 DEF OrderInv, RerunsAreInOrder, Before
  <1>5. CASE EndAttempt
    <2>1. /\ pc = "attempt" /\ pc' = "next" /\ index' = index + 1 /\ worklist' = worklist
          /\ RestoreAttempt(worklist[index + 1])
      BY <1>5 DEF EndAttempt
    <2>2. QED
      BY <1>0, <2>1, RestoreOrder DEF OrderInv, Before
  <1>6. CASE ErrorInAttempt
    <2>1. /\ pc = "attempt" /\ pc' = "recover" /\ worklist' = worklist
          /\ RestoreAttempt(worklist[index + 1])
      BY <1>6 DEF ErrorInAttempt
    <2>2. QED
      BY <1>0, <2>1, RestoreOrder DEF OrderInv, Before
  <1>7. CASE Finish
    <2>1. pc' = "done" /\ worklist' = worklist /\ timeoutEntryPoints' = <<>>
      BY <1>7 DEF Finish
    <2>2. QED
      BY <1>0, <2>1 DEF OrderInv, RerunsAreInOrder, Before
  <1>8. CASE StartAttempt \/ Execute
    <2>1. /\ UNCHANGED <<worklist, index, timeoutEntryPoints>>
          /\ \/ pc \in {"next", "attempt"} /\ pc' = "attempt"
             \/ pc' = "reattempt"
      BY <1>8 DEF StartAttempt, Execute, loopVars
    <2>2. QED
      BY <1>0, <2>1 DEF OrderInv, RerunsAreInOrder, Before
  <1>9. CASE BeginReruns \/ StartRerun \/ DenyRerun \/ EndRerun \/ ErrorInRerun \/ Recover
    <2>1. /\ UNCHANGED <<worklist, timeoutEntryPoints>>
          /\ pc' \notin {"build", "next", "attempt"}
      BY <1>9 DEF BeginReruns, StartRerun, DenyRerun, EndRerun, ErrorInRerun, Recover
    <2>2. QED
      BY <1>0, <2>1 DEF OrderInv, RerunsAreInOrder, Before
  <1>10. CASE UNCHANGED vars
    BY <1>0, <1>10 DEF OrderInv, RerunsAreInOrder, Before, vars, loopVars
  <1>11. QED
    BY <1>1, <1>2, <1>3, <1>4, <1>5, <1>6, <1>7, <1>8, <1>9, <1>10 DEF Next

\* No attempt is rerun twice or out of its turn, whatever is denied or fails
\* before it (spring-analyzer.ts: runSpringConcreteWorklist).
THEOREM RerunsKeepOrder == Spec => []RerunsAreInOrder
  <1>1. Init => OrderInv
    <2> SUFFICES ASSUME Init PROVE OrderInv
      OBVIOUS
    <2>1. pc = "build" /\ worklist = <<>> /\ timeoutEntryPoints = <<>> /\ Len(worklist) = 0
      BY EmptySeq DEF Init
    <2>2. QED
      BY <2>1, InitType DEF OrderInv, RerunsAreInOrder
  <1>2. OrderInv => RerunsAreInOrder
    BY DEF OrderInv
  <1>3. QED
    BY <1>1, <1>2, NextOrder, PTL DEF Spec

=============================================================================
