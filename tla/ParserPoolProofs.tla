-------------------------- MODULE ParserPoolProofs --------------------------
(***************************************************************************)
(* What holds of ParserPool for every set of files, pool size, fault model *)
(* and bound.                                                              *)
(***************************************************************************)
EXTENDS ParserPool, TLAPS, FiniteSetTheorems, SequenceTheorems, WellFoundedInduction

SlotRec   == [proc : Procs, busy : BOOLEAN]
AnswerRec == [task : Files, kind : Answers]

-----------------------------------------------------------------------------
(* Lemmas about the steps that handlers are made of *)

\* A function on an initial segment of the naturals is a sequence.
LEMMA SeqOfFunction ==
  ASSUME NEW S, NEW n \in Nat, NEW f \in [1 .. n -> S]
  PROVE  f \in Seq(S)
  <1>1. Seq(S) = UNION {[1 .. k -> S] : k \in Nat}
    OBVIOUS
  <1>2. QED
    BY <1>1

\* The idle slots are a finite set of slot numbers.
LEMMA IdleFinite ==
  ASSUME NEW w \in Seq(SlotRec)
  PROVE  /\ IsFiniteSet(Idle(w))
         /\ Cardinality(Idle(w)) \in Nat
         /\ \A i \in Idle(w) : Cardinality(Idle(w)) # 0
  <1>1. Idle(w) \subseteq 1 .. Len(w)
    BY LenProperties DEF Idle
  <1>2. IsFiniteSet(1 .. Len(w))
    BY LenProperties, FS_Interval
  <1>3. IsFiniteSet(Idle(w))
    BY <1>1, <1>2, FS_Subset
  <1>4. QED
    BY <1>3, FS_CardinalityType, FS_EmptySet

\* Occupying slot i keeps the slots well-formed and takes i out of the idle.
LEMMA OccupyProperties ==
  ASSUME NEW w \in Seq(SlotRec), NEW i \in DOMAIN w
  PROVE  /\ Occupy(w, i) \in Seq(SlotRec)
         /\ DOMAIN Occupy(w, i) = DOMAIN w
         /\ \A j \in DOMAIN w : Occupy(w, i)[j].proc = w[j].proc
         /\ Idle(Occupy(w, i)) = Idle(w) \ {i}
  <1>1. /\ DOMAIN w = 1 .. Len(w)
        /\ \A j \in 1 .. Len(w) : w[j] \in SlotRec
    BY LenProperties, ElementOfSeq
  <1>2. Slot(w[i].proc, TRUE) \in SlotRec
    BY <1>1 DEF SlotRec, Slot
  <1>3. /\ Occupy(w, i) \in Seq(SlotRec)
        /\ DOMAIN Occupy(w, i) = DOMAIN w
        /\ \A j \in DOMAIN w : Occupy(w, i)[j] = IF j = i THEN Slot(w[i].proc, TRUE) ELSE w[j]
    BY <1>1, <1>2, ExceptSeq DEF Occupy
  <1>4. Occupy(w, i)[i].busy
    BY <1>3 DEF Slot
  <1>5. \A j \in DOMAIN w : j # i => Occupy(w, i)[j] = w[j]
    BY <1>3
  <1>6. \A j \in DOMAIN w : Occupy(w, i)[j].proc = w[j].proc
    BY <1>3 DEF Slot
  <1>7. Idle(Occupy(w, i)) = Idle(w) \ {i}
    BY <1>3, <1>4, <1>5 DEF Idle, Busy
  <1>8. QED
    BY <1>3, <1>6, <1>7

\* Vacating slot i keeps the slots well-formed and adds i to the idle.
LEMMA VacateProperties ==
  ASSUME NEW w \in Seq(SlotRec), NEW i
  PROVE  /\ Vacate(w, i) \in Seq(SlotRec)
         /\ DOMAIN Vacate(w, i) = DOMAIN w
         /\ \A j \in DOMAIN w : Vacate(w, i)[j].proc = w[j].proc
         /\ Idle(Vacate(w, i)) = Idle(w) \cup ({i} \cap DOMAIN w)
  <1>1. /\ DOMAIN w = 1 .. Len(w)
        /\ \A j \in 1 .. Len(w) : w[j] \in SlotRec
    BY LenProperties, ElementOfSeq
  <1>2. CASE i \in DOMAIN w
    <2>1. Slot(w[i].proc, FALSE) \in SlotRec
      BY <1>1, <1>2 DEF SlotRec, Slot
    <2>2. /\ Vacate(w, i) \in Seq(SlotRec)
          /\ DOMAIN Vacate(w, i) = DOMAIN w
          /\ \A j \in DOMAIN w : Vacate(w, i)[j] = IF j = i THEN Slot(w[i].proc, FALSE) ELSE w[j]
      BY <1>1, <1>2, <2>1, ExceptSeq DEF Vacate
    <2>3. ~Vacate(w, i)[i].busy
      BY <1>2, <2>2 DEF Slot
    <2>4. \A j \in DOMAIN w : j # i => Vacate(w, i)[j] = w[j]
      BY <2>2
    <2>5. \A j \in DOMAIN w : Vacate(w, i)[j].proc = w[j].proc
      BY <1>2, <2>2 DEF Slot
    <2>6. Idle(Vacate(w, i)) = Idle(w) \cup {i}
      BY <1>2, <2>2, <2>3, <2>4 DEF Idle, Busy
    <2>7. QED
      BY <1>2, <2>2, <2>5, <2>6
  <1>3. CASE i \notin DOMAIN w
    BY <1>3 DEF Vacate
  <1>4. QED
    BY <1>2, <1>3

\* send() touches the channel of the child, or schedules an error on it.
LEMMA SendType ==
  ASSUME TypeOK, NEW p \in Procs, NEW f \in Files, Send(p, f)
  PROVE  /\ inbox' \in [Procs -> Seq(Files)]
         /\ errorPending' \subseteq Procs
  <1>1. CASE p \in up /\ inbox' = [inbox EXCEPT ![p] = Append(@, f)] /\ UNCHANGED errorPending
    <2>1. Append(inbox[p], f) \in Seq(Files)
      BY AppendProperties DEF TypeOK
    <2>2. QED
      BY <1>1, <2>1 DEF TypeOK
  <1>2. CASE UNCHANGED <<inbox, errorPending>>
    BY <1>2 DEF TypeOK
  <1>3. CASE errorPending' = errorPending \cup {p} /\ UNCHANGED inbox
    BY <1>3 DEF TypeOK
  <1>4. QED
    BY <1>1, <1>2, <1>3 DEF Send

\* processNextTask() keeps the types of everything it assigns.
LEMMA ProcessNextTaskType ==
  ASSUME TypeOK, NEW q \in Seq(Files), NEW w \in Seq(SlotRec),
         NEW pd \in SUBSET Files, ProcessNextTask(q, w, pd)
  PROVE  /\ taskQueue' \in Seq(Files)
         /\ workers' \in Seq(SlotRec)
         /\ pendingTasks' \subseteq Files
         /\ lastWorkerIndex' \in Nat
         /\ inbox' \in [Procs -> Seq(Files)]
         /\ errorPending' \subseteq Procs
  <1>1. CASE q = <<>> \/ Idle(w) = {}
    BY <1>1 DEF ProcessNextTask, TypeOK
  <1>2. CASE ~(q = <<>> \/ Idle(w) = {})
    <2>1. PICK i \in DOMAIN w :
            /\ Selected(w, i)
            /\ lastWorkerIndex' = NextIndex(w)
            /\ taskQueue' = Dequeued(q)
            /\ workers' = Occupy(w, i)
            /\ pendingTasks' = pd \cup {Head(q)}
            /\ Send(w[i].proc, Head(q))
      BY <1>2 DEF ProcessNextTask
    <2>2. Head(q) \in Files /\ Tail(q) \in Seq(Files)
      BY <1>2, HeadTailProperties
    <2>3. w[i].proc \in Procs
      <3>1. i \in 1 .. Len(w)
        BY LenProperties
      <3>2. w[i] \in SlotRec
        BY <3>1, ElementOfSeq
      <3>3. QED
        BY <3>2 DEF SlotRec
    <2>4. lastWorkerIndex' \in Nat
      BY <1>2, <2>1, IdleFinite DEF NextIndex, TypeOK, Selected
    <2>5. QED
      BY <2>1, <2>2, <2>3, <2>4, SendType, OccupyProperties DEF Dequeued
  <1>3. QED
    BY <1>1, <1>2

\* createWorker() keeps the types of everything it assigns.
LEMMA CreateWorkerType ==
  ASSUME TypeOK, NEW id \in 1 .. MaxWorkers, NEW w \in Seq(SlotRec),
         NEW alive \in SUBSET Procs, CreateWorker(id, w, alive)
  PROVE  /\ nprocs' \in 0 .. MaxProcs
         /\ slotOf' \in [Procs -> 1 .. MaxWorkers]
         /\ up' \subseteq Procs
         /\ workers' \in Seq(SlotRec)
         /\ forkFailures' \in Nat
  <1>1. CASE /\ forkFailures' = forkFailures + 1
             /\ up' = alive
             /\ workers' = w
             /\ UNCHANGED <<nprocs, slotOf>>
    BY <1>1 DEF TypeOK
  <1>2. CASE /\ nprocs < MaxProcs
             /\ nprocs' = nprocs + 1
             /\ slotOf' = [slotOf EXCEPT ![nprocs + 1] = id]
             /\ up' = alive \cup {nprocs + 1}
             /\ workers' = IF id \in DOMAIN w
                           THEN [w EXCEPT ![id] = Slot(nprocs + 1, FALSE)]
                           ELSE Append(w, Slot(nprocs + 1, FALSE))
             /\ UNCHANGED forkFailures
    <2>1. nprocs + 1 \in Procs
      BY <1>2, PoolAssumption DEF TypeOK, Procs
    <2>2. Slot(nprocs + 1, FALSE) \in SlotRec
      BY <2>1 DEF Slot, SlotRec
    <2>3. workers' \in Seq(SlotRec)
      <3>1. CASE id \in DOMAIN w
        BY <1>2, <2>2, <3>1, ExceptSeq, LenProperties
      <3>2. CASE id \notin DOMAIN w
        BY <1>2, <2>2, <3>2, AppendProperties
      <3>3. QED
        BY <3>1, <3>2
    <2>4. nprocs' \in 0 .. MaxProcs
      BY <1>2, PoolAssumption DEF TypeOK
    <2>5. QED
      BY <1>2, <2>1, <2>3, <2>4 DEF TypeOK
  <1>3. QED
    BY <1>1, <1>2 DEF CreateWorker

-----------------------------------------------------------------------------
(* Type correctness *)

LEMMA InitType == Init => TypeOK
  <1> SUFFICES ASSUME Init PROVE TypeOK
    OBVIOUS
  <1>1. MaxWorkers \in Procs /\ 1 .. MaxWorkers \subseteq Procs
    BY PoolAssumption DEF Procs
  <1>2. up \subseteq 1 .. MaxWorkers /\ forkFailures \in Nat
    <2>1. PICK failed \in SUBSET (1 .. MaxWorkers) :
            forkFailures = Cardinality(failed) /\ up = (1 .. MaxWorkers) \ failed
      BY DEF Init
    <2>2. IsFiniteSet(1 .. MaxWorkers)
      BY PoolAssumption, FS_Interval
    <2>3. IsFiniteSet(failed)
      BY <2>1, <2>2, FS_Subset
    <2>4. QED
      BY <2>1, <2>3, FS_CardinalityType
  <1>3. workers \in Seq(SlotRec)
    <2>1. Cardinality(up) \in Nat
      <3>1. IsFiniteSet(1 .. MaxWorkers)
        BY PoolAssumption, FS_Interval
      <3>2. IsFiniteSet(up)
        BY <1>2, <3>1, FS_Subset
      <3>3. QED
        BY <3>2, FS_CardinalityType
    <2>2. PICK order \in [1 .. Cardinality(up) -> up] :
            workers = [i \in DOMAIN order |-> Slot(order[i], FALSE)]
      BY DEF Init
    <2>3. \A i \in 1 .. Cardinality(up) : Slot(order[i], FALSE) \in SlotRec
      BY <1>1, <1>2, <2>2 DEF Slot, SlotRec
    <2>4. workers \in [1 .. Cardinality(up) -> SlotRec]
      BY <2>2, <2>3
    <2>5. QED
      BY <2>1, <2>4, SeqOfFunction
  <1>4. slotOf \in [Procs -> 1 .. MaxWorkers]
    BY PoolAssumption DEF Init, Procs
  <1>5. /\ inbox \in [Procs -> Seq(Files)]
        /\ outbox \in [Procs -> Seq(AnswerRec)]
        /\ taskQueue \in Seq(Files)
    BY DEF Init
  <1>6. nprocs \in 0 .. MaxProcs
    BY PoolAssumption DEF Init
  <1>7. QED
    BY <1>1, <1>2, <1>3, <1>4, <1>5, <1>6 DEF Init, TypeOK, Outcomes, SlotRec, AnswerRec

LEMMA NextType == TypeOK /\ [Next]_vars => TypeOK'
  <1> SUFFICES ASSUME TypeOK, [Next]_vars PROVE TypeOK'
    OBVIOUS
  <1> USE DEF SlotRec, AnswerRec
  <1>1. ASSUME NEW f \in Files, SubmitTask(f) PROVE TypeOK'
    <2>1. CASE oomCount >= OOM_LIMIT
      BY <1>1, <2>1 DEF SubmitTask, TypeOK, Outcomes, forkVars
    <2>2. CASE ~(oomCount >= OOM_LIMIT)
      <3>1. Append(taskQueue, f) \in Seq(Files)
        BY AppendProperties DEF TypeOK
      <3>2. ProcessNextTask(Append(taskQueue, f), workers, pendingTasks) /\ UNCHANGED outcome
        BY <1>1, <2>2 DEF SubmitTask
      <3>3. /\ taskQueue' \in Seq(Files)
            /\ workers' \in Seq(SlotRec)
            /\ pendingTasks' \subseteq Files
            /\ lastWorkerIndex' \in Nat
            /\ inbox' \in [Procs -> Seq(Files)]
            /\ errorPending' \subseteq Procs
        BY <3>1, <3>2, ProcessNextTaskType DEF TypeOK
      <3>4. QED
        BY <1>1, <3>2, <3>3 DEF SubmitTask, TypeOK, forkVars
    <2>3. QED
      BY <2>1, <2>2
  <1>2. CASE Terminate
    <2>1. /\ pc' = "released"
          /\ up' \subseteq Procs
          /\ workers' \in Seq(SlotRec)
          /\ taskQueue' \in Seq(Files)
          /\ pendingTasks' \subseteq Files
      BY <1>2, EmptySeq DEF Terminate, TypeOK
    <2>2. UNCHANGED <<unmapped, outcome, lastWorkerIndex, consecutiveFailures,
                      oomCount, forkVars, inbox, outbox, exitPending,
                      errorPending, crashes, errors>>
      BY <1>2 DEF Terminate
    <2>3. QED
      BY <2>1, <2>2 DEF TypeOK, forkVars
  <1>3. ASSUME NEW p \in Procs, HandleMessage(p) PROVE TypeOK'
    <2> DEFINE m == Head(outbox[p])
    <2>1. m \in AnswerRec /\ Tail(outbox[p]) \in Seq(AnswerRec)
      BY <1>3, HeadTailProperties DEF HandleMessage, TypeOK
    <2>2. outbox' \in [Procs -> Seq(AnswerRec)]
      BY <1>3, <2>1 DEF HandleMessage, TypeOK
    <2>3. CASE slotOf[p] \in DOMAIN workers /\ m.task \in pendingTasks
      <3>1. /\ consecutiveFailures' = 0
            /\ outcome' = [outcome EXCEPT ![m.task] = Settlement(m.kind)]
            /\ ProcessNextTask(taskQueue, Vacate(workers, slotOf[p]), Unanswered(m.task))
        BY <1>3, <2>3 DEF HandleMessage
      <3>2. Settlement(m.kind) \in Outcomes
        BY <2>1 DEF Settlement, Answers, Outcomes
      <3>3. Vacate(workers, slotOf[p]) \in Seq(SlotRec) /\ Unanswered(m.task) \subseteq Files
        BY VacateProperties DEF TypeOK, Unanswered
      <3>4. /\ taskQueue' \in Seq(Files)
            /\ workers' \in Seq(SlotRec)
            /\ pendingTasks' \subseteq Files
            /\ lastWorkerIndex' \in Nat
            /\ inbox' \in [Procs -> Seq(Files)]
            /\ errorPending' \subseteq Procs
        BY <3>1, <3>3, ProcessNextTaskType DEF TypeOK
      <3>5. outcome' \in [Files -> Outcomes]
        BY <3>1, <3>2 DEF TypeOK
      <3>6. QED
        BY <1>3, <2>2, <3>1, <3>4, <3>5 DEF HandleMessage, TypeOK, forkVars
    <2>4. CASE ~(slotOf[p] \in DOMAIN workers /\ m.task \in pendingTasks)
      BY <1>3, <2>2, <2>4 DEF HandleMessage, TypeOK, forkVars
    <2>5. QED
      BY <2>3, <2>4
  <1>4. ASSUME NEW p \in Procs, HandleExit(p) PROVE TypeOK'
    <2>1. Vacate(workers, slotOf[p]) \in Seq(SlotRec)
      BY VacateProperties DEF TypeOK
    <2>2. /\ nprocs' \in 0 .. MaxProcs
          /\ slotOf' \in [Procs -> 1 .. MaxWorkers]
          /\ up' \subseteq Procs
          /\ workers' \in Seq(SlotRec)
          /\ forkFailures' \in Nat
      <3>1. CASE workers' = Vacate(workers, slotOf[p]) /\ UNCHANGED <<forkVars, up>>
        BY <2>1, <3>1 DEF TypeOK, forkVars
      <3>2. CASE CreateWorker(slotOf[p], Vacate(workers, slotOf[p]), up)
        BY <2>1, <3>2, CreateWorkerType DEF TypeOK
      <3>3. QED
        BY <1>4, <3>1, <3>2 DEF HandleExit
    <2>3. outcome' \in [Files -> Outcomes]
      BY <1>4 DEF HandleExit, TypeOK, Outcomes
    <2>4. /\ exitPending' \subseteq Procs
          /\ pendingTasks' \subseteq Files
          /\ oomCount' \in Nat
          /\ consecutiveFailures' \in Nat
      BY <1>4 DEF HandleExit, TypeOK
    <2>5. UNCHANGED <<pc, unmapped, taskQueue, lastWorkerIndex, inbox, outbox,
                      errorPending, crashes, errors>>
      BY <1>4 DEF HandleExit
    <2>6. QED
      BY <2>2, <2>3, <2>4, <2>5 DEF TypeOK
  <1>5. ASSUME NEW p \in Procs, HandleError(p) PROVE TypeOK'
    <2> DEFINE id == slotOf[p]
               killed == IF id \in DOMAIN workers THEN {workers[id].proc} \cap up ELSE {}
    <2>1. killed \subseteq Procs
      BY DEF TypeOK
    <2>2. /\ nprocs' \in 0 .. MaxProcs
          /\ slotOf' \in [Procs -> 1 .. MaxWorkers]
          /\ up' \subseteq Procs
          /\ workers' \in Seq(SlotRec)
          /\ forkFailures' \in Nat
      <3>1. CASE id \in DOMAIN workers
        <4>1. CreateWorker(id, workers, up \ killed)
          BY <1>5, <3>1 DEF HandleError
        <4>2. /\ id \in 1 .. MaxWorkers
              /\ workers \in Seq(SlotRec)
              /\ up \ killed \in SUBSET Procs
          BY DEF TypeOK
        <4>3. QED
          BY <4>1, <4>2, CreateWorkerType
      <3>2. CASE id \notin DOMAIN workers
        BY <1>5, <3>2 DEF HandleError, TypeOK, forkVars
      <3>3. QED
        BY <3>1, <3>2
    <2>3. exitPending' = exitPending \cup killed
      BY <1>5 DEF HandleError
    <2>4. errors' \in Nat
      BY <1>5 DEF HandleError, TypeOK
    <2>5. QED
      BY <1>5, <2>1, <2>2, <2>3, <2>4 DEF HandleError, TypeOK, clientVars
  <1>6. ASSUME NEW p \in Procs, Answer(p) PROVE TypeOK'
    <2>1. Head(inbox[p]) \in Files /\ Tail(inbox[p]) \in Seq(Files)
      BY <1>6, HeadTailProperties DEF Answer, TypeOK
    <2>2. PICK k \in AnswerKinds :
            outbox' = [outbox EXCEPT ![p] = Append(@, [task |-> Head(inbox[p]), kind |-> k])]
      BY <1>6 DEF Answer
    <2>3. [task |-> Head(inbox[p]), kind |-> k] \in AnswerRec
      BY <2>1, PoolAssumption
    <2>4. Append(outbox[p], [task |-> Head(inbox[p]), kind |-> k]) \in Seq(AnswerRec)
      BY <2>3, AppendProperties DEF TypeOK
    <2>5. outbox' \in [Procs -> Seq(AnswerRec)]
      BY <2>2, <2>4 DEF TypeOK
    <2>6. inbox' \in [Procs -> Seq(Files)]
      BY <1>6, <2>1 DEF Answer, TypeOK
    <2>7. QED
      BY <1>6, <2>5, <2>6 DEF Answer, TypeOK, clientVars, poolVars, forkVars
  <1>7. ASSUME NEW p \in Procs, Crash(p) PROVE TypeOK'
    <2>1. /\ inbox' \in [Procs -> Seq(Files)]
          /\ outbox' \in [Procs -> Seq(AnswerRec)]
      BY <1>7, EmptySeq DEF Crash, TypeOK
    <2>2. up' \subseteq Procs /\ exitPending' \subseteq Procs /\ crashes' \in Nat
      BY <1>7 DEF Crash, TypeOK
    <2>3. UNCHANGED <<clientVars, poolVars, forkVars, errorPending, errors>>
      BY <1>7 DEF Crash
    <2>4. QED
      BY <2>1, <2>2, <2>3 DEF TypeOK, clientVars, poolVars, forkVars
  <1>8. CASE UNCHANGED vars
    BY <1>8 DEF vars, clientVars, poolVars, forkVars, childVars, TypeOK
  <1>9. QED
    BY <1>1, <1>2, <1>3, <1>4, <1>5, <1>6, <1>7, <1>8 DEF Next

\* Every variable of the pool keeps its type, whatever children die.
THEOREM TypeCorrect == Spec => []TypeOK
  BY InitType, NextType, PTL DEF Spec

-----------------------------------------------------------------------------
(* No task is lost, sent twice or settled twice *)

\* What Append and Tail do to the elements of a queue without duplicates.
LEMMA AppendElements ==
  ASSUME NEW S, NEW q \in Seq(S), NEW f \in S, f \notin Range(q), IsInjective(q)
  PROVE  Range(Append(q, f)) = Range(q) \cup {f} /\ IsInjective(Append(q, f))
  <1>1. /\ DOMAIN q = 1 .. Len(q)
        /\ DOMAIN Append(q, f) = 1 .. Len(q) + 1
        /\ \A i \in 1 .. Len(q) : Append(q, f)[i] = q[i]
        /\ Append(q, f)[Len(q) + 1] = f
        /\ Len(q) \in Nat
    BY AppendProperties, LenProperties
  <1>2. Range(Append(q, f)) = Range(q) \cup {f}
    BY <1>1 DEF Range
  <1>3. IsInjective(Append(q, f))
    BY <1>1 DEF IsInjective, Range
  <1>4. QED
    BY <1>2, <1>3

LEMMA TailElements ==
  ASSUME NEW S, NEW q \in Seq(S), q # <<>>, IsInjective(q)
  PROVE  /\ Range(Tail(q)) = Range(q) \ {Head(q)}
         /\ IsInjective(Tail(q))
         /\ Head(q) \in Range(q)
  <1>1. /\ DOMAIN q = 1 .. Len(q)
        /\ Len(q) \in Nat \ {0}
        /\ DOMAIN Tail(q) = 1 .. Len(q) - 1
        /\ \A i \in 1 .. Len(q) - 1 : Tail(q)[i] = q[i + 1]
        /\ Head(q) = q[1]
    BY HeadTailProperties, LenProperties, EmptySeq
  <1>2. Head(q) \in Range(q)
    BY <1>1 DEF Range
  <1>3. IsInjective(Tail(q))
    BY <1>1 DEF IsInjective
  <1>4. ASSUME NEW x \in Range(Tail(q)) PROVE x \in Range(q) \ {Head(q)}
    <2>1. PICK i \in 1 .. Len(q) - 1 : x = q[i + 1]
      BY <1>1, <1>4 DEF Range
    <2>2. i + 1 \in DOMAIN q /\ 1 \in DOMAIN q /\ i + 1 # 1
      BY <1>1, <2>1
    <2>3. QED
      BY <1>1, <2>1, <2>2 DEF Range, IsInjective
  <1>5. ASSUME NEW x \in Range(q) \ {Head(q)} PROVE x \in Range(Tail(q))
    <2>1. PICK i \in 1 .. Len(q) : x = q[i] /\ i # 1
      BY <1>1, <1>5 DEF Range
    <2>2. i - 1 \in 1 .. Len(q) - 1 /\ Tail(q)[i - 1] = q[i]
      BY <1>1, <2>1
    <2>3. QED
      BY <1>1, <2>1, <2>2 DEF Range
  <1>6. QED
    BY <1>2, <1>3, <1>4, <1>5

\* processNextTask() moves tasks from the queue to the pending ones only.
LEMMA ProcessNextTaskElements ==
  ASSUME NEW q \in Seq(Files), NEW w, NEW pd \in SUBSET Files,
         IsInjective(q), Range(q) \cap pd = {}, ProcessNextTask(q, w, pd)
  PROVE  /\ Range(taskQueue') \cup pendingTasks' = Range(q) \cup pd
         /\ Range(taskQueue') \cap pendingTasks' = {}
         /\ IsInjective(taskQueue')
  <1>1. CASE q = <<>> \/ Idle(w) = {}
    BY <1>1 DEF ProcessNextTask
  <1>2. CASE ~(q = <<>> \/ Idle(w) = {})
    <2>1. taskQueue' = Tail(q) /\ pendingTasks' = pd \cup {Head(q)}
      BY <1>2 DEF ProcessNextTask, Dequeued
    <2>2. QED
      BY <1>2, <2>1, TailElements
  <1>3. QED
    BY <1>1, <1>2

LEMMA InitAccounting == Init => TaskAccounting
  BY DEF Init, TaskAccounting, Queued, Settled, Range, IsInjective

LEMMA NextAccounting ==
  TypeOK /\ TaskAccounting /\ [Next]_vars => TaskAccounting'
  <1> SUFFICES ASSUME TypeOK, TaskAccounting, [Next]_vars, pc' # "released"
               PROVE  /\ Files = unmapped' \cup Queued' \cup pendingTasks' \cup Settled'
                      /\ unmapped' \cap (Queued' \cup pendingTasks' \cup Settled') = {}
                      /\ Queued' \cap (pendingTasks' \cup Settled') = {}
                      /\ pendingTasks' \cap Settled' = {}
                      /\ IsInjective(taskQueue')
    BY DEF TaskAccounting
  <1> USE DEF Queued
  <1>1. ASSUME NEW f \in Files, SubmitTask(f) PROVE TaskAccounting'
    <2>1. pc # "released"
      BY <1>1 DEF SubmitTask
    <2>2. CASE oomCount >= OOM_LIMIT
      <3>1. Settled' = Settled \cup {f}
        BY <1>1, <2>2 DEF SubmitTask, Settled, TypeOK
      <3>2. QED
        BY <1>1, <2>1, <2>2, <3>1 DEF SubmitTask, TaskAccounting
    <2>3. CASE ~(oomCount >= OOM_LIMIT)
      <3> DEFINE q == Append(taskQueue, f)
      <3>1. Range(q) = Queued \cup {f} /\ IsInjective(q) /\ q \in Seq(Files)
        BY <1>1, <2>1, AppendElements, AppendProperties DEF TaskAccounting, TypeOK, SubmitTask
      <3>2. ProcessNextTask(q, workers, pendingTasks) /\ UNCHANGED outcome
        BY <1>1, <2>3 DEF SubmitTask
      <3>3. Range(q) \cap pendingTasks = {}
        BY <1>1, <2>1, <3>1 DEF TaskAccounting, SubmitTask
      <3>4. /\ Queued' \cup pendingTasks' = Queued \cup {f} \cup pendingTasks
            /\ Queued' \cap pendingTasks' = {}
            /\ IsInjective(taskQueue')
        BY <3>1, <3>2, <3>3, ProcessNextTaskElements DEF TypeOK
      <3>5. Settled' = Settled /\ unmapped' = unmapped \ {f} /\ f \in unmapped
        BY <1>1, <3>2 DEF SubmitTask, Settled
      <3>6. QED
        BY <2>1, <3>4, <3>5 DEF TaskAccounting
    <2>4. QED
      BY <2>2, <2>3
  <1>2. CASE Terminate
    BY <1>2 DEF Terminate
  <1>3. ASSUME NEW p \in Procs, HandleMessage(p) PROVE TaskAccounting'
    <2> DEFINE m == Head(outbox[p])
    <2>1. pc # "released" /\ UNCHANGED unmapped
      BY <1>3 DEF HandleMessage, EventLoop, Awaiting
    <2>2. CASE slotOf[p] \in DOMAIN workers /\ m.task \in pendingTasks
      <3>1. /\ outcome' = [outcome EXCEPT ![m.task] = Settlement(m.kind)]
            /\ ProcessNextTask(taskQueue, Vacate(workers, slotOf[p]), pendingTasks \ {m.task})
        BY <1>3, <2>2 DEF HandleMessage, Unanswered
      <3>2. m.kind \in Answers
        <4>1. outbox[p] \in Seq(AnswerRec) /\ outbox[p] # <<>>
          BY <1>3 DEF HandleMessage, TypeOK, AnswerRec
        <4>2. m \in AnswerRec
          BY <4>1, HeadTailProperties
        <4>3. QED
          BY <4>2 DEF AnswerRec
      <3>3. Settled' = Settled \cup {m.task}
        BY <2>2, <3>1, <3>2 DEF Settled, Settlement, Answers, TypeOK
      <3>4. /\ taskQueue \in Seq(Files)
            /\ pendingTasks \ {m.task} \in SUBSET Files
            /\ IsInjective(taskQueue)
            /\ Range(taskQueue) \cap (pendingTasks \ {m.task}) = {}
        BY <2>1 DEF TypeOK, TaskAccounting
      <3>5. /\ Queued' \cup pendingTasks' = Queued \cup (pendingTasks \ {m.task})
            /\ Queued' \cap pendingTasks' = {}
            /\ IsInjective(taskQueue')
        BY <3>1, <3>4, ProcessNextTaskElements
      <3>6. QED
        BY <2>1, <2>2, <3>3, <3>5 DEF TaskAccounting
    <2>3. CASE ~(slotOf[p] \in DOMAIN workers /\ m.task \in pendingTasks)
      BY <1>3, <2>1, <2>3 DEF HandleMessage, TaskAccounting, Settled
    <2>4. QED
      BY <2>2, <2>3
  <1>4. ASSUME NEW p \in Procs, HandleExit(p) PROVE TaskAccounting'
    <2>1. /\ pc # "released"
          /\ UNCHANGED <<unmapped, taskQueue>>
          /\ pendingTasks' = pendingTasks \ Rejected(p)
          /\ outcome' = [f \in Files |-> IF f \in Rejected(p) THEN "main" ELSE outcome[f]]
      BY <1>4 DEF HandleExit, EventLoop, Awaiting
    <2>2. Rejected(p) \subseteq pendingTasks
      BY DEF Rejected
    <2>3. Settled' = Settled \cup Rejected(p)
      BY <2>1, <2>2 DEF Settled, TypeOK
    <2>4. QED
      BY <2>1, <2>2, <2>3 DEF TaskAccounting
  <1>5. ASSUME NEW p \in Procs, HandleError(p) PROVE TaskAccounting'
    BY <1>5 DEF HandleError, clientVars, TaskAccounting, Settled
  <1>6. ASSUME NEW p \in Procs, Answer(p) \/ Crash(p) PROVE TaskAccounting'
    BY <1>6 DEF Answer, Crash, clientVars, poolVars, TaskAccounting, Settled
  <1>7. CASE UNCHANGED vars
    BY <1>7 DEF vars, clientVars, poolVars, TaskAccounting, Settled
  <1>8. QED
    BY <1>1, <1>2, <1>3, <1>4, <1>5, <1>6, <1>7 DEF Next, TaskAccounting

\* Every file is in exactly one place: not handed out, queued, pending or
\* settled, under every interleaving of answers, deaths and send errors.
THEOREM AccountingHolds == Spec => []TaskAccounting
  BY InitType, NextType, InitAccounting, NextAccounting, PTL DEF Spec

-----------------------------------------------------------------------------
(* The pool implements ParseJob *)

\* Giving unsettled files one and the same outcome is a Settle step.
LEMMA SettleStep ==
  ASSUME NEW S \in SUBSET (Files \ Settled), S # {},
         NEW how \in {"worker", "null", "main"},
         outcome' = [f \in Files |-> IF f \in S THEN how ELSE outcome[f]],
         pc # "released", pc' # "released"
  PROVE  Job!Settle
  <1> DEFINE hows == [f \in S |-> how]
  <1>1. S \in SUBSET Job!Unsettled
    BY DEF Job!Unsettled, Settled
  <1>2. hows \in [S -> {"worker", "null", "main"}]
    OBVIOUS
  <1>3. outcome' = [f \in Files |-> IF f \in S THEN hows[f] ELSE outcome[f]]
    OBVIOUS
  <1>4. UNCHANGED (pc = "released")
    OBVIOUS
  <1>5. QED
    BY <1>1, <1>2, <1>3, <1>4 DEF Job!Settle

LEMMA InitRefines == Init => Job!Init
  BY DEF Init, Job!Init

LEMMA NextRefines ==
  TypeOK /\ TaskAccounting /\ [Next]_vars => [Job!Next]_(Job!jobVars)
  <1> SUFFICES ASSUME TypeOK, TaskAccounting, [Next]_vars
               PROVE  Job!Next \/ UNCHANGED <<outcome, (pc = "released")>>
    BY DEF Job!jobVars
  <1> USE DEF Job!Next
  <1>1. ASSUME NEW f \in Files, SubmitTask(f)
        PROVE  Job!Next \/ UNCHANGED <<outcome, (pc = "released")>>
    <2>1. /\ pc # "released" /\ pc' # "released"
          /\ f \in Files \ Settled
      BY <1>1 DEF SubmitTask, TaskAccounting
    <2>2. CASE oomCount >= OOM_LIMIT
      <3>1. outcome' = [g \in Files |-> IF g \in {f} THEN "main" ELSE outcome[g]]
        BY <1>1, <2>2 DEF SubmitTask, TypeOK
      <3>2. QED
        BY <2>1, <3>1, SettleStep
    <2>3. CASE ~(oomCount >= OOM_LIMIT)
      BY <1>1, <2>1, <2>3 DEF SubmitTask
    <2>4. QED
      BY <2>2, <2>3
  <1>2. CASE Terminate
    BY <1>2 DEF Terminate, Settled, Job!Release, Job!Unsettled
  <1>3. ASSUME NEW p \in Procs, HandleMessage(p)
        PROVE  Job!Next \/ UNCHANGED <<outcome, (pc = "released")>>
    <2> DEFINE m == Head(outbox[p])
    <2>1. pc # "released" /\ pc' # "released"
      BY <1>3 DEF HandleMessage, EventLoop, Awaiting
    <2>2. CASE slotOf[p] \in DOMAIN workers /\ m.task \in pendingTasks
      <3>1. outcome' = [outcome EXCEPT ![m.task] = Settlement(m.kind)]
        BY <1>3, <2>2 DEF HandleMessage
      <3>2. Settlement(m.kind) \in {"worker", "null", "main"}
        <4>1. outbox[p] \in Seq(AnswerRec) /\ outbox[p] # <<>>
          BY <1>3 DEF HandleMessage, TypeOK, AnswerRec
        <4>2. m \in AnswerRec
          BY <4>1, HeadTailProperties
        <4>3. QED
          BY <4>2 DEF AnswerRec, Answers, Settlement
      <3>3. {m.task} \in SUBSET (Files \ Settled)
        BY <2>1, <2>2 DEF TypeOK, TaskAccounting
      <3>4. outcome' = [g \in Files |-> IF g \in {m.task} THEN Settlement(m.kind) ELSE outcome[g]]
        BY <3>1 DEF TypeOK
      <3>5. QED
        BY <2>1, <3>2, <3>3, <3>4, SettleStep
    <2>3. CASE ~(slotOf[p] \in DOMAIN workers /\ m.task \in pendingTasks)
      BY <1>3, <2>1, <2>3 DEF HandleMessage
    <2>4. QED
      BY <2>2, <2>3
  <1>4. ASSUME NEW p \in Procs, HandleExit(p)
        PROVE  Job!Next \/ UNCHANGED <<outcome, (pc = "released")>>
    <2>1. /\ pc # "released" /\ pc' # "released"
          /\ outcome' = [f \in Files |-> IF f \in Rejected(p) THEN "main" ELSE outcome[f]]
      BY <1>4 DEF HandleExit, EventLoop, Awaiting
    <2>2. Rejected(p) \in SUBSET (Files \ Settled)
      BY <2>1 DEF Rejected, TypeOK, TaskAccounting
    <2>3. CASE Rejected(p) = {}
      BY <2>1, <2>3 DEF TypeOK
    <2>4. CASE Rejected(p) # {}
      BY <2>1, <2>2, <2>4, SettleStep
    <2>5. QED
      BY <2>3, <2>4
  <1>5. ASSUME NEW p \in Procs, HandleError(p) \/ Answer(p) \/ Crash(p)
        PROVE  UNCHANGED <<outcome, (pc = "released")>>
    BY <1>5 DEF HandleError, Answer, Crash, clientVars
  <1>6. CASE UNCHANGED vars
    BY <1>6 DEF vars, clientVars
  <1>7. QED
    BY <1>1, <1>2, <1>3, <1>4, <1>5, <1>6 DEF Next

\* Whatever children die, a file is settled once and for good, and the pool
\* is released only after every file is settled.
THEOREM ImplementsParseJob == Spec => JobSafety
  BY TypeCorrect, AccountingHolds, InitRefines, NextRefines, PTL
     DEF Spec, JobSafety, Job!Spec

-----------------------------------------------------------------------------
(* No wakeup is lost while no child has died *)

\* While no child has died there is no exit and no failed send to handle.
Undisturbed ==
  crashes = 0 =>
    /\ exitPending = {}
    /\ errorPending = {}
    /\ \A i \in DOMAIN workers : workers[i].proc \in up

WakeupInv == TypeOK /\ Undisturbed /\ NoLostWakeup

\* Handing a task to a running child keeps the system undisturbed.
LEMMA ProcessNextTaskUndisturbed ==
  ASSUME NEW q \in Seq(Files), NEW w \in Seq(SlotRec), NEW pd,
         \A i \in DOMAIN w : w[i].proc \in up,
         exitPending = {}, errorPending = {},
         ProcessNextTask(q, w, pd)
  PROVE  /\ errorPending' = {}
         /\ \A i \in DOMAIN workers' : workers'[i].proc \in up
  <1>1. CASE q = <<>> \/ Idle(w) = {}
    BY <1>1 DEF ProcessNextTask
  <1>2. CASE ~(q = <<>> \/ Idle(w) = {})
    <2>1. PICK i \in DOMAIN w : workers' = Occupy(w, i) /\ Send(w[i].proc, Head(q))
      BY <1>2 DEF ProcessNextTask
    <2>2. errorPending' = {}
      BY <2>1 DEF Send
    <2>3. QED
      BY <2>1, <2>2, OccupyProperties
  <1>3. QED
    BY <1>1, <1>2

\* If at most one task waits or at most one slot is idle, processNextTask()
\* leaves no task waiting beside an idle slot.
LEMMA ProcessNextTaskWakes ==
  ASSUME NEW q \in Seq(Files), NEW w \in Seq(SlotRec), NEW pd,
         ProcessNextTask(q, w, pd),
         \/ q = <<>>
         \/ \E f \in Files : q = Append(<<>>, f)
         \/ Idle(w) = {}
         \/ \E i : Idle(w) = {i}
  PROVE  taskQueue' # <<>> => Idle(workers') = {}
  <1>1. CASE q = <<>> \/ Idle(w) = {}
    BY <1>1 DEF ProcessNextTask
  <1>2. CASE ~(q = <<>> \/ Idle(w) = {})
    <2>1. PICK i \in DOMAIN w :
            Selected(w, i) /\ workers' = Occupy(w, i) /\ taskQueue' = Tail(q)
      BY <1>2 DEF ProcessNextTask, Dequeued
    <2>2. Idle(workers') = Idle(w) \ {i} /\ i \in Idle(w)
      BY <2>1, OccupyProperties DEF Selected
    <2>3. CASE \E f \in Files : q = Append(<<>>, f)
      <3>1. Tail(q) = <<>>
        BY <2>3
      <3>2. QED
        BY <2>1, <3>1
    <2>4. CASE \E j : Idle(w) = {j}
      BY <2>2, <2>4
    <2>5. QED
      BY <1>2, <2>3, <2>4
  <1>3. QED
    BY <1>1, <1>2

LEMMA InitWakeup == Init => WakeupInv
  <1> SUFFICES ASSUME Init PROVE WakeupInv
    OBVIOUS
  <1>1. \A i \in DOMAIN workers : workers[i].proc \in up
    <2>1. PICK order \in [1 .. Cardinality(up) -> up] :
            workers = [i \in DOMAIN order |-> Slot(order[i], FALSE)]
      BY DEF Init
    <2>2. \A i \in 1 .. Cardinality(up) : order[i] \in up
      OBVIOUS
    <2>3. QED
      BY <2>1, <2>2 DEF Slot
  <1>2. QED
    BY <1>1, InitType DEF WakeupInv, Undisturbed, NoLostWakeup, Init

LEMMA NextWakeup == WakeupInv /\ [Next]_vars => WakeupInv'
  <1> SUFFICES ASSUME WakeupInv, [Next]_vars PROVE WakeupInv'
    OBVIOUS
  <1> DEFINE Goal == /\ exitPending' = {}
                     /\ errorPending' = {}
                     /\ \A i \in DOMAIN workers' : workers'[i].proc \in up'
                     /\ taskQueue' # <<>> => Idle(workers') = {}
  <1>1. SUFFICES ASSUME crashes' = 0, crashes = 0 PROVE Goal
    <2>1. TypeOK'
      BY NextType DEF WakeupInv
    <2>2. crashes' = 0 => crashes = 0
      <3>1. \A p \in Procs : Crash(p) => crashes' = crashes + 1
        BY DEF Crash
      <3>2. \/ UNCHANGED crashes
            \/ crashes' = crashes + 1
        BY <3>1 DEF Next, vars, childVars, SubmitTask, Terminate,
                    HandleMessage, HandleExit, HandleError, Answer
      <3>3. QED
        BY <3>2 DEF WakeupInv, TypeOK
    <2>3. Idle(workers') = {} => Busy(workers') = DOMAIN workers'
      BY DEF Idle, Busy
    <2>4. QED
      BY <2>1, <2>2, <2>3 DEF WakeupInv, Undisturbed, NoLostWakeup
  <1>2. /\ exitPending = {}
        /\ errorPending = {}
        /\ \A i \in DOMAIN workers : workers[i].proc \in up
        /\ taskQueue \in Seq(Files)
        /\ workers \in Seq(SlotRec)
        /\ taskQueue # <<>> => Idle(workers) = {}
    BY <1>1 DEF WakeupInv, Undisturbed, NoLostWakeup, TypeOK, SlotRec, Idle
  <1>3. ASSUME NEW f \in Files, SubmitTask(f) PROVE Goal
    <2>1. UNCHANGED <<exitPending, up>>
      BY <1>3 DEF SubmitTask
    <2>2. CASE oomCount >= OOM_LIMIT
      BY <1>2, <1>3, <2>1, <2>2 DEF SubmitTask
    <2>3. CASE ~(oomCount >= OOM_LIMIT)
      <3> DEFINE q == Append(taskQueue, f)
      <3>1. ProcessNextTask(q, workers, pendingTasks)
        BY <1>3, <2>3 DEF SubmitTask
      <3>2. q \in Seq(Files)
        BY <1>2, AppendProperties
      <3>3. Idle(workers) = {} \/ q = Append(<<>>, f)
        BY <1>2
      <3>4. taskQueue' # <<>> => Idle(workers') = {}
        BY <1>2, <3>1, <3>2, <3>3, ProcessNextTaskWakes
      <3>5. /\ errorPending' = {}
            /\ \A i \in DOMAIN workers' : workers'[i].proc \in up
        BY <1>2, <3>1, <3>2, ProcessNextTaskUndisturbed
      <3>6. QED
        BY <1>2, <2>1, <3>4, <3>5
    <2>4. QED
      BY <2>2, <2>3
  <1>4. CASE Terminate
    BY <1>2, <1>4 DEF Terminate
  <1>5. ASSUME NEW p \in Procs, HandleMessage(p) PROVE Goal
    <2> DEFINE m == Head(outbox[p])
               w == Vacate(workers, slotOf[p])
    <2>1. UNCHANGED <<exitPending, up>>
      BY <1>5 DEF HandleMessage
    <2>2. CASE slotOf[p] \in DOMAIN workers /\ m.task \in pendingTasks
      <3>1. ProcessNextTask(taskQueue, w, Unanswered(m.task))
        BY <1>5, <2>2 DEF HandleMessage
      <3>2. /\ w \in Seq(SlotRec)
            /\ DOMAIN w = DOMAIN workers
            /\ \A j \in DOMAIN workers : w[j].proc = workers[j].proc
            /\ Idle(w) = Idle(workers) \cup ({slotOf[p]} \cap DOMAIN workers)
        BY <1>2, VacateProperties
      <3>3. taskQueue = <<>> \/ Idle(w) = {slotOf[p]}
        BY <1>2, <2>2, <3>2
      <3> HIDE DEF w, m
      <3>4. taskQueue' # <<>> => Idle(workers') = {}
        BY <1>2, <3>1, <3>2, <3>3, ProcessNextTaskWakes
      <3>5. /\ errorPending' = {}
            /\ \A i \in DOMAIN workers' : workers'[i].proc \in up
        <4>1. \A i \in DOMAIN w : w[i].proc \in up
          BY <1>2, <3>2
        <4>2. QED
          BY <1>2, <3>1, <3>2, <4>1, ProcessNextTaskUndisturbed
      <3>6. QED
        BY <1>2, <2>1, <3>4, <3>5
    <2>3. CASE ~(slotOf[p] \in DOMAIN workers /\ m.task \in pendingTasks)
      BY <1>2, <1>5, <2>1, <2>3 DEF HandleMessage
    <2>4. QED
      BY <2>2, <2>3
  <1>6. ASSUME NEW p \in Procs, HandleExit(p) \/ HandleError(p) PROVE Goal
    BY <1>2, <1>6 DEF HandleExit, HandleError
  <1>7. ASSUME NEW p \in Procs, Answer(p) PROVE Goal
    BY <1>2, <1>7 DEF Answer, poolVars
  <1>8. ASSUME NEW p \in Procs, Crash(p) PROVE Goal
    BY <1>1, <1>8 DEF Crash
  <1>9. CASE UNCHANGED vars
    BY <1>2, <1>9 DEF vars, poolVars, childVars
  <1>10. QED
    BY <1>3, <1>4, <1>5, <1>6, <1>7, <1>8, <1>9 DEF Next

\* While no child has died, a task waits only if every slot is busy.
THEOREM NoWakeupIsLost == Spec => []NoLostWakeup
  <1>1. WakeupInv => NoLostWakeup
    BY DEF WakeupInv
  <1>2. QED
    BY <1>1, InitWakeup, NextWakeup, PTL DEF Spec
-----------------------------------------------------------------------------
(* One child per task and one task per child *)

\* The tasks of child p under the channels ib and ob.
Held(ib, ob, p) ==
  {ib[p][i] : i \in DOMAIN ib[p]} \cup {ob[p][i].task : i \in DOMAIN ob[p]}

\* The children that run or whose 'exit' event is still to come.
InService == up \cup exitPending

\* Slots and children agree: the child in slot i was forked for slot i, and
\* every child in service is in its slot.
Manned(w) ==
  /\ DOMAIN w = 1 .. MaxWorkers
  /\ up \cap exitPending = {}
  /\ InService \subseteq 1 .. nprocs
  /\ \A i \in DOMAIN w : w[i].proc \in 1 .. nprocs /\ slotOf[w[i].proc] = i
  /\ \A p \in InService : w[slotOf[p]].proc = p

Load(ib, ob, p) == Len(ib[p]) + Len(ob[p])

\* A child holds one task at most, two children none in common.
Apart(ib, ob) ==
  /\ \A p \in Procs : Load(ib, ob, p) <= 1
  /\ \A p, q \in Procs : p # q => Held(ib, ob, p) \cap Held(ib, ob, q) = {}

\* A child in an idle slot holds nothing, a child out of service nothing that
\* is not settled.
Channels(w, pd, st, ib, ob) ==
  /\ Apart(ib, ob)
  /\ \A p \in Procs \ up : ib[p] = <<>>
  /\ \A p \in Procs : p > nprocs => ob[p] = <<>>
  /\ \A p \in InService : ~w[slotOf[p]].busy => ib[p] = <<>> /\ ob[p] = <<>>
  /\ \A p \in Procs : /\ Held(ib, ob, p) \subseteq pd \cup st
                      /\ p \notin InService => Held(ib, ob, p) \subseteq st

\* A pending task is with the child of a busy slot, or died with it.
Served(w, pd, ib, ob) ==
  \A f \in pd : \E i \in Busy(w) :
    \/ f \in Held(ib, ob, w[i].proc)
    \/ w[i].proc \in exitPending /\ ib[w[i].proc] = <<>> /\ ob[w[i].proc] = <<>>

OnDuty ==
  /\ Manned(workers)
  /\ Channels(workers, pendingTasks, Settled, inbox, outbox)
  /\ errorPending = {} => Served(workers, pendingTasks, inbox, outbox)

CalmInv ==
  /\ TypeOK
  /\ TaskAccounting
  /\ Calm => IF pc = "released" THEN up = {} /\ Apart(inbox, outbox) /\ pendingTasks = {} ELSE OnDuty

InboxType  == [Procs -> Seq(Files)]
OutboxType == [Procs -> Seq(AnswerRec)]

\* A child with empty channels holds nothing.
LEMMA HeldNothing ==
  ASSUME NEW ib, NEW ob, NEW p, ib[p] = <<>>, ob[p] = <<>>
  PROVE  Held(ib, ob, p) = {}
  <1>1. DOMAIN <<>> = {}
    BY EmptySeq, LenProperties
  <1>2. QED
    BY <1>1 DEF Held

Sent(ib, p, f) == [ib EXCEPT ![p] = Append(@, f)]

\* Sending to a child that holds nothing gives it one task.
LEMMA HeldSent ==
  ASSUME NEW ib \in InboxType, NEW ob \in OutboxType, NEW p \in Procs, NEW f \in Files,
         ib[p] = <<>>, ob[p] = <<>>
  PROVE  /\ Held(Sent(ib, p, f), ob, p) = {f}
         /\ Load(Sent(ib, p, f), ob, p) = 1
         /\ \A q \in Procs : q # p => /\ Sent(ib, p, f)[q] = ib[q]
                                     /\ Held(Sent(ib, p, f), ob, q) = Held(ib, ob, q)
                                     /\ Load(Sent(ib, p, f), ob, q) = Load(ib, ob, q)
  <1>1. Sent(ib, p, f)[p] = Append(<<>>, f) /\ \A q \in Procs : q # p => Sent(ib, p, f)[q] = ib[q]
    <2>1. Sent(ib, p, f) = [q \in Procs |-> IF q = p THEN Append(ib[p], f) ELSE ib[q]]
      BY DEF InboxType, Sent
    <2>2. QED
      BY <2>1
  <1>2. <<>> \in Seq(Files) /\ Len(<<>>) = 0 /\ DOMAIN <<>> = {}
    BY EmptySeq, LenProperties
  <1>3. Sent(ib, p, f)[p] \in Seq(Files) /\ Len(Sent(ib, p, f)[p]) = 1 /\ Sent(ib, p, f)[p][1] = f
    BY <1>1, <1>2, AppendProperties
  <1>4. DOMAIN Sent(ib, p, f)[p] = {1}
    BY <1>3, LenProperties
  <1>5. Held(Sent(ib, p, f), ob, p) = {f}
    BY <1>2, <1>3, <1>4 DEF Held
  <1>6. Load(Sent(ib, p, f), ob, p) = 1
    BY <1>2, <1>3 DEF Load
  <1>7. ASSUME NEW q \in Procs, q # p
        PROVE  /\ Held(Sent(ib, p, f), ob, q) = Held(ib, ob, q)
               /\ Load(Sent(ib, p, f), ob, q) = Load(ib, ob, q)
    BY <1>1, <1>7, Zenon DEF Held, Load
  <1>8. QED
    BY <1>1, <1>5, <1>6, <1>7

\* Two lengths that make one at most.
LEMMA AtMostOne ==
  ASSUME NEW a \in Nat \ {0}, NEW b \in Nat, a + b <= 1 \/ b + a <= 1
  PROVE  a = 1 /\ b = 0
  OBVIOUS

\* A child with an answer on its way holds the task of that answer only.
LEMMA HeldAnswered ==
  ASSUME NEW ib \in InboxType, NEW ob \in OutboxType, NEW p \in Procs,
         Load(ib, ob, p) <= 1, ob[p] # <<>>
  PROVE  /\ ib[p] = <<>> /\ Len(ob[p]) = 1 /\ Tail(ob[p]) = <<>>
         /\ Head(ob[p]).task \in Files
         /\ Held(ib, ob, p) = {Head(ob[p]).task}
  <1>1. ib[p] \in Seq(Files) /\ ob[p] \in Seq(AnswerRec)
    BY DEF InboxType, OutboxType
  <1>2. Len(ob[p]) \in Nat \ {0} /\ Len(ib[p]) \in Nat
    BY <1>1, EmptySeq, LenProperties
  <1>3. Len(ob[p]) = 1 /\ Len(ib[p]) = 0
    BY <1>2, AtMostOne, Zenon DEF Load
  <1>4. ib[p] = <<>>
    BY <1>1, <1>3, EmptySeq
  <1>5. Tail(ob[p]) \in Seq(AnswerRec) /\ Len(Tail(ob[p])) = 0 /\ Head(ob[p]) \in AnswerRec
    BY <1>1, <1>3, HeadTailProperties
  <1>6. Tail(ob[p]) = <<>>
    BY <1>5, EmptySeq
  <1>7. DOMAIN ob[p] = {1} /\ Head(ob[p]) = ob[p][1]
    BY <1>1, <1>3, LenProperties
  <1>8. DOMAIN ib[p] = {}
    BY <1>1, <1>3, LenProperties
  <1>9. Held(ib, ob, p) = {Head(ob[p]).task}
    BY <1>7, <1>8 DEF Held
  <1>10. QED
    BY <1>3, <1>4, <1>5, <1>6, <1>9 DEF AnswerRec

\* A child with a task in its channel holds that task only.
LEMMA HeldAsked ==
  ASSUME NEW ib \in InboxType, NEW ob \in OutboxType, NEW p \in Procs,
         Load(ib, ob, p) <= 1, ib[p] # <<>>
  PROVE  /\ ob[p] = <<>> /\ Tail(ib[p]) = <<>>
         /\ Held(ib, ob, p) = {Head(ib[p])}
  <1>1. ib[p] \in Seq(Files) /\ ob[p] \in Seq(AnswerRec)
    BY DEF InboxType, OutboxType
  <1>2. Len(ib[p]) \in Nat \ {0} /\ Len(ob[p]) \in Nat
    BY <1>1, EmptySeq, LenProperties
  <1>3. Len(ib[p]) = 1 /\ Len(ob[p]) = 0
    BY <1>2, AtMostOne, Zenon DEF Load
  <1>4. ob[p] = <<>>
    BY <1>1, <1>3, EmptySeq
  <1>5. Tail(ib[p]) \in Seq(Files) /\ Len(Tail(ib[p])) = 0
    BY <1>1, <1>3, HeadTailProperties
  <1>6. Tail(ib[p]) = <<>>
    BY <1>5, EmptySeq
  <1>7. DOMAIN ib[p] = {1} /\ Head(ib[p]) = ib[p][1]
    BY <1>1, <1>3, LenProperties
  <1>8. DOMAIN ob[p] = {}
    BY <1>1, <1>3, LenProperties
  <1>9. QED
    BY <1>4, <1>6, <1>7, <1>8 DEF Held

\* processNextTask() sends the head of the queue to a child that holds nothing.
LEMMA ProcessNextTaskOnDuty ==
  ASSUME TypeOK, NEW q \in Seq(Files), NEW w \in Seq(SlotRec), NEW pd \in SUBSET Files,
         NEW st, NEW ob \in OutboxType,
         Manned(w), Channels(w, pd, st, inbox, ob),
         errorPending = {} => Served(w, pd, inbox, ob),
         q # <<>> => Head(q) \notin pd \cup st,
         ProcessNextTask(q, w, pd)
  PROVE  /\ Manned(workers')
         /\ Channels(workers', pendingTasks', st, inbox', ob)
         /\ errorPending' = {} => Served(workers', pendingTasks', inbox', ob)
  <1>1. CASE q = <<>> \/ Idle(w) = {}
    <2>1. /\ workers' = w /\ pendingTasks' = pd
          /\ inbox' = inbox /\ errorPending' = errorPending
      BY <1>1 DEF ProcessNextTask
    <2>2. QED
      BY <2>1
  <1>2. CASE ~(q = <<>> \/ Idle(w) = {})
    <2> DEFINE f == Head(q)
    <2>1. PICK i \in DOMAIN w :
            /\ i \in Idle(w)
            /\ workers' = Occupy(w, i)
            /\ pendingTasks' = pd \cup {f}
            /\ Send(w[i].proc, f)
      BY <1>2 DEF ProcessNextTask, Selected
    <2> DEFINE c == w[i].proc
    <2>2. f \in Files /\ f \notin pd \cup st
      BY <1>2, HeadTailProperties
    <2>3. c \in Procs /\ slotOf[c] = i
      <3>1. i \in 1 .. Len(w)
        BY LenProperties
      <3>2. w[i] \in SlotRec
        BY <3>1, ElementOfSeq
      <3>3. QED
        BY <3>2 DEF SlotRec, Manned
    <2>4. /\ DOMAIN workers' = DOMAIN w
          /\ \A j \in DOMAIN w : workers'[j].proc = w[j].proc
          /\ Busy(workers') = Busy(w) \cup {i}
      <3>1. /\ DOMAIN workers' = DOMAIN w
            /\ \A j \in DOMAIN w : workers'[j].proc = w[j].proc
            /\ Idle(workers') = Idle(w) \ {i}
        BY <2>1, OccupyProperties
      <3>2. /\ Busy(w) = DOMAIN w \ Idle(w)
            /\ Busy(workers') = DOMAIN workers' \ Idle(workers')
        BY DEF Idle, Busy
      <3>3. QED
        BY <3>1, <3>2
    <2>5. \A j \in DOMAIN w : ~workers'[j].busy => ~w[j].busy /\ j # i
      BY <2>4 DEF Busy
    <2>6. Manned(workers')
      BY <2>4 DEF Manned, InService, TypeOK
    <2>7. \A p \in InService : slotOf[p] \in DOMAIN w
      BY DEF Manned, InService, TypeOK
    <2>8. c \in InService => inbox[c] = <<>> /\ ob[c] = <<>>
      BY <2>1, <2>3 DEF Channels, Idle, Busy
    <2>9. CASE c \in up /\ inbox' = [inbox EXCEPT ![c] = Append(@, f)] /\ UNCHANGED errorPending
      <3>1. inbox[c] = <<>> /\ ob[c] = <<>> /\ c \in InService
        BY <2>8, <2>9 DEF InService
      <3>2. /\ Held(inbox', ob, c) = {f}
            /\ Load(inbox', ob, c) = 1
            /\ \A p \in Procs : p # c => /\ inbox'[p] = inbox[p]
                                        /\ Held(inbox', ob, p) = Held(inbox, ob, p)
                                        /\ Load(inbox', ob, p) = Load(inbox, ob, p)
        <4>1. inbox \in InboxType
          BY DEF TypeOK, InboxType
        <4>2. /\ c \in Procs /\ f \in Files
              /\ inbox' = Sent(inbox, c, f)
          BY <2>2, <2>3, <2>9 DEF Sent
        <4> HIDE DEF c, f
        <4>3. /\ Held(Sent(inbox, c, f), ob, c) = {f}
              /\ Load(Sent(inbox, c, f), ob, c) = 1
              /\ \A p \in Procs : p # c =>
                   /\ Sent(inbox, c, f)[p] = inbox[p]
                   /\ Held(Sent(inbox, c, f), ob, p) = Held(inbox, ob, p)
                   /\ Load(Sent(inbox, c, f), ob, p) = Load(inbox, ob, p)
          BY <3>1, <4>1, <4>2, HeldSent
        <4>4. QED
          BY <4>2, <4>3, Zenon
      <3> HIDE DEF c, f
      <3>3. \A p \in Procs : p # c => f \notin Held(inbox, ob, p)
        BY <2>2 DEF Channels
      <3>4. Apart(inbox', ob)
        BY <3>2, <3>3 DEF Channels, Apart
      <3>5. \A p \in InService : ~workers'[slotOf[p]].busy => inbox'[p] = <<>> /\ ob[p] = <<>>
        <4>1. \A p \in InService : p \in Procs
          BY DEF InService, TypeOK
        <4>2. QED
          BY <2>3, <2>5, <2>7, <3>2, <4>1 DEF Channels
      <3>6. Channels(workers', pendingTasks', st, inbox', ob)
        BY <2>1, <2>9, <3>1, <3>2, <3>4, <3>5 DEF Channels
      <3>7. ASSUME errorPending' = {} PROVE Served(workers', pendingTasks', inbox', ob)
        <4>1. Served(w, pd, inbox, ob)
          BY <2>9, <3>7
        <4> SUFFICES ASSUME NEW g \in pd \cup {f}
                     PROVE  \E j \in Busy(workers') :
                              \/ g \in Held(inbox', ob, workers'[j].proc)
                              \/ /\ workers'[j].proc \in exitPending
                                 /\ inbox'[workers'[j].proc] = <<>>
                                 /\ ob[workers'[j].proc] = <<>>
          BY <2>1 DEF Served
        <4>2. CASE g = f
          <5>1. i \in Busy(workers') /\ workers'[i].proc = c
            BY <2>4 DEF c
          <5>2. QED
            BY <3>2, <4>2, <5>1
        <4>3. CASE g # f
          <5>1. PICK j \in Busy(w) :
                  \/ g \in Held(inbox, ob, w[j].proc)
                  \/ w[j].proc \in exitPending /\ inbox[w[j].proc] = <<>> /\ ob[w[j].proc] = <<>>
            BY <4>1, <4>3 DEF Served
          <5>2. j # i /\ j \in DOMAIN w
            BY <2>1 DEF Idle, Busy
          <5>3. slotOf[w[j].proc] = j /\ w[j].proc \in Procs
            <6>1. 1 .. nprocs \subseteq Procs
              BY PoolAssumption DEF Procs, TypeOK
            <6>2. QED
              BY <5>2, <6>1 DEF Manned
          <5>4. w[j].proc # c
            BY <2>3, <5>2, <5>3
          <5>5. QED
            BY <2>4, <3>2, <5>1, <5>2, <5>3, <5>4
        <4>4. QED
          BY <4>2, <4>3
      <3>8. QED
        BY <2>6, <3>6, <3>7
    <2>10. CASE inbox' = inbox /\ (c \in exitPending \/ errorPending' # {})
      <3> HIDE DEF c, f
      <3>1. \A p \in InService : ~workers'[slotOf[p]].busy => inbox'[p] = <<>> /\ ob[p] = <<>>
        BY <2>5, <2>7, <2>10 DEF Channels
      <3>2. Channels(workers', pendingTasks', st, inbox', ob)
        BY <2>1, <2>10, <3>1 DEF Channels
      <3>3. ASSUME errorPending' = {} PROVE Served(workers', pendingTasks', inbox', ob)
        <4>1. c \in exitPending /\ inbox[c] = <<>> /\ ob[c] = <<>>
          BY <2>8, <2>10, <3>3 DEF InService
        <4>2. errorPending = {}
          BY <2>1, <3>3 DEF Send
        <4>3. i \in Busy(workers') /\ workers'[i].proc = c
          BY <2>4 DEF c
        <4>4. \A j \in Busy(w) : j \in Busy(workers') /\ workers'[j].proc = w[j].proc
          BY <2>4 DEF Busy
        <4>5. QED
          BY <2>1, <2>10, <4>1, <4>2, <4>3, <4>4 DEF Served
      <3>4. QED
        BY <2>6, <3>2, <3>3
    <2>11. QED
      BY <2>1, <2>9, <2>10 DEF Send
  <1>3. QED
    BY <1>1, <1>2

Read(ob, p) == [ob EXCEPT ![p] = Tail(@)]

\* What is left of the channels once the answer of child p was read.
LEMMA HeldRead ==
  ASSUME NEW ib \in InboxType, NEW ob \in OutboxType, NEW p \in Procs,
         Load(ib, ob, p) <= 1, ob[p] # <<>>
  PROVE  /\ Read(ob, p) \in OutboxType
         /\ ib[p] = <<>> /\ Read(ob, p)[p] = <<>>
         /\ Held(ib, Read(ob, p), p) = {}
         /\ Load(ib, Read(ob, p), p) <= 1
         /\ \A q \in Procs : q # p => /\ Read(ob, p)[q] = ob[q]
                                     /\ Held(ib, Read(ob, p), q) = Held(ib, ob, q)
                                     /\ Load(ib, Read(ob, p), q) = Load(ib, ob, q)
  <1> DEFINE read == Read(ob, p)
  <1>1. ib[p] = <<>> /\ Tail(ob[p]) = <<>>
    BY HeldAnswered
  <1>2. read = [q \in Procs |-> IF q = p THEN <<>> ELSE ob[q]]
    BY <1>1 DEF OutboxType, Read
  <1>3. read[p] = <<>> /\ \A q \in Procs : q # p => read[q] = ob[q]
    BY <1>2
  <1>4. read \in OutboxType
    BY <1>2, EmptySeq DEF OutboxType
  <1> HIDE DEF read
  <1>5. Held(ib, read, p) = {}
    BY <1>1, <1>3, HeldNothing
  <1>6. Load(ib, read, p) <= 1
    <2>1. Len(<<>>) = 0
      BY EmptySeq
    <2>2. QED
      BY <1>1, <1>3, <2>1 DEF Load
  <1>7. ASSUME NEW q \in Procs, q # p
        PROVE  Held(ib, read, q) = Held(ib, ob, q) /\ Load(ib, read, q) = Load(ib, ob, q)
    BY <1>3, <1>7, Zenon DEF Held, Load
  <1>8. QED
    BY <1>1, <1>3, <1>4, <1>5, <1>6, <1>7 DEF read

\* The channels once child p took the task at the head of its inbox, and
\* answered it.
Taken(ib, p) == [ib EXCEPT ![p] = Tail(@)]
Replied(ib, ob, p, k) == [ob EXCEPT ![p] = Append(@, [task |-> Head(ib[p]), kind |-> k])]

\* An answer moves the one task of child p from its inbox to its outbox.
LEMMA HeldReplied ==
  ASSUME NEW ib \in InboxType, NEW ob \in OutboxType, NEW p \in Procs, NEW k \in Answers,
         Load(ib, ob, p) <= 1, ib[p] # <<>>
  PROVE  /\ Taken(ib, p)[p] = <<>>
         /\ Len(Replied(ib, ob, p, k)[p]) = 1
         /\ Held(Taken(ib, p), Replied(ib, ob, p, k), p) = Held(ib, ob, p)
         /\ Load(Taken(ib, p), Replied(ib, ob, p, k), p) <= 1
         /\ \A q \in Procs : q # p =>
              /\ Taken(ib, p)[q] = ib[q] /\ Replied(ib, ob, p, k)[q] = ob[q]
              /\ Held(Taken(ib, p), Replied(ib, ob, p, k), q) = Held(ib, ob, q)
              /\ Load(Taken(ib, p), Replied(ib, ob, p, k), q) = Load(ib, ob, q)
  <1> DEFINE a   == [task |-> Head(ib[p]), kind |-> k]
             ib2 == Taken(ib, p)
             ob2 == Replied(ib, ob, p, k)
  <1>1. ob[p] = <<>> /\ Tail(ib[p]) = <<>> /\ Held(ib, ob, p) = {Head(ib[p])}
    BY HeldAsked
  <1>2. a \in AnswerRec /\ a.task = Head(ib[p])
    <2>1. Head(ib[p]) \in Files
      BY HeadTailProperties DEF InboxType
    <2>2. QED
      BY <2>1 DEF AnswerRec
  <1>3. ib2[p] = <<>> /\ \A q \in Procs : q # p => ib2[q] = ib[q]
    BY <1>1 DEF InboxType, Taken
  <1>4. ob2[p] = Append(<<>>, a) /\ \A q \in Procs : q # p => ob2[q] = ob[q]
    BY <1>1 DEF OutboxType, Replied
  <1> HIDE DEF a, ib2, ob2
  <1>5. ob2[p] \in Seq(AnswerRec) /\ Len(ob2[p]) = 1 /\ ob2[p][1] = a
    <2>1. <<>> \in Seq(AnswerRec) /\ Len(<<>>) = 0
      BY EmptySeq
    <2>2. QED
      BY <1>2, <1>4, <2>1, AppendProperties
  <1>6. Held(ib2, ob2, p) = Held(ib, ob, p)
    <2>1. DOMAIN ob2[p] = {1}
      BY <1>5, LenProperties
    <2>2. DOMAIN ib2[p] = {}
      BY <1>3, EmptySeq, LenProperties
    <2>3. QED
      BY <1>1, <1>2, <1>5, <2>1, <2>2 DEF Held
  <1>7. Load(ib2, ob2, p) <= 1
    <2>1. Len(ib2[p]) = 0
      BY <1>3, EmptySeq
    <2>2. QED
      BY <1>5, <2>1 DEF Load
  <1>8. ASSUME NEW q \in Procs, q # p
        PROVE  Held(ib2, ob2, q) = Held(ib, ob, q) /\ Load(ib2, ob2, q) = Load(ib, ob, q)
    <2>1. ib2[q] = ib[q] /\ ob2[q] = ob[q]
      BY <1>3, <1>4, <1>8
    <2>2. QED
      BY <2>1, Zenon DEF Held, Load
  <1>9. QED
    BY <1>3, <1>4, <1>5, <1>6, <1>7, <1>8 DEF ib2, ob2

\* The elements of an initial segment below one of them.
LEMMA Below ==
  ASSUME NEW n \in Nat, NEW k \in 1 .. n
  PROVE  {x \in 1 .. n : x < k} = 1 .. k - 1
  OBVIOUS

LEMMA InitOnDuty == Init => CalmInv
  <1> SUFFICES ASSUME Init, forkFailures = 0 PROVE OnDuty
    BY InitType, InitAccounting DEF Init, CalmInv, Calm
  <1>1. PICK failed \in SUBSET (1 .. MaxWorkers) :
          forkFailures = Cardinality(failed) /\ up = (1 .. MaxWorkers) \ failed
    BY DEF Init
  <1>2. up = 1 .. MaxWorkers
    <2>1. IsFiniteSet(1 .. MaxWorkers)
      BY PoolAssumption, FS_Interval
    <2>2. IsFiniteSet(failed)
      BY <2>1, FS_Subset
    <2>3. failed = {}
      BY <1>1, <2>2, FS_EmptySet
    <2>4. QED
      BY <1>1, <2>3
  <1>3. Cardinality(up) = MaxWorkers
    BY <1>2, PoolAssumption, FS_Interval
  <1>4. PICK order \in [1 .. MaxWorkers -> 1 .. MaxWorkers] :
          /\ \A i \in 1 .. MaxWorkers : Cardinality({p \in up : p < order[i]}) = i - 1
          /\ workers = [i \in 1 .. MaxWorkers |-> Slot(order[i], FALSE)]
    BY <1>2, <1>3 DEF Init
  <1>5. ASSUME NEW i \in 1 .. MaxWorkers PROVE order[i] = i
    <2>1. order[i] \in 1 .. MaxWorkers
      BY <1>4
    <2>2. {p \in up : p < order[i]} = 1 .. order[i] - 1
      BY <1>2, <2>1, Below, PoolAssumption
    <2>3. Cardinality(1 .. order[i] - 1) = order[i] - 1
      BY <2>1, FS_Interval
    <2>4. QED
      BY <1>4, <2>1, <2>2, <2>3
  <1>6. \A i \in 1 .. MaxWorkers : workers[i].proc = i /\ ~workers[i].busy
    BY <1>4, <1>5 DEF Slot
  <1>7. DOMAIN workers = 1 .. MaxWorkers
    BY <1>4
  <1>8. 1 .. MaxWorkers \subseteq Procs /\ exitPending = {} /\ nprocs = MaxWorkers
    BY PoolAssumption DEF Procs, Init
  <1>9. \A p \in 1 .. MaxWorkers : slotOf[p] = p
    BY <1>8 DEF Init
  <1>10. Manned(workers)
    BY <1>2, <1>6, <1>7, <1>8, <1>9 DEF Manned, InService
  <1>11. \A p \in Procs : inbox[p] = <<>> /\ outbox[p] = <<>>
    BY DEF Init
  <1>12. \A p \in Procs : Held(inbox, outbox, p) = {} /\ Load(inbox, outbox, p) <= 1
    <2>1. Len(<<>>) = 0
      BY EmptySeq
    <2>2. \A p \in Procs : Held(inbox, outbox, p) = {}
      BY <1>11, HeldNothing
    <2>3. \A p \in Procs : Load(inbox, outbox, p) = Len(<<>>) + Len(<<>>)
      BY <1>11, Zenon DEF Load
    <2>4. QED
      BY <2>1, <2>2, <2>3
  <1>13. Channels(workers, pendingTasks, Settled, inbox, outbox)
    BY <1>2, <1>8, <1>11, <1>12 DEF Channels, Apart, InService
  <1>14. Served(workers, pendingTasks, inbox, outbox)
    BY DEF Served, Init
  <1>15. QED
    BY <1>10, <1>13, <1>14 DEF OnDuty

\* What the exit of child p and the fork for its slot leave: slots and
\* children agree, other slots are as they were and p's slot is idle.
LEMMA ExitKeepsOrder ==
  ASSUME TypeOK, OnDuty, NEW p \in Procs, HandleExit(p), forkFailures' = 0,
         forkFailures = 0
  PROVE  /\ slotOf[p] \in DOMAIN workers /\ workers[slotOf[p]].proc = p
         /\ p \notin up
         /\ Manned(workers)'
         /\ \A j \in DOMAIN workers : j # slotOf[p] => workers'[j] = workers[j]
         /\ ~workers'[slotOf[p]].busy
         /\ DOMAIN workers' = DOMAIN workers
         /\ nprocs <= nprocs'
         /\ \A q \in Procs : q \in InService' =>
              \/ q \in InService /\ q # p /\ slotOf'[q] = slotOf[q] /\ slotOf[q] # slotOf[p]
              \/ q > nprocs /\ slotOf'[q] = slotOf[p]
         /\ \A q \in Procs : q \in up => q \in up'
         /\ \A q \in InService : q # p => q \in InService'
  <1> DEFINE id == slotOf[p]
             w == Vacate(workers, id)
  <1>1. /\ p \in exitPending /\ exitPending' = exitPending \ {p}
        /\ \/ workers' = w /\ UNCHANGED <<forkVars, up>>
           \/ CreateWorker(id, w, up)
    BY DEF HandleExit
  <1>2. /\ DOMAIN workers = 1 .. MaxWorkers
        /\ up \cap exitPending = {}
        /\ InService \subseteq 1 .. nprocs
        /\ \A i \in DOMAIN workers : workers[i].proc \in 1 .. nprocs /\ slotOf[workers[i].proc] = i
        /\ \A q \in InService : workers[slotOf[q]].proc = q
    BY DEF OnDuty, Manned
  <1>3. id \in DOMAIN workers /\ workers[id].proc = p /\ p \notin up
    BY <1>1, <1>2 DEF TypeOK, InService
  <1>4. /\ w \in Seq(SlotRec)
        /\ DOMAIN w = DOMAIN workers
        /\ \A j \in DOMAIN workers : w[j].proc = workers[j].proc
        /\ \A j \in DOMAIN workers : j # id => w[j] = workers[j]
        /\ ~w[id].busy
    <2>1. workers \in Seq(SlotRec)
      BY DEF TypeOK, SlotRec
    <2>2. /\ w \in Seq(SlotRec)
          /\ DOMAIN w = DOMAIN workers
          /\ \A j \in DOMAIN workers : w[j].proc = workers[j].proc
      BY <2>1, VacateProperties
    <2>3. w = [workers EXCEPT ![id] = Slot(workers[id].proc, FALSE)]
      BY <1>3 DEF Vacate
    <2>4. w[id] = Slot(workers[id].proc, FALSE) /\ \A j \in DOMAIN workers : j # id => w[j] = workers[j]
      BY <1>3, <2>3
    <2>5. QED
      BY <2>2, <2>4 DEF Slot
  <1>5. \A q \in InService : slotOf[q] \in DOMAIN workers /\ (q # p => slotOf[q] # id)
    BY <1>2, <1>3 DEF TypeOK, InService
  <1>6. nprocs \in Nat /\ 1 .. nprocs \subseteq Procs
    BY PoolAssumption DEF TypeOK, Procs
  <1> HIDE DEF id, w
  <1>7. CASE workers' = w /\ UNCHANGED <<forkVars, up>>
    <2>1. UNCHANGED <<nprocs, slotOf, up>> /\ InService' = InService \ {p}
      BY <1>1, <1>3, <1>7 DEF forkVars, InService
    <2>2. Manned(workers)'
      <3>1. up' \cap exitPending' = {} /\ InService' \subseteq 1 .. nprocs'
        BY <1>1, <1>2, <2>1
      <3>2. \A i \in DOMAIN workers : w[i].proc \in 1 .. nprocs /\ slotOf[w[i].proc] = i
        BY <1>2, <1>4, Zenon
      <3>3. \A q \in InService : w[slotOf[q]].proc = q
        BY <1>2, <1>4, <1>5, Zenon
      <3>4. DOMAIN workers' = 1 .. MaxWorkers
        BY <1>2, <1>4, <1>7
      <3>5. QED
        BY <1>4, <1>7, <2>1, <3>1, <3>2, <3>3, <3>4 DEF Manned
    <2>3. QED
      BY <1>3, <1>4, <1>5, <1>6, <1>7, <2>1, <2>2 DEF id
  <1>8. CASE CreateWorker(id, w, up)
    <2> DEFINE n == nprocs + 1
    <2>1. /\ nprocs' = n /\ n \in Procs
          /\ slotOf' = [slotOf EXCEPT ![n] = id]
          /\ up' = up \cup {n}
          /\ workers' = [w EXCEPT ![id] = Slot(n, FALSE)]
      <3>1. forkFailures \in Nat /\ forkFailures' # forkFailures + 1
        BY DEF TypeOK
      <3>2. nprocs < MaxProcs => n \in Procs
        BY <1>6, PoolAssumption DEF Procs
      <3>3. id \in DOMAIN w
        BY <1>3, <1>4
      <3>4. QED
        BY <1>8, <3>1, <3>2, <3>3 DEF CreateWorker
    <2>2. /\ DOMAIN workers' = DOMAIN w
          /\ workers'[id] = Slot(n, FALSE)
          /\ \A j \in DOMAIN workers : j # id => workers'[j] = w[j]
      <3>1. w = [j \in DOMAIN w |-> w[j]]
        BY <1>4, LenProperties
      <3>2. QED
        BY <1>3, <1>4, <2>1, <3>1
    <2>3. workers'[id].proc = n /\ ~workers'[id].busy
      BY <2>2 DEF Slot
    <2>4. n \notin 1 .. nprocs
      BY <1>6
    <2>5. slotOf'[n] = id /\ \A q \in 1 .. nprocs : slotOf'[q] = slotOf[q]
      BY <1>6, <2>1, <2>4 DEF TypeOK
    <2>6. InService' = (InService \ {p}) \cup {n}
      BY <1>1, <1>3, <2>1 DEF InService
    <2>7. 1 .. nprocs \subseteq 1 .. nprocs' /\ n \in 1 .. nprocs'
      BY <1>6, <2>1
    <2>8. up' \cap exitPending' = {}
      BY <1>1, <1>2, <2>1, <2>4 DEF InService
    <2>9. InService' \subseteq 1 .. nprocs'
      BY <1>2, <2>6, <2>7
    <2> HIDE DEF n
    <2>10. \A i \in DOMAIN workers' : workers'[i].proc \in 1 .. nprocs' /\ slotOf'[workers'[i].proc] = i
      <3>1. ASSUME NEW i \in DOMAIN workers, i # id
            PROVE  workers'[i].proc \in 1 .. nprocs /\ slotOf[workers'[i].proc] = i
        <4>1. workers'[i] = w[i]
          BY <2>2, <3>1
        <4>2. w[i].proc = workers[i].proc
          BY <1>4
        <4>3. QED
          BY <1>2, <4>1, <4>2
      <3>2. \A i \in DOMAIN workers : i # id =>
              workers'[i].proc \in 1 .. nprocs' /\ slotOf'[workers'[i].proc] = i
        BY <2>5, <2>7, <3>1, Zenon
      <3>3. workers'[id].proc \in 1 .. nprocs' /\ slotOf'[workers'[id].proc] = id
        BY <2>3, <2>5, <2>7
      <3>4. QED
        BY <1>4, <2>2, <3>2, <3>3
    <2>11. \A q \in InService' : workers'[slotOf'[q]].proc = q
      <3>1. \A q \in InService \ {p} : slotOf'[q] = slotOf[q] /\ slotOf[q] # id /\ slotOf[q] \in DOMAIN workers
        BY <1>2, <1>5, <1>6, <2>5 DEF TypeOK
      <3>2. \A q \in InService \ {p} : workers'[slotOf[q]].proc = q
        BY <1>2, <1>4, <2>2, <3>1, Zenon
      <3>3. workers'[slotOf'[n]].proc = n
        BY <2>3, <2>5
      <3>4. QED
        BY <2>6, <3>1, <3>2, <3>3
    <2>12. Manned(workers)'
      BY <1>2, <1>4, <2>2, <2>8, <2>9, <2>10, <2>11 DEF Manned
    <2>13. n > nprocs /\ nprocs <= nprocs'
      BY <1>6, <2>1 DEF n
    <2>14. \A q \in Procs : q \in InService' =>
              \/ q \in InService /\ q # p /\ slotOf'[q] = slotOf[q] /\ slotOf[q] # id
              \/ q > nprocs /\ slotOf'[q] = id
      BY <1>2, <1>5, <2>5, <2>6, <2>13
    <2>15. \A j \in DOMAIN workers : j # id => workers'[j] = workers[j]
      BY <1>4, <2>2
    <2>16. QED
      BY <1>3, <1>4, <2>1, <2>2, <2>3, <2>6, <2>12, <2>13, <2>14, <2>15 DEF id
  <1>9. QED
    BY <1>1, <1>7, <1>8

LEMMA NextOnDuty == CalmInv /\ [Next]_vars => CalmInv'
  <1> SUFFICES ASSUME CalmInv, [Next]_vars, Calm'
               PROVE  IF pc' = "released"
                      THEN up' = {} /\ Apart(inbox, outbox)' /\ pendingTasks' = {}
                      ELSE OnDuty'
    BY NextType, NextAccounting DEF CalmInv
  <1> DEFINE Goal == OnDuty'
  <1>1. TypeOK /\ TaskAccounting /\ forkFailures' = 0 /\ errors' = 0
    BY DEF CalmInv, Calm
  <1>2. forkFailures = 0 /\ errors = 0 /\ \A p \in Procs : ~HandleError(p)
    <2>1. \A p \in Procs : HandleError(p) => errors' = errors + 1
      BY DEF HandleError
    <2>2. \A p \in Procs : ~HandleError(p)
      BY <1>1, <2>1 DEF TypeOK
    <2>3. errors = 0
      BY <1>1, <2>2 DEF Next, vars, childVars, SubmitTask, Terminate, HandleMessage,
                        HandleExit, Answer, Crash
    <2>4. \/ UNCHANGED forkFailures
          \/ forkFailures' = forkFailures + 1
      BY <2>2 DEF Next, vars, forkVars, SubmitTask, Terminate, HandleMessage,
                  HandleExit, Answer, Crash, CreateWorker
    <2>5. QED
      BY <1>1, <2>2, <2>3, <2>4 DEF TypeOK
  <1>3. CASE pc = "released"
    <2>1. up = {} /\ Apart(inbox, outbox) /\ pendingTasks = {}
      BY <1>2, <1>3 DEF CalmInv, Calm
    <2>2. UNCHANGED vars
      BY <1>2, <1>3, <2>1 DEF Next, SubmitTask, Terminate, HandleMessage, HandleExit,
                              EventLoop, Awaiting, Answer, Crash
    <2>3. QED
      BY <1>3, <2>1, <2>2 DEF vars, clientVars, poolVars, childVars, Apart
  <1>4. CASE pc # "released"
    <2>1. OnDuty
      BY <1>2, <1>4 DEF CalmInv, Calm
    <2>2. /\ Manned(workers)
          /\ Channels(workers, pendingTasks, Settled, inbox, outbox)
          /\ errorPending = {} => Served(workers, pendingTasks, inbox, outbox)
          /\ Apart(inbox, outbox)
      BY <2>1 DEF OnDuty, Channels
    <2>3. /\ inbox \in InboxType /\ outbox \in OutboxType
          /\ workers \in Seq(SlotRec) /\ taskQueue \in Seq(Files)
          /\ pendingTasks \in SUBSET Files
      BY <1>1 DEF TypeOK, InboxType, OutboxType, SlotRec, AnswerRec
    <2>4. \A p \in InService : /\ p \in Procs /\ p \in 1 .. nprocs
                               /\ slotOf[p] \in DOMAIN workers
                               /\ workers[slotOf[p]].proc = p
      BY <1>1, <2>2 DEF Manned, TypeOK, InService
    <2>5. ASSUME NEW f \in Files, SubmitTask(f) PROVE Goal
      <3>1. UNCHANGED <<up, exitPending, slotOf, nprocs, outbox>>
        BY <2>5 DEF SubmitTask, forkVars
      <3>2. CASE oomCount >= OOM_LIMIT
        <4>1. /\ UNCHANGED <<workers, pendingTasks, inbox, errorPending>>
              /\ Settled \subseteq Settled'
          BY <1>1, <2>5, <3>2 DEF SubmitTask, Settled, TypeOK
        <4>2. Manned(workers)'
          BY <2>2, <3>1, <4>1 DEF Manned, InService
        <4>3. Channels(workers, pendingTasks, Settled', inbox, outbox)
          BY <2>2, <4>1 DEF Channels
        <4>4. Channels(workers, pendingTasks, Settled, inbox, outbox)'
          BY <3>1, <4>1, <4>3 DEF Channels, Apart, InService
        <4>5. (errorPending = {} => Served(workers, pendingTasks, inbox, outbox))'
          BY <2>2, <3>1, <4>1 DEF Served, Held
        <4>6. QED
          BY <4>2, <4>4, <4>5 DEF OnDuty
      <3>3. CASE ~(oomCount >= OOM_LIMIT)
        <4> DEFINE q == Append(taskQueue, f)
        <4>1. ProcessNextTask(q, workers, pendingTasks) /\ UNCHANGED outcome
          BY <2>5, <3>3 DEF SubmitTask
        <4>2. f \in unmapped /\ Range(q) = Queued \cup {f} /\ IsInjective(q) /\ q \in Seq(Files)
          BY <1>1, <1>4, <2>3, <2>5, AppendElements, AppendProperties DEF TaskAccounting, SubmitTask, Queued
        <4>3. q # <<>> => Head(q) \notin pendingTasks \cup Settled
          BY <1>1, <1>4, <4>2, TailElements DEF TaskAccounting
        <4> HIDE DEF q
        <4>4. /\ Manned(workers')
              /\ Channels(workers', pendingTasks', Settled, inbox', outbox)
              /\ errorPending' = {} => Served(workers', pendingTasks', inbox', outbox)
          BY <1>1, <2>2, <2>3, <4>1, <4>2, <4>3, ProcessNextTaskOnDuty
        <4>5. Settled' = Settled
          BY <4>1 DEF Settled
        <4>6. Manned(workers)'
          BY <3>1, <4>4 DEF Manned, InService
        <4>7. Channels(workers, pendingTasks, Settled, inbox, outbox)'
          BY <3>1, <4>4, <4>5 DEF Channels, Apart, InService
        <4>8. (errorPending = {} => Served(workers, pendingTasks, inbox, outbox))'
          BY <3>1, <4>4 DEF Served, Held
        <4>9. QED
          BY <4>6, <4>7, <4>8 DEF OnDuty
      <3>4. QED
        BY <3>2, <3>3
    <2>6. CASE Terminate
      <3>1. pc' = "released" /\ UNCHANGED <<inbox, outbox>> /\ pendingTasks' = {}
        BY <2>6 DEF Terminate
      <3>2. up \subseteq Reachable
        BY <2>4 DEF Reachable, InService
      <3>3. up' = {}
        BY <2>6, <3>2 DEF Terminate
      <3>4. QED
        BY <2>2, <3>1, <3>3 DEF Apart
    <2>7. ASSUME NEW p \in Procs, HandleMessage(p) PROVE Goal
      <3> DEFINE m == Head(outbox[p])
                 read == Read(outbox, p)
                 w == Vacate(workers, slotOf[p])
      <3>1. outbox[p] # <<>> /\ outbox' = read /\ UNCHANGED <<up, exitPending, slotOf, nprocs>>
        BY <2>7 DEF HandleMessage, forkVars, Read
      <3>2. Held(inbox, outbox, p) = {m.task} /\ m.task \in Files
        BY <2>2, <2>3, <3>1, HeldAnswered DEF Apart
      <3>3. /\ read \in OutboxType
            /\ inbox[p] = <<>> /\ read[p] = <<>>
            /\ Held(inbox, read, p) = {}
            /\ Load(inbox, read, p) <= 1
            /\ \A q \in Procs : q # p => /\ read[q] = outbox[q]
                                        /\ Held(inbox, read, q) = Held(inbox, outbox, q)
                                        /\ Load(inbox, read, q) = Load(inbox, outbox, q)
        BY <2>2, <2>3, <3>1, HeldRead DEF Apart
      <3> HIDE DEF m, read, w
      <3>4. Apart(inbox, read)
        BY <2>2, <3>3 DEF Apart
      <3>5. CASE ~(slotOf[p] \in DOMAIN workers /\ m.task \in pendingTasks)
        <4>1. UNCHANGED <<outcome, workers, pendingTasks, inbox, errorPending>>
          BY <2>7, <3>5 DEF HandleMessage, m
        <4>2. Settled' = Settled
          BY <4>1 DEF Settled
        <4>3. Channels(workers, pendingTasks, Settled, inbox, read)
          BY <2>2, <2>4, <3>3, <3>4 DEF Channels
        <4>4. ASSUME errorPending = {} PROVE Served(workers, pendingTasks, inbox, read)
          <5> SUFFICES ASSUME NEW g \in pendingTasks
                       PROVE  \E j \in Busy(workers) :
                                \/ g \in Held(inbox, read, workers[j].proc)
                                \/ /\ workers[j].proc \in exitPending
                                   /\ inbox[workers[j].proc] = <<>> /\ read[workers[j].proc] = <<>>
            BY DEF Served
          <5>1. PICK j \in Busy(workers) :
                  \/ g \in Held(inbox, outbox, workers[j].proc)
                  \/ /\ workers[j].proc \in exitPending
                     /\ inbox[workers[j].proc] = <<>> /\ outbox[workers[j].proc] = <<>>
            BY <2>2, <4>4 DEF Served
          <5>2. j \in DOMAIN workers /\ workers[j].proc \in Procs /\ slotOf[workers[j].proc] = j
            <6>1. 1 .. nprocs \subseteq Procs
              BY <1>1, PoolAssumption DEF TypeOK, Procs
            <6>2. QED
              BY <2>2, <6>1 DEF Busy, Manned
          <5>3. workers[j].proc # p
            BY <3>1, <3>2, <3>5, <5>1, <5>2
          <5>4. QED
            BY <3>3, <5>1, <5>2, <5>3
        <4>5. Manned(workers)'
          BY <2>2, <3>1, <4>1 DEF Manned, InService
        <4>6. Channels(workers, pendingTasks, Settled, inbox, outbox)'
          BY <3>1, <4>1, <4>2, <4>3 DEF Channels, Apart, InService
        <4>7. (errorPending = {} => Served(workers, pendingTasks, inbox, outbox))'
          BY <3>1, <4>1, <4>4 DEF Served, Held
        <4>8. QED
          BY <4>5, <4>6, <4>7 DEF OnDuty
      <3>6. CASE slotOf[p] \in DOMAIN workers /\ m.task \in pendingTasks
        <4> DEFINE pd == pendingTasks \ {m.task}
                   id == slotOf[p]
        <4>1. /\ outcome' = [outcome EXCEPT ![m.task] = Settlement(m.kind)]
              /\ ProcessNextTask(taskQueue, w, pd)
          BY <2>7, <3>6 DEF HandleMessage, Unanswered, m, w
        <4>2. Settled' = Settled \cup {m.task}
          <5>1. m.kind \in Answers
            <6>1. outbox[p] \in Seq(AnswerRec)
              BY <2>3 DEF OutboxType
            <6>2. m \in AnswerRec
              BY <3>1, <6>1, HeadTailProperties DEF m
            <6>3. QED
              BY <6>2 DEF AnswerRec
          <5>2. QED
            BY <1>1, <3>6, <4>1, <5>1 DEF Settled, Settlement, Answers, TypeOK
        <4>3. p \in InService /\ workers[id].proc = p
          <5>1. m.task \notin Settled
            BY <1>1, <1>4, <3>6 DEF TaskAccounting
          <5>2. p \in InService
            BY <2>2, <3>2, <5>1 DEF Channels
          <5>3. QED
            BY <2>4, <5>2
        <4>4. /\ w \in Seq(SlotRec) /\ DOMAIN w = DOMAIN workers
              /\ \A j \in DOMAIN workers : w[j].proc = workers[j].proc
              /\ Busy(w) = Busy(workers) \ {id}
          <5>1. /\ w \in Seq(SlotRec) /\ DOMAIN w = DOMAIN workers
                /\ \A j \in DOMAIN workers : w[j].proc = workers[j].proc
                /\ Idle(w) = Idle(workers) \cup ({id} \cap DOMAIN workers)
            BY <2>3, VacateProperties DEF w
          <5>2. /\ Busy(w) = DOMAIN w \ Idle(w)
                /\ Busy(workers) = DOMAIN workers \ Idle(workers)
            BY DEF Idle, Busy
          <5>3. QED
            BY <5>1, <5>2
        <4>5. Manned(w)
          BY <2>2, <2>4, <4>4 DEF Manned
        <4>6. \A q \in InService : q # p => slotOf[q] # id
          BY <2>4, <4>3
        <4> HIDE DEF pd, id
        <4>7. Channels(w, pd, Settled', inbox, read)
          <5>1. \A q \in InService : ~w[slotOf[q]].busy => inbox[q] = <<>> /\ read[q] = <<>>
            <6>1. \A q \in InService : q # p => (w[slotOf[q]].busy <=> workers[slotOf[q]].busy)
              BY <2>4, <4>4, <4>6 DEF Busy
            <6>2. QED
              BY <2>2, <2>4, <3>3, <6>1 DEF Channels
          <5>2. pd \cup Settled' = pendingTasks \cup Settled /\ Settled \subseteq Settled'
            BY <3>6, <4>2 DEF pd
          <5>3. \A q \in Procs : Held(inbox, read, q) \subseteq Held(inbox, outbox, q)
            BY <3>3
          <5>4. \A q \in Procs : q > nprocs => read[q] = <<>>
            BY <2>2, <3>3 DEF Channels
          <5>5. QED
            BY <2>2, <3>4, <5>1, <5>2, <5>3, <5>4 DEF Channels
        <4>8. ASSUME errorPending = {} PROVE Served(w, pd, inbox, read)
          <5> SUFFICES ASSUME NEW g \in pd
                       PROVE  \E j \in Busy(w) :
                                \/ g \in Held(inbox, read, w[j].proc)
                                \/ /\ w[j].proc \in exitPending
                                   /\ inbox[w[j].proc] = <<>> /\ read[w[j].proc] = <<>>
            BY DEF Served
          <5>1. PICK j \in Busy(workers) :
                  \/ g \in Held(inbox, outbox, workers[j].proc)
                  \/ /\ workers[j].proc \in exitPending
                     /\ inbox[workers[j].proc] = <<>> /\ outbox[workers[j].proc] = <<>>
            BY <2>2, <4>8 DEF Served, pd
          <5>2. j \in DOMAIN workers /\ workers[j].proc \in Procs /\ slotOf[workers[j].proc] = j
            <6>1. 1 .. nprocs \subseteq Procs
              BY <1>1, PoolAssumption DEF TypeOK, Procs
            <6>2. QED
              BY <2>2, <6>1 DEF Busy, Manned
          <5>3. workers[j].proc # p
            BY <3>1, <3>2, <5>1, <5>2 DEF pd
          <5>4. j # id
            BY <4>3, <5>3
          <5>5. j \in Busy(w) /\ w[j].proc = workers[j].proc
            BY <4>4, <5>2, <5>4
          <5>6. QED
            BY <3>3, <5>1, <5>2, <5>3, <5>5
        <4>9. taskQueue # <<>> => Head(taskQueue) \notin pd \cup Settled'
          <5>1. Queued \cap (pendingTasks \cup Settled) = {} /\ IsInjective(taskQueue)
            BY <1>1, <1>4 DEF TaskAccounting
          <5>2. taskQueue # <<>> => Head(taskQueue) \in Queued
            BY <2>3, <5>1, TailElements DEF Queued
          <5>3. pd \cup Settled' = pendingTasks \cup Settled
            BY <3>6, <4>2 DEF pd
          <5>4. QED
            BY <5>1, <5>2, <5>3
        <4>10. pd \in SUBSET Files
          BY <2>3 DEF pd
        <4>11. /\ Manned(workers')
               /\ Channels(workers', pendingTasks', Settled', inbox', read)
               /\ errorPending' = {} => Served(workers', pendingTasks', inbox', read)
          BY <1>1, <2>3, <3>3, <4>1, <4>4, <4>5, <4>7, <4>8, <4>9, <4>10, ProcessNextTaskOnDuty
        <4>12. Manned(workers)'
          BY <3>1, <4>11 DEF Manned, InService
        <4>13. Channels(workers, pendingTasks, Settled, inbox, outbox)'
          BY <3>1, <4>11 DEF Channels, Apart, InService
        <4>14. (errorPending = {} => Served(workers, pendingTasks, inbox, outbox))'
          BY <3>1, <4>11 DEF Served, Held
        <4>15. QED
          BY <4>12, <4>13, <4>14 DEF OnDuty
      <3>7. QED
        BY <3>5, <3>6
    <2>8. ASSUME NEW p \in Procs, HandleExit(p) PROVE Goal
      <3> DEFINE id == slotOf[p]
      <3>1. /\ pendingTasks' = pendingTasks \ Rejected(p)
            /\ outcome' = [f \in Files |-> IF f \in Rejected(p) THEN "main" ELSE outcome[f]]
            /\ UNCHANGED <<inbox, outbox, errorPending>>
            /\ exitPending' = exitPending \ {p}
        BY <2>8 DEF HandleExit
      <3>2. /\ id \in DOMAIN workers /\ workers[id].proc = p
            /\ p \notin up
            /\ Manned(workers)'
            /\ \A j \in DOMAIN workers : j # id => workers'[j] = workers[j]
            /\ ~workers'[id].busy
            /\ DOMAIN workers' = DOMAIN workers
            /\ nprocs <= nprocs'
            /\ \A q \in Procs : q \in InService' =>
                 \/ q \in InService /\ q # p /\ slotOf'[q] = slotOf[q] /\ slotOf[q] # id
                 \/ q > nprocs /\ slotOf'[q] = id
            /\ \A q \in Procs : q \in up => q \in up'
            /\ \A q \in InService : q # p => q \in InService'
        BY <1>1, <1>2, <2>1, <2>8, ExitKeepsOrder
      <3>3. Rejected(p) = IF workers[id].busy THEN pendingTasks ELSE {}
        BY <3>2 DEF Rejected
      <3>4. Settled' = Settled \cup Rejected(p) /\ Rejected(p) \subseteq pendingTasks
        BY <1>1, <3>1, <3>3 DEF Settled, TypeOK
      <3> HIDE DEF id
      <3>5. pendingTasks' \cup Settled' = pendingTasks \cup Settled /\ Settled \subseteq Settled'
        BY <3>1, <3>4
      <3>6. \A q \in Procs : q \notin up' => inbox[q] = <<>>
        <4>1. \A q \in Procs : q \notin up' => q \in Procs \ up
          BY <3>2
        <4>2. \A q \in Procs \ up : inbox[q] = <<>>
          BY <2>2 DEF Channels
        <4>3. QED
          BY <4>1, <4>2
      <3>7. \A q \in Procs : q > nprocs' => outbox[q] = <<>>
        <4>1. nprocs \in Nat /\ nprocs' \in Nat
          <5>1. TypeOK'
            BY <1>1, NextType
          <5>2. nprocs \in 0 .. MaxProcs /\ nprocs' \in 0 .. MaxProcs
            BY <1>1, <5>1 DEF TypeOK
          <5>3. QED
            BY <5>2, PoolAssumption
        <4>2. \A q \in Procs : q > nprocs' => q > nprocs
          BY <3>2, <4>1 DEF Procs
        <4>3. QED
          BY <2>2, <4>2 DEF Channels
      <3>8. \A q \in Procs : q > nprocs => q \notin InService /\ inbox[q] = <<>> /\ outbox[q] = <<>>
        <4>1. \A q \in Procs : q > nprocs => q \notin 1 .. nprocs
          BY <1>1 DEF TypeOK, Procs
        <4>2. QED
          BY <2>2, <2>4, <4>1 DEF Channels, InService
      <3>9. \A q \in Procs : q \in InService' /\ ~workers'[slotOf'[q]].busy =>
              inbox[q] = <<>> /\ outbox[q] = <<>>
        BY <2>2, <2>4, <3>2, <3>8 DEF Channels
      <3>10. \A q \in Procs : q \notin InService' => Held(inbox, outbox, q) \subseteq Settled'
        <4>1. \A q \in Procs : q \notin InService => Held(inbox, outbox, q) \subseteq Settled'
          BY <2>2, <3>5 DEF Channels
        <4>2. p \in InService /\ slotOf[p] = id
          BY <2>8 DEF HandleExit, InService, id
        <4>3. CASE workers[id].busy
          <5>1. Settled' = Settled \cup pendingTasks
            BY <3>3, <3>4, <4>3
          <5>2. QED
            BY <2>2, <5>1 DEF Channels
        <4>4. CASE ~workers[id].busy
          <5>1. inbox[p] = <<>> /\ outbox[p] = <<>>
            BY <2>2, <4>2, <4>4 DEF Channels
          <5>2. Held(inbox, outbox, p) = {}
            BY <5>1, HeldNothing
          <5>3. QED
            BY <3>2, <4>1, <5>2
        <4>5. QED
          BY <4>3, <4>4
      <3>11. \A q \in InService' : q \in Procs
        BY <1>1, NextType DEF TypeOK, InService
      <3>12. Channels(workers, pendingTasks, Settled, inbox, outbox)'
        <4>1. \A q \in Procs : Held(inbox, outbox, q) \subseteq pendingTasks' \cup Settled'
          BY <2>2, <3>5 DEF Channels
        <4>2. Apart(inbox, outbox)'
          BY <2>2, <3>1 DEF Apart
        <4>3. \A q \in Procs : Held(inbox', outbox', q) = Held(inbox, outbox, q)
          BY <3>1
        <4>4. QED
          BY <3>1, <3>6, <3>7, <3>9, <3>10, <3>11, <4>1, <4>2, <4>3 DEF Channels
      <3>13. ASSUME errorPending' = {} PROVE Served(workers, pendingTasks, inbox, outbox)'
        <4>1. CASE workers[id].busy
          BY <3>1, <3>3, <4>1 DEF Served
        <4>2. CASE ~workers[id].busy
          <5>1. pendingTasks' = pendingTasks
            BY <3>1, <3>3, <4>2
          <5>2. \A j \in Busy(workers) : j \in Busy(workers') /\ workers'[j].proc = workers[j].proc /\ workers[j].proc # p
            <6>1. \A j \in Busy(workers) : j \in DOMAIN workers /\ j # id
              BY <4>2 DEF Busy
            <6>2. \A j \in DOMAIN workers : workers[j].proc = p => j = id
              BY <2>2 DEF Manned, id
            <6>3. QED
              BY <3>2, <6>1, <6>2 DEF Busy
          <5>3. Served(workers, pendingTasks, inbox, outbox)
            BY <2>2, <3>1, <3>13
          <5>4. QED
            BY <3>1, <5>1, <5>2, <5>3 DEF Served, Held
        <4>3. QED
          BY <4>1, <4>2
      <3>14. QED
        BY <3>2, <3>12, <3>13 DEF OnDuty
    <2>9. ASSUME NEW p \in Procs, Answer(p) PROVE Goal
      <3>1. /\ p \in up /\ inbox[p] # <<>> /\ inbox' = Taken(inbox, p)
            /\ UNCHANGED <<outcome, pendingTasks, workers, nprocs, slotOf, up, exitPending, errorPending>>
        BY <2>9 DEF Answer, clientVars, poolVars, forkVars, Taken
      <3>2. PICK k \in AnswerKinds : outbox' = Replied(inbox, outbox, p, k)
        BY <2>9 DEF Answer, Replied
      <3>3. k \in Answers /\ Load(inbox, outbox, p) <= 1
        BY <2>2, PoolAssumption DEF Apart
      <3>4. /\ inbox'[p] = <<>>
            /\ Held(inbox', outbox', p) = Held(inbox, outbox, p)
            /\ Load(inbox', outbox', p) <= 1
            /\ \A q \in Procs : q # p =>
                 /\ inbox'[q] = inbox[q] /\ outbox'[q] = outbox[q]
                 /\ Held(inbox', outbox', q) = Held(inbox, outbox, q)
                 /\ Load(inbox', outbox', q) = Load(inbox, outbox, q)
        BY <2>3, <3>1, <3>2, <3>3, HeldReplied
      <3>5. inbox'[p] = <<>> /\ \A q \in Procs : q # p => inbox'[q] = inbox[q]
        BY <3>4
      <3>6. \A q \in Procs : q # p => outbox'[q] = outbox[q]
        BY <3>4
      <3>7. \A q \in Procs : Held(inbox', outbox', q) = Held(inbox, outbox, q)
        BY <3>4
      <3>8. Apart(inbox, outbox)'
        BY <2>2, <3>4, <3>7 DEF Apart
      <3>9. p \in InService /\ p \notin exitPending /\ p \in 1 .. nprocs
        BY <2>2, <3>1 DEF InService, Manned
      <3>10. Channels(workers, pendingTasks, Settled, inbox, outbox)'
        <4>1. Settled' = Settled /\ InService' = InService
          BY <3>1 DEF Settled, InService
        <4>2. \A q \in InService : ~workers[slotOf[q]].busy => inbox'[q] = <<>> /\ outbox'[q] = <<>>
          BY <2>2, <2>4, <3>1, <3>5, <3>6, <3>9 DEF Channels
        <4>3. \A q \in Procs : q > nprocs => outbox'[q] = <<>>
          <5>1. ~(p > nprocs)
            BY <1>1, <3>9 DEF TypeOK
          <5>2. QED
            BY <2>2, <3>6, <5>1 DEF Channels
        <4>4. \A q \in Procs \ up : inbox'[q] = <<>>
          BY <2>2, <3>1, <3>5 DEF Channels
        <4>5. QED
          BY <2>2, <3>1, <3>7, <3>8, <4>1, <4>2, <4>3, <4>4 DEF Channels
      <3>11. ASSUME errorPending' = {} PROVE Served(workers, pendingTasks, inbox, outbox)'
        <4>1. \A j \in Busy(workers) : workers[j].proc \in Procs
          <5>1. 1 .. nprocs \subseteq Procs
            BY <1>1, PoolAssumption DEF TypeOK, Procs
          <5>2. QED
            BY <2>2, <5>1 DEF Busy, Manned
        <4>2. Served(workers, pendingTasks, inbox, outbox)
          BY <2>2, <3>1, <3>11
        <4>3. \A q \in Procs : q \in exitPending => inbox'[q] = inbox[q] /\ outbox'[q] = outbox[q]
          BY <3>5, <3>6, <3>9
        <4> SUFFICES ASSUME NEW g \in pendingTasks
                     PROVE  \E j \in Busy(workers) :
                              \/ g \in Held(inbox', outbox', workers[j].proc)
                              \/ /\ workers[j].proc \in exitPending
                                 /\ inbox'[workers[j].proc] = <<>> /\ outbox'[workers[j].proc] = <<>>
          BY <3>1 DEF Served
        <4>4. PICK j \in Busy(workers) :
                \/ g \in Held(inbox, outbox, workers[j].proc)
                \/ /\ workers[j].proc \in exitPending
                   /\ inbox[workers[j].proc] = <<>> /\ outbox[workers[j].proc] = <<>>
          BY <4>2 DEF Served
        <4>5. QED
          BY <3>7, <4>1, <4>3, <4>4
      <3>12. Manned(workers)'
        BY <2>2, <3>1 DEF Manned, InService
      <3>13. QED
        BY <3>10, <3>11, <3>12 DEF OnDuty
    <2>10. ASSUME NEW p \in Procs, Crash(p) PROVE Goal
      <3>1. /\ p \in up /\ up' = up \ {p} /\ exitPending' = exitPending \cup {p}
            /\ inbox' = [inbox EXCEPT ![p] = <<>>]
            /\ outbox' = outbox \/ outbox' = [outbox EXCEPT ![p] = <<>>]
            /\ UNCHANGED <<outcome, pendingTasks, workers, nprocs, slotOf, errorPending>>
        BY <2>10 DEF Crash, clientVars, poolVars, forkVars
      <3>2. Settled' = Settled /\ InService' = InService /\ p \in InService
        BY <3>1 DEF Settled, InService
      <3>3. inbox'[p] = <<>> /\ \A q \in Procs : q # p => inbox'[q] = inbox[q]
        BY <2>3, <3>1 DEF InboxType
      <3>4. /\ outbox'[p] = outbox[p] \/ outbox'[p] = <<>>
            /\ \A q \in Procs : q # p => outbox'[q] = outbox[q]
        BY <2>3, <3>1 DEF OutboxType
      <3>5. \/ outbox'[p] = <<>>
            \/ outbox'[p] = outbox[p] /\ inbox[p] = <<>>
        BY <2>2, <2>3, <3>4, HeldAnswered DEF Apart
      <3>6. \/ /\ outbox'[p] = <<>>
               /\ Held(inbox', outbox', p) = {} /\ Load(inbox', outbox', p) <= 1
            \/ /\ Held(inbox', outbox', p) = Held(inbox, outbox, p)
               /\ Load(inbox', outbox', p) = Load(inbox, outbox, p)
        <4>1. CASE outbox'[p] = <<>>
          <5>1. Held(inbox', outbox', p) = {}
            BY <3>3, <4>1, HeldNothing
          <5>2. Load(inbox', outbox', p) <= 1
            <6>1. Len(<<>>) = 0
              BY EmptySeq
            <6>2. QED
              BY <3>3, <4>1, <6>1 DEF Load
          <5>3. QED
            BY <4>1, <5>1, <5>2
        <4>2. CASE outbox'[p] = outbox[p] /\ inbox[p] = <<>>
          <5>1. inbox'[p] = inbox[p] /\ outbox'[p] = outbox[p]
            BY <3>3, <4>2
          <5>2. QED
            BY <5>1, Zenon DEF Held, Load
        <4>3. QED
          BY <3>5, <4>1, <4>2
      <3>7. \A q \in Procs : q # p => /\ Held(inbox', outbox', q) = Held(inbox, outbox, q)
                                      /\ Load(inbox', outbox', q) = Load(inbox, outbox, q)
        <4> SUFFICES ASSUME NEW q \in Procs, q # p
                     PROVE  /\ Held(inbox', outbox', q) = Held(inbox, outbox, q)
                            /\ Load(inbox', outbox', q) = Load(inbox, outbox, q)
          OBVIOUS
        <4>1. inbox'[q] = inbox[q] /\ outbox'[q] = outbox[q]
          BY <3>3, <3>4
        <4>2. QED
          BY <4>1, Zenon DEF Held, Load
      <3>8. \A q \in Procs : Held(inbox', outbox', q) \subseteq Held(inbox, outbox, q)
        BY <3>6, <3>7
      <3>9. Apart(inbox, outbox)'
        <4>1. \A q \in Procs : Load(inbox', outbox', q) <= 1
          BY <2>2, <3>6, <3>7 DEF Apart
        <4>2. QED
          BY <2>2, <3>8, <4>1 DEF Apart
      <3>10. Channels(workers, pendingTasks, Settled, inbox, outbox)'
        <4>1. \A q \in Procs : outbox[q] = <<>> => outbox'[q] = <<>>
          BY <3>4
        <4>2. \A q \in Procs : inbox[q] = <<>> => inbox'[q] = <<>>
          BY <3>3
        <4>3. \A q \in InService : q \in Procs
          BY <2>4
        <4>4. \A q \in InService : ~workers[slotOf[q]].busy => inbox'[q] = <<>> /\ outbox'[q] = <<>>
          BY <2>2, <4>1, <4>2, <4>3 DEF Channels
        <4>5. \A q \in Procs : q > nprocs => outbox'[q] = <<>>
          BY <2>2, <4>1 DEF Channels
        <4>6. \A q \in Procs \ up' : inbox'[q] = <<>>
          BY <2>2, <3>1, <3>3, <4>2 DEF Channels
        <4>7. \A q \in Procs : /\ Held(inbox', outbox', q) \subseteq pendingTasks \cup Settled
                               /\ q \notin InService => Held(inbox', outbox', q) \subseteq Settled
          BY <2>2, <3>8 DEF Channels
        <4>8. QED
          BY <3>1, <3>2, <3>9, <4>4, <4>5, <4>6, <4>7 DEF Channels
      <3>11. ASSUME errorPending' = {} PROVE Served(workers, pendingTasks, inbox, outbox)'
        <4>1. \A j \in Busy(workers) : workers[j].proc \in Procs
          <5>1. 1 .. nprocs \subseteq Procs
            BY <1>1, PoolAssumption DEF TypeOK, Procs
          <5>2. QED
            BY <2>2, <5>1 DEF Busy, Manned
        <4>2. Served(workers, pendingTasks, inbox, outbox)
          BY <2>2, <3>1, <3>11
        <4>3. \A q \in Procs : /\ inbox[q] = <<>> => inbox'[q] = <<>>
                               /\ outbox[q] = <<>> => outbox'[q] = <<>>
          BY <3>3, <3>4
        <4>4. \A q \in Procs, g \in Files : g \in Held(inbox, outbox, q) =>
                \/ g \in Held(inbox', outbox', q)
                \/ q \in exitPending' /\ inbox'[q] = <<>> /\ outbox'[q] = <<>>
          BY <3>1, <3>3, <3>6, <3>7
        <4>5. exitPending \subseteq exitPending' /\ pendingTasks \subseteq Files
          BY <2>3, <3>1
        <4> SUFFICES ASSUME NEW g \in pendingTasks
                     PROVE  \E j \in Busy(workers) :
                              \/ g \in Held(inbox', outbox', workers[j].proc)
                              \/ /\ workers[j].proc \in exitPending'
                                 /\ inbox'[workers[j].proc] = <<>> /\ outbox'[workers[j].proc] = <<>>
          BY <3>1 DEF Served
        <4>6. PICK j \in Busy(workers) :
                \/ g \in Held(inbox, outbox, workers[j].proc)
                \/ /\ workers[j].proc \in exitPending
                   /\ inbox[workers[j].proc] = <<>> /\ outbox[workers[j].proc] = <<>>
          BY <4>2 DEF Served
        <4>7. QED
          BY <4>1, <4>3, <4>4, <4>5, <4>6
      <3>12. Manned(workers)'
        BY <2>2, <3>1, <3>2 DEF Manned
      <3>13. QED
        BY <3>10, <3>11, <3>12 DEF OnDuty
    <2>11. CASE UNCHANGED vars
      <3>1. UNCHANGED <<outcome, pendingTasks, workers, nprocs, slotOf, up, exitPending,
                        errorPending, inbox, outbox>>
        BY <2>11 DEF vars, clientVars, poolVars, forkVars, childVars
      <3>2. Manned(workers)'
        BY <2>2, <3>1 DEF Manned, InService
      <3>3. Channels(workers, pendingTasks, Settled, inbox, outbox)'
        BY <2>2, <3>1 DEF Channels, Apart, InService, Settled
      <3>4. (errorPending = {} => Served(workers, pendingTasks, inbox, outbox))'
        BY <2>2, <3>1 DEF Served, Held
      <3>5. QED
        BY <1>4, <2>11, <3>2, <3>3, <3>4 DEF OnDuty, vars, clientVars
    <2>12. pc' = "released" => Terminate
      <3>2. pc' # "released" \/ Terminate
        BY <1>4 DEF Next, vars, clientVars, SubmitTask, HandleMessage, HandleExit,
                    HandleError, Answer, Crash
      <3>3. QED
        BY <3>2
    <2>13. QED
      BY <1>2, <2>5, <2>6, <2>7, <2>8, <2>9, <2>10, <2>11, <2>12 DEF Next, Terminate
  <1>5. QED
    BY <1>3, <1>4

\* The invariant the three theorems below follow from.
LEMMA CalmInvHolds == Spec => []CalmInv
  BY InitOnDuty, NextOnDuty, PTL DEF Spec

\* While no fork failed and no send error was handled, no child holds two
\* tasks and no task is with two children.
THEOREM NoTaskTwice == Spec => []OneToOne
  <1>1. CalmInv => OneToOne
    <2> SUFFICES ASSUME CalmInv, Calm, Apart(inbox, outbox) PROVE OneToOne
      BY DEF CalmInv, OnDuty, Channels, OneToOne
    <2>1. \A p \in Procs : Holds(p) = Held(inbox, outbox, p)
      BY DEF Holds, Held
    <2>2. QED
      BY <2>1, Zenon DEF Apart, OneToOne, Load
  <1>2. QED
    BY <1>1, CalmInvHolds, PTL

\* Every pending task has a child that can answer it or an exit to reject it.
THEOREM PendingTasksAreServed == Spec => []PendingIsServed
  <1>1. CalmInv => PendingIsServed
    <2> SUFFICES ASSUME CalmInv, Calm, errorPending = {}, NEW f \in pendingTasks
                 PROVE  \E i \in Busy(workers) :
                          f \in Holds(workers[i].proc) \/ workers[i].proc \in exitPending
      BY DEF PendingIsServed
    <2>1. Served(workers, pendingTasks, inbox, outbox)
      BY DEF CalmInv, OnDuty
    <2>2. QED
      BY <2>1 DEF Served, Holds, Held
  <1>2. QED
    BY <1>1, CalmInvHolds, PTL

\* terminate() leaves no child of the pool running.
THEOREM NoChildSurvives == Spec => []TerminateKillsAll
  <1>1. CalmInv => TerminateKillsAll
    BY DEF CalmInv, TerminateKillsAll
  <1>2. QED
    BY <1>1, CalmInvHolds, PTL

-----------------------------------------------------------------------------
(* The client never waits for nothing *)

\* The child of a busy slot has a task or an answer on its channels, and what
\* the children hold is pending.
Working(w, pd, ib, ob) ==
  /\ \A i \in Busy(w) : ib[w[i].proc] # <<>> \/ ob[w[i].proc] # <<>>
  /\ \A p \in Procs : Held(ib, ob, p) \subseteq pd

\* That holds while no child has died; a mapping client alone has files left.
AtWork ==
  /\ pc # "mapping" => unmapped = {}
  /\ pc # "released" /\ Calm /\ crashes = 0 => Working(workers, pendingTasks, inbox, outbox)

WorkInv == CalmInv /\ WakeupInv /\ AtWork

\* The slots hold different running children, and those of idle slots nothing.
Ready(w, ib, ob) ==
  /\ \A i \in DOMAIN w : w[i].proc \in up
  /\ \A i, j \in DOMAIN w : i # j => w[i].proc # w[j].proc
  /\ \A i \in Idle(w) : ib[w[i].proc] = <<>> /\ ob[w[i].proc] = <<>>

\* processNextTask() gives the slot it occupies something to do.
LEMMA ProcessNextTaskAtWork ==
  ASSUME TypeOK, NEW q \in Seq(Files), NEW w \in Seq(SlotRec), NEW pd,
         NEW ob \in OutboxType, exitPending = {},
         Ready(w, inbox, ob), Working(w, pd, inbox, ob),
         ProcessNextTask(q, w, pd)
  PROVE  Working(workers', pendingTasks', inbox', ob)
  <1>1. CASE q = <<>> \/ Idle(w) = {}
    BY <1>1 DEF ProcessNextTask
  <1>2. CASE ~(q = <<>> \/ Idle(w) = {})
    <2> DEFINE f == Head(q)
    <2>1. PICK i \in DOMAIN w :
            /\ i \in Idle(w)
            /\ workers' = Occupy(w, i)
            /\ pendingTasks' = pd \cup {f}
            /\ Send(w[i].proc, f)
      BY <1>2 DEF ProcessNextTask, Selected
    <2> DEFINE c == w[i].proc
    <2>2. c \in up /\ c \in Procs /\ inbox[c] = <<>> /\ ob[c] = <<>> /\ f \in Files
      BY <1>2, <2>1, HeadTailProperties DEF Ready, TypeOK
    <2>3. inbox' = Sent(inbox, c, f)
      BY <2>1, <2>2 DEF Send, Sent
    <2>4. /\ DOMAIN workers' = DOMAIN w
          /\ \A j \in DOMAIN w : workers'[j].proc = w[j].proc
          /\ Busy(workers') = Busy(w) \cup {i}
      <3>1. /\ DOMAIN workers' = DOMAIN w
            /\ \A j \in DOMAIN w : workers'[j].proc = w[j].proc
            /\ Idle(workers') = Idle(w) \ {i}
        BY <2>1, OccupyProperties
      <3>2. /\ Busy(w) = DOMAIN w \ Idle(w)
            /\ Busy(workers') = DOMAIN workers' \ Idle(workers')
        BY DEF Idle, Busy
      <3>3. QED
        BY <2>1, <3>1, <3>2
    <2>5. inbox \in InboxType
      BY DEF TypeOK, InboxType
    <2> HIDE DEF c, f
    <2>6. /\ Held(inbox', ob, c) = {f}
          /\ \A p \in Procs : p # c => /\ inbox'[p] = inbox[p]
                                       /\ Held(inbox', ob, p) = Held(inbox, ob, p)
      <3>1. /\ Held(Sent(inbox, c, f), ob, c) = {f}
            /\ \A p \in Procs : p # c => /\ Sent(inbox, c, f)[p] = inbox[p]
                                         /\ Held(Sent(inbox, c, f), ob, p) = Held(inbox, ob, p)
        BY <2>2, <2>5, HeldSent
      <3>2. QED
        BY <2>3, <3>1, Zenon
    <2>7. inbox'[c] # <<>>
      <3>1. inbox'[c] = Append(<<>>, f)
        BY <2>2, <2>3, <2>5 DEF Sent, InboxType
      <3>2. QED
        BY <2>2, <3>1, EmptySeq, AppendProperties
    <2>8. ASSUME NEW j \in Busy(workers')
          PROVE  inbox'[workers'[j].proc] # <<>> \/ ob[workers'[j].proc] # <<>>
      <3>1. CASE j = i
        BY <2>1, <2>4, <2>7, <3>1 DEF c
      <3>2. CASE j # i
        <4>1. j \in Busy(w) /\ j \in DOMAIN w /\ workers'[j].proc = w[j].proc
          BY <2>4, <3>2 DEF Busy
        <4>2. w[j].proc # c /\ w[j].proc \in Procs
          BY <2>1, <3>2, <4>1 DEF Ready, TypeOK, c
        <4>3. QED
          BY <2>6, <4>1, <4>2 DEF Working
      <3>3. QED
        BY <3>1, <3>2
    <2>9. \A p \in Procs : Held(inbox', ob, p) \subseteq pendingTasks'
      BY <2>1, <2>6 DEF Working, f
    <2>10. QED
      BY <2>8, <2>9 DEF Working
  <1>3. QED
    BY <1>1, <1>2

LEMMA InitAtWork == Init => WorkInv
  <1> SUFFICES ASSUME Init PROVE AtWork
    BY InitOnDuty, InitWakeup DEF WorkInv
  <1>1. Busy(workers) = {}
    BY DEF Init, Busy, Slot
  <1>2. \A p \in Procs : inbox[p] = <<>> /\ outbox[p] = <<>>
    BY DEF Init
  <1>3. \A p \in Procs : Held(inbox, outbox, p) = {}
    BY <1>2, HeldNothing
  <1>4. QED
    BY <1>1, <1>3 DEF Init, AtWork, Working

LEMMA NextAtWork == WorkInv /\ [Next]_vars => WorkInv'
  <1> SUFFICES ASSUME WorkInv, [Next]_vars PROVE AtWork'
    BY NextOnDuty, NextWakeup DEF WorkInv
  <1>1. TypeOK /\ CalmInv /\ WakeupInv /\ AtWork
    BY DEF WorkInv, CalmInv
  <1>2. (pc # "mapping" => unmapped = {})'
    <2>1. UNCHANGED <<pc, unmapped>> \/ (pc # "mapping" /\ UNCHANGED unmapped)
            \/ \E f \in Files : SubmitTask(f)
      BY DEF Next, vars, clientVars, Terminate, HandleMessage, HandleExit, HandleError,
             Answer, Crash
    <2>2. QED
      BY <1>1, <2>1 DEF AtWork, SubmitTask
  <1>3. SUFFICES ASSUME pc' # "released", Calm', crashes' = 0
                 PROVE  Working(workers', pendingTasks', inbox', outbox')
    BY <1>2 DEF AtWork
  <1> DEFINE Goal == Working(workers', pendingTasks', inbox', outbox')
  <1>4. /\ \A p \in Procs : ~HandleError(p) /\ ~Crash(p)
        /\ Calm /\ crashes = 0 /\ pc # "released"
    <2>1. \A p \in Procs : HandleError(p) => errors' = errors + 1
      BY DEF HandleError
    <2>2. \A p \in Procs : Crash(p) => crashes' = crashes + 1
      BY DEF Crash
    <2>3. \A p \in Procs : ~HandleError(p) /\ ~Crash(p)
      BY <1>1, <1>3, <2>1, <2>2 DEF TypeOK, Calm
    <2>4. UNCHANGED <<crashes, errors>> /\ (UNCHANGED forkFailures \/ forkFailures' = forkFailures + 1)
      BY <2>3 DEF Next, vars, childVars, forkVars, SubmitTask, Terminate, HandleMessage,
                  HandleExit, Answer, CreateWorker
    <2>5. pc' = "released" \/ pc' = "awaiting" \/ UNCHANGED pc
      BY <2>3 DEF Next, vars, clientVars, SubmitTask, Terminate, HandleMessage,
                  HandleExit, Answer
    <2>6. pc = "released" => UNCHANGED pc
      BY <2>3 DEF Next, vars, clientVars, SubmitTask, Terminate, HandleMessage,
                  HandleExit, Answer, EventLoop, Awaiting
    <2>7. QED
      BY <1>1, <1>3, <2>3, <2>4, <2>6 DEF TypeOK, Calm
  <1>5. /\ Working(workers, pendingTasks, inbox, outbox)
        /\ OnDuty /\ Manned(workers) /\ Apart(inbox, outbox)
        /\ Channels(workers, pendingTasks, Settled, inbox, outbox)
        /\ exitPending = {} /\ errorPending = {}
        /\ \A i \in DOMAIN workers : workers[i].proc \in up
    BY <1>1, <1>4 DEF AtWork, CalmInv, OnDuty, Channels, WakeupInv, Undisturbed
  <1>6. /\ inbox \in InboxType /\ outbox \in OutboxType
        /\ workers \in Seq(SlotRec) /\ taskQueue \in Seq(Files)
        /\ pendingTasks \in SUBSET Files
    BY <1>1 DEF TypeOK, InboxType, OutboxType, SlotRec, AnswerRec
  <1>7. \A i, j \in DOMAIN workers : i # j => workers[i].proc # workers[j].proc
    BY <1>5 DEF Manned
  <1>8. \A i \in Idle(workers) : inbox[workers[i].proc] = <<>> /\ outbox[workers[i].proc] = <<>>
    BY <1>5 DEF Channels, Manned, InService, Idle, Busy
  <1>9. ASSUME NEW f \in Files, SubmitTask(f) PROVE Goal
    <2>1. CASE oomCount >= OOM_LIMIT
      BY <1>5, <1>9, <2>1 DEF SubmitTask
    <2>2. CASE ~(oomCount >= OOM_LIMIT)
      <3>1. /\ ProcessNextTask(Append(taskQueue, f), workers, pendingTasks)
            /\ UNCHANGED outbox
        BY <1>9, <2>2 DEF SubmitTask
      <3>2. Append(taskQueue, f) \in Seq(Files)
        BY <1>6, AppendProperties
      <3>3. QED
        BY <1>1, <1>5, <1>6, <1>7, <1>8, <3>1, <3>2, ProcessNextTaskAtWork DEF Ready
    <2>3. QED
      BY <2>1, <2>2
  <1>10. CASE Terminate
    BY <1>3, <1>10 DEF Terminate
  <1>11. ASSUME NEW p \in Procs, HandleMessage(p) PROVE Goal
    <2> DEFINE m    == Head(outbox[p])
               id   == slotOf[p]
               pd   == pendingTasks \ {m.task}
               w    == Vacate(workers, id)
               read == Read(outbox, p)
    <2>1. outbox[p] # <<>> /\ outbox' = read
      BY <1>11 DEF HandleMessage, Read
    <2>2. Held(inbox, outbox, p) = {m.task} /\ m.task \in pendingTasks
      BY <1>5, <1>6, <2>1, HeldAnswered DEF Apart, Working
    <2>3. /\ read \in OutboxType
          /\ inbox[p] = <<>> /\ read[p] = <<>>
          /\ Held(inbox, read, p) = {}
          /\ \A q \in Procs : q # p => /\ read[q] = outbox[q]
                                      /\ Held(inbox, read, q) = Held(inbox, outbox, q)
      BY <1>5, <1>6, <2>1, HeldRead DEF Apart
    <2> HIDE DEF m, read
    <2>4. p \in up /\ id \in DOMAIN workers /\ workers[id].proc = p
      <3>1. m.task \notin Settled
        BY <1>1, <1>4, <2>2 DEF CalmInv, TaskAccounting
      <3>2. p \in InService
        BY <1>5, <2>2, <3>1 DEF Channels
      <3>3. QED
        BY <1>1, <1>5, <3>2 DEF InService, Manned, TypeOK
    <2>5. ProcessNextTask(taskQueue, w, pd)
      BY <1>11, <2>2, <2>4 DEF HandleMessage, Unanswered, m
    <2>6. /\ w \in Seq(SlotRec) /\ DOMAIN w = DOMAIN workers
          /\ \A j \in DOMAIN workers : w[j].proc = workers[j].proc
          /\ Idle(w) = Idle(workers) \cup {id}
          /\ Busy(w) = Busy(workers) \ {id}
      <3>1. /\ w \in Seq(SlotRec) /\ DOMAIN w = DOMAIN workers
            /\ \A j \in DOMAIN workers : w[j].proc = workers[j].proc
            /\ Idle(w) = Idle(workers) \cup ({id} \cap DOMAIN workers)
        BY <1>6, VacateProperties
      <3>2. /\ Busy(w) = DOMAIN w \ Idle(w)
            /\ Busy(workers) = DOMAIN workers \ Idle(workers)
        BY DEF Idle, Busy
      <3>3. QED
        BY <2>4, <3>1, <3>2
    <2> HIDE DEF w
    <2>7. \A j \in DOMAIN workers : j # id => workers[j].proc # p /\ workers[j].proc \in Procs
      BY <1>1, <1>5, <1>7, <2>4 DEF TypeOK
    <2>8. Ready(w, inbox, read)
      <3>1. \A i \in Idle(w) : inbox[w[i].proc] = <<>> /\ read[w[i].proc] = <<>>
        <4> SUFFICES ASSUME NEW i \in Idle(w)
                     PROVE  inbox[w[i].proc] = <<>> /\ read[w[i].proc] = <<>>
          OBVIOUS
        <4>1. CASE i = id
          BY <2>3, <2>4, <2>6, <4>1
        <4>2. CASE i # id
          <5>1. i \in Idle(workers) /\ i \in DOMAIN workers /\ w[i].proc = workers[i].proc
            BY <2>6, <4>2 DEF Idle
          <5>2. QED
            BY <1>8, <2>3, <2>7, <4>2, <5>1
        <4>3. QED
          BY <4>1, <4>2
      <3>2. QED
        BY <1>5, <1>7, <2>6, <3>1 DEF Ready
    <2>9. Working(w, pd, inbox, read)
      <3>1. ASSUME NEW i \in Busy(w) PROVE inbox[w[i].proc] # <<>> \/ read[w[i].proc] # <<>>
        <4>1. i \in Busy(workers) /\ i # id /\ i \in DOMAIN workers
          BY <2>6 DEF Busy
        <4>2. QED
          BY <1>5, <2>3, <2>6, <2>7, <4>1 DEF Working
      <3>2. ASSUME NEW q \in Procs PROVE Held(inbox, read, q) \subseteq pd
        <4>1. CASE q = p
          BY <2>3, <4>1
        <4>2. CASE q # p
          BY <1>5, <2>2, <2>3, <4>2 DEF Working, Apart
        <4>3. QED
          BY <4>1, <4>2
      <3>3. QED
        BY <3>1, <3>2 DEF Working
    <2> HIDE DEF pd, id
    <2>10. QED
      <3>1. TypeOK /\ exitPending = {} /\ taskQueue \in Seq(Files)
        BY <1>1, <1>5, <1>6
      <3>2. w \in Seq(SlotRec) /\ read \in OutboxType
        BY <2>3, <2>6
      <3>3. Working(workers', pendingTasks', inbox', read)
        BY <2>5, <2>8, <2>9, <3>1, <3>2, ProcessNextTaskAtWork
      <3>4. QED
        BY <2>1, <3>3
  <1>12. ASSUME NEW p \in Procs, HandleExit(p) PROVE Goal
    BY <1>5, <1>12 DEF HandleExit
  <1>13. ASSUME NEW p \in Procs, Answer(p) PROVE Goal
    <2>1. PICK k \in AnswerKinds :
            /\ inbox[p] # <<>>
            /\ inbox' = Taken(inbox, p) /\ outbox' = Replied(inbox, outbox, p, k)
            /\ UNCHANGED <<workers, pendingTasks>>
      BY <1>13 DEF Answer, Taken, Replied, poolVars
    <2>2. k \in Answers /\ Load(inbox, outbox, p) <= 1
      BY <1>5, PoolAssumption DEF Apart
    <2>3. /\ Len(outbox'[p]) = 1
          /\ Held(inbox', outbox', p) = Held(inbox, outbox, p)
          /\ \A q \in Procs : q # p =>
               /\ inbox'[q] = inbox[q] /\ outbox'[q] = outbox[q]
               /\ Held(inbox', outbox', q) = Held(inbox, outbox, q)
      BY <1>6, <2>1, <2>2, HeldReplied
    <2>4. outbox'[p] # <<>>
      BY <2>3, EmptySeq
    <2>5. \A i \in DOMAIN workers : workers[i].proc \in Procs
      BY <1>1, <1>5 DEF TypeOK
    <2>6. QED
      BY <1>5, <2>1, <2>3, <2>4, <2>5 DEF Working, Busy
  <1>14. CASE UNCHANGED vars
    BY <1>5, <1>14 DEF vars, poolVars, childVars
  <1>15. QED
    BY <1>4, <1>9, <1>10, <1>11, <1>12, <1>13, <1>14 DEF Next

\* Whenever the client of a calm pool waits, the pool has an event to handle or
\* a running child has a task to answer, or a task was queued when a child died.
THEOREM NeverWaitsForNothing == Spec => []NeverStuck
  <1>1. WorkInv => NeverStuck
    <2> SUFFICES ASSUME WorkInv, Calm, Awaiting, exitPending = {}, errorPending = {},
                        \A p \in Procs : outbox[p] = <<>>,
                        \A p \in up : inbox[p] = <<>>,
                        crashes > 0 => taskQueue = <<>>
                 PROVE  FALSE
      BY DEF NeverStuck
    <2>1. /\ TypeOK /\ TaskAccounting /\ OnDuty /\ unmapped = {}
          /\ Settled # Files /\ pc # "released"
      BY DEF WorkInv, CalmInv, Awaiting, AtWork
    <2>2. \A p \in Procs : inbox[p] = <<>> /\ outbox[p] = <<>>
      BY <2>1 DEF OnDuty, Channels
    <2>3. \A p \in Procs : Held(inbox, outbox, p) = {}
      BY <2>2, HeldNothing
    <2>4. \A i \in DOMAIN workers : workers[i].proc \in Procs
      <3>1. 1 .. nprocs \subseteq Procs
        BY <2>1, PoolAssumption DEF TypeOK, Procs
      <3>2. QED
        BY <2>1, <3>1 DEF OnDuty, Manned
    <2>5. pendingTasks = {}
      BY <2>1, <2>3, <2>4 DEF OnDuty, Served, Busy
    <2>6. Queued # {}
      BY <2>1, <2>5 DEF TaskAccounting, Settled
    <2>7. taskQueue # <<>>
      BY <2>6 DEF Queued, Range
    <2>8. crashes = 0
      BY <2>1, <2>7 DEF TypeOK
    <2>9. Busy(workers) = DOMAIN workers /\ 1 \in DOMAIN workers
      BY <2>1, <2>7, <2>8, PoolAssumption DEF WorkInv, WakeupInv, NoLostWakeup, OnDuty, Manned
    <2>10. Working(workers, pendingTasks, inbox, outbox)
      BY <2>1, <2>8 DEF WorkInv, AtWork
    <2>11. QED
      BY <2>2, <2>4, <2>9, <2>10 DEF Working
  <1>2. QED
    BY <1>1, InitAtWork, NextAtWork, PTL DEF Spec

-----------------------------------------------------------------------------
(* One fork per death *)

\* Adding an element to a finite set and taking one out.
LEMMA OneMore ==
  ASSUME NEW S, IsFiniteSet(S), NEW x
  PROVE  /\ IsFiniteSet(S \cup {x}) /\ Cardinality(S \cup {x}) \in Nat
         /\ Cardinality(S \cup {x}) <= Cardinality(S) + 1
  <1>1. IsFiniteSet(S \cup {x}) /\ (Cardinality(S \cup {x}) = Cardinality(S) \/ Cardinality(S \cup {x}) = Cardinality(S) + 1)
    BY FS_AddElement
  <1>2. Cardinality(S) \in Nat
    BY FS_CardinalityType
  <1>3. QED
    BY <1>1, <1>2

LEMMA OneLess ==
  ASSUME NEW S, IsFiniteSet(S), NEW x \in S
  PROVE  /\ IsFiniteSet(S \ {x}) /\ Cardinality(S) \in Nat
         /\ Cardinality(S \ {x}) = Cardinality(S) - 1
         /\ Cardinality(S \ {x}) \in Nat
  BY FS_RemoveElement, FS_CardinalityType

\* Sets of children are finite.
LEMMA ProcsFinite ==
  ASSUME NEW S \in SUBSET Procs
  PROVE  IsFiniteSet(S) /\ Cardinality(S) \in Nat
  <1>1. IsFiniteSet(Procs)
    BY PoolAssumption, FS_Interval DEF Procs
  <1>2. QED
    BY <1>1, FS_Subset, FS_CardinalityType

ForkInv == TypeOK /\ OneForkPerDeath

LEMMA NextForks == ForkInv /\ [Next]_vars => ForkInv'
  <1> SUFFICES ASSUME ForkInv, [Next]_vars, Calm'
               PROVE  nprocs' + Cardinality(exitPending') <= MaxWorkers + crashes'
    BY NextType DEF ForkInv, OneForkPerDeath
  <1>1. TypeOK /\ nprocs \in Nat /\ crashes \in Nat /\ MaxWorkers \in Nat
    <2>1. nprocs \in 0 .. MaxProcs /\ crashes \in Nat
      BY DEF ForkInv, TypeOK
    <2>2. QED
      BY <2>1, PoolAssumption DEF ForkInv
  <1>2. Calm /\ \A p \in Procs : ~HandleError(p)
    <2>1. \A p \in Procs : HandleError(p) => errors' = errors + 1
      BY DEF HandleError
    <2>2. \A p \in Procs : ~HandleError(p)
      BY <1>1, <2>1 DEF TypeOK, Calm
    <2>3. UNCHANGED errors /\ (UNCHANGED forkFailures \/ forkFailures' = forkFailures + 1)
      BY <2>2 DEF Next, vars, childVars, forkVars, SubmitTask, Terminate, HandleMessage,
                  HandleExit, Answer, Crash, CreateWorker
    <2>4. QED
      BY <1>1, <2>2, <2>3 DEF TypeOK, Calm
  <1>3. nprocs + Cardinality(exitPending) <= MaxWorkers + crashes
    BY <1>2 DEF ForkInv, OneForkPerDeath
  <1>4. IsFiniteSet(exitPending) /\ Cardinality(exitPending) \in Nat
    BY <1>1, ProcsFinite DEF TypeOK
  <1>5. ASSUME NEW p \in Procs, HandleExit(p)
        PROVE  nprocs' + Cardinality(exitPending') <= MaxWorkers + crashes'
    <2>1. p \in exitPending /\ exitPending' = exitPending \ {p} /\ UNCHANGED crashes
      BY <1>5 DEF HandleExit
    <2>2. nprocs' = nprocs \/ nprocs' = nprocs + 1
      BY <1>5 DEF HandleExit, CreateWorker, forkVars
    <2>3. Cardinality(exitPending') = Cardinality(exitPending) - 1
      BY <1>4, <2>1, OneLess
    <2>4. QED
      BY <1>1, <1>3, <1>4, <2>1, <2>2, <2>3
  <1>6. ASSUME NEW p \in Procs, Crash(p)
        PROVE  nprocs' + Cardinality(exitPending') <= MaxWorkers + crashes'
    <2>1. exitPending' = exitPending \cup {p} /\ crashes' = crashes + 1 /\ UNCHANGED nprocs
      BY <1>6 DEF Crash, forkVars
    <2>2. Cardinality(exitPending') <= Cardinality(exitPending) + 1 /\ Cardinality(exitPending') \in Nat
      BY <1>4, <2>1, OneMore
    <2>3. QED
      BY <1>1, <1>3, <1>4, <2>1, <2>2
  <1>7. CASE UNCHANGED <<nprocs, exitPending, crashes>>
    BY <1>3, <1>7
  <1>8. QED
    BY <1>2, <1>5, <1>6, <1>7 DEF Next, vars, forkVars, childVars, SubmitTask, Terminate,
                                  HandleMessage, Answer

\* A calm pool has forked at most one child for each death whose exit it has
\* handled, however often children answer late or are refilled.
THEOREM ForksMatchDeaths == Spec => []OneForkPerDeath
  <1>1. Init => ForkInv
    <2> SUFFICES ASSUME Init PROVE OneForkPerDeath
      BY InitType DEF ForkInv
    <2>1. Cardinality(exitPending) = 0
      BY FS_EmptySet DEF Init
    <2>2. QED
      BY <2>1, PoolAssumption DEF Init, OneForkPerDeath
  <1>2. ForkInv => OneForkPerDeath
    BY DEF ForkInv
  <1>3. QED
    BY <1>1, <1>2, NextForks, PTL DEF Spec

-----------------------------------------------------------------------------
(* Every step goes down a well-founded order *)

\* What a function maps a finite set to is finite.
LEMMA ImageFinite ==
  ASSUME NEW S, IsFiniteSet(S), NEW T, NEW f \in [S -> T]
  PROVE  IsFiniteSet({f[x] : x \in S})
  <1> DEFINE I == {f[x] : x \in S}
  <1>1. f \in Surjection(S, I)
    BY DEF Surjection
  <1>2. QED
    BY <1>1, FS_Surjection

\* The messages on the channels are finitely many.
LEMMA TrafficFinite ==
  ASSUME NEW S, NEW channel \in [Procs -> Seq(S)]
  PROVE  IsFiniteSet(Traffic(channel)) /\ Cardinality(Traffic(channel)) \in Nat
  <1> DEFINE row(p) == {<<p, i>> : i \in DOMAIN channel[p]}
             rows   == [p \in Procs |-> row(p)]
  <1>1. ASSUME NEW p \in Procs PROVE IsFiniteSet(row(p))
    <2> DEFINE f == [i \in DOMAIN channel[p] |-> <<p, i>>]
    <2>1. IsFiniteSet(DOMAIN channel[p])
      BY LenProperties, FS_Interval
    <2>2. f \in Surjection(DOMAIN channel[p], row(p))
      BY DEF Surjection
    <2>3. QED
      BY <2>1, <2>2, FS_Surjection
  <1> HIDE DEF row
  <1>2. rows \in [Procs -> {row(p) : p \in Procs}] /\ IsFiniteSet(Procs)
    BY ProcsFinite
  <1>3. \A p \in Procs : rows[p] = row(p)
    OBVIOUS
  <1> HIDE DEF rows
  <1>4. IsFiniteSet({rows[p] : p \in Procs})
    BY <1>2, ImageFinite
  <1>5. \A T \in {rows[p] : p \in Procs} : IsFiniteSet(T)
    BY <1>1, <1>3
  <1>6. IsFiniteSet(UNION {rows[p] : p \in Procs})
    BY <1>4, <1>5, FS_UNION
  <1>7. {rows[p] : p \in Procs} = {row(p) : p \in Procs}
    BY <1>3
  <1>8. Traffic(channel) = UNION {row(p) : p \in Procs}
    BY DEF Traffic, row
  <1>9. QED
    BY <1>6, <1>7, <1>8, FS_CardinalityType

\* Taking the first message of channel p leaves one message less.
LEMMA TrafficTaken ==
  ASSUME NEW S, NEW channel \in [Procs -> Seq(S)], NEW p \in Procs, channel[p] # <<>>
  PROVE  Cardinality(Traffic([channel EXCEPT ![p] = Tail(@)])) < Cardinality(Traffic(channel))
  <1> DEFINE left == [channel EXCEPT ![p] = Tail(@)]
             n    == Len(channel[p])
  <1>1. /\ DOMAIN channel[p] = 1 .. n /\ n \in Nat \ {0}
        /\ Tail(channel[p]) \in Seq(S) /\ DOMAIN Tail(channel[p]) = 1 .. n - 1
    BY LenProperties, EmptySeq, HeadTailProperties
  <1>2. left[p] = Tail(channel[p]) /\ \A q \in Procs : q # p => left[q] = channel[q]
    OBVIOUS
  <1> HIDE DEF left, n
  <1>3. /\ DOMAIN left[p] = DOMAIN channel[p] \ {n} /\ n \in DOMAIN channel[p]
        /\ \A q \in Procs : q # p => DOMAIN left[q] = DOMAIN channel[q]
    BY <1>1, <1>2
  <1>4. Traffic(left) = Traffic(channel) \ {<<p, n>>} /\ <<p, n>> \in Traffic(channel)
    <2>1. \A q, i : <<q, i>> \in Traffic(channel) <=> q \in Procs /\ i \in DOMAIN channel[q]
      BY DEF Traffic
    <2>2. \A q, i : <<q, i>> \in Traffic(left) <=> q \in Procs /\ i \in DOMAIN left[q]
      BY DEF Traffic
    <2>3. /\ \A x \in Traffic(channel) : \E q, i : x = <<q, i>>
          /\ \A x \in Traffic(left) : \E q, i : x = <<q, i>>
      BY DEF Traffic
    <2>4. \A q, i : <<q, i>> \in Traffic(left) <=> <<q, i>> \in Traffic(channel) /\ <<q, i>> # <<p, n>>
      BY <1>3, <2>1, <2>2
    <2>5. <<p, n>> \in Traffic(channel)
      BY <1>3, <2>1
    <2>6. QED
      BY <2>3, <2>4, <2>5
  <1>5. QED
    <2>1. IsFiniteSet(Traffic(channel))
      BY TrafficFinite
    <2>2. /\ Cardinality(Traffic(left)) = Cardinality(Traffic(channel)) - 1
          /\ Cardinality(Traffic(channel)) \in Nat
      BY <1>4, <2>1, OneLess
    <2>3. QED
      BY <2>2 DEF left

\* How each component of the rank can be the first that falls.
LEMMA FirstToFall ==
  ASSUME NEW a, NEW b, DOMAIN b = 1 .. 8
  PROVE  /\ a[1] < b[1] => Lower(a, b)
         /\ a[1] = b[1] /\ a[2] < b[2] => Lower(a, b)
         /\ a[1] = b[1] /\ a[2] = b[2] /\ a[3] < b[3] => Lower(a, b)
         /\ a[1] = b[1] /\ a[2] = b[2] /\ a[3] = b[3] /\ a[4] < b[4] => Lower(a, b)
         /\ a[1] = b[1] /\ a[2] = b[2] /\ a[3] = b[3] /\ a[4] = b[4] /\ a[5] < b[5] => Lower(a, b)
         /\ (\A j \in 1 .. 5 : a[j] = b[j]) /\ a[6] < b[6] => Lower(a, b)
         /\ (\A j \in 1 .. 6 : a[j] = b[j]) /\ a[7] < b[7] => Lower(a, b)
         /\ (\A j \in 1 .. 7 : a[j] = b[j]) /\ a[8] < b[8] => Lower(a, b)
  BY DEF Lower

\* The bounds on deaths and failed forks, which the rank counts down to.
RankInv == TypeOK /\ crashes <= MaxCrashes /\ forkFailures <= MaxForkFailures /\ unmapped \in SUBSET Files

LEMMA RankInvHolds == Spec => []RankInv
  <1>1. Init => RankInv
    <2> SUFFICES ASSUME Init PROVE RankInv
      OBVIOUS
    <2>1. forkFailures <= MaxForkFailures /\ crashes = 0 /\ unmapped = Files
      BY DEF Init
    <2>2. QED
      BY <2>1, InitType, PoolAssumption DEF RankInv
  <1>2. RankInv /\ [Next]_vars => RankInv'
    <2> SUFFICES ASSUME RankInv, [Next]_vars PROVE RankInv'
      OBVIOUS
    <2>1. TypeOK' /\ TypeOK
      BY NextType DEF RankInv
    <2>2. UNCHANGED crashes \/ (crashes' = crashes + 1 /\ crashes < MaxCrashes)
      BY DEF Next, vars, childVars, SubmitTask, Terminate, HandleMessage, HandleExit,
             HandleError, Answer, Crash
    <2>3. \/ UNCHANGED forkFailures
          \/ forkFailures' = forkFailures + 1 /\ forkFailures < MaxForkFailures
      BY DEF Next, vars, forkVars, SubmitTask, Terminate, HandleMessage, HandleExit,
             HandleError, Answer, Crash, CreateWorker
    <2>4. unmapped' \in SUBSET Files
      BY <2>1 DEF TypeOK
    <2>5. crashes \in Nat /\ forkFailures \in Nat
      BY <2>1 DEF TypeOK
    <2>6. QED
      BY <2>1, <2>2, <2>3, <2>4, <2>5, PoolAssumption DEF RankInv
  <1>3. QED
    BY <1>1, <1>2, PTL DEF Spec

\* The parts of the rank are natural numbers.
LEMMA RankParts ==
  ASSUME RankInv
  PROVE  /\ IsFiniteSet(unmapped) /\ Cardinality(unmapped) \in Nat
         /\ (MaxProcs - nprocs) + (MaxForkFailures - forkFailures) + (MaxCrashes - crashes) \in Nat
         /\ Len(taskQueue) \in Nat
         /\ Cardinality(errorPending) \in Nat
         /\ Cardinality(exitPending) \in Nat
         /\ Cardinality(Traffic(inbox)) \in Nat
         /\ Cardinality(Traffic(outbox)) \in Nat
  <1>1. IsFiniteSet(unmapped) /\ Cardinality(unmapped) \in Nat
    BY PoolAssumption, FS_Subset, FS_CardinalityType DEF RankInv
  <1>2. /\ nprocs \in 0 .. MaxProcs /\ crashes \in Nat /\ forkFailures \in Nat
        /\ crashes <= MaxCrashes /\ forkFailures <= MaxForkFailures
    BY DEF RankInv, TypeOK
  <1>3. (MaxProcs - nprocs) + (MaxForkFailures - forkFailures) + (MaxCrashes - crashes) \in Nat
    BY <1>2, PoolAssumption
  <1>4. Len(taskQueue) \in Nat
    BY LenProperties DEF RankInv, TypeOK
  <1>5. Cardinality(errorPending) \in Nat /\ Cardinality(exitPending) \in Nat
    BY ProcsFinite DEF RankInv, TypeOK
  <1>6. Cardinality(Traffic(inbox)) \in Nat /\ Cardinality(Traffic(outbox)) \in Nat
    BY TrafficFinite DEF RankInv, TypeOK
  <1>7. QED
    BY <1>1, <1>3, <1>4, <1>5, <1>6

\* processNextTask() shortens the queue it is given, or touches nothing else.
LEMMA ProcessNextTaskShortens ==
  ASSUME NEW q \in Seq(Files), NEW w, NEW pd, ProcessNextTask(q, w, pd)
  PROVE  \/ Len(taskQueue') < Len(q)
         \/ taskQueue' = q /\ UNCHANGED <<inbox, errorPending>>
  <1>1. CASE q = <<>> \/ Idle(w) = {}
    BY <1>1 DEF ProcessNextTask
  <1>2. CASE ~(q = <<>> \/ Idle(w) = {})
    <2>1. taskQueue' = Tail(q)
      BY <1>2 DEF ProcessNextTask, Dequeued
    <2>2. Len(Tail(q)) = Len(q) - 1 /\ Len(q) \in Nat
      BY <1>2, HeadTailProperties, LenProperties
    <2>3. QED
      BY <2>1, <2>2
  <1>3. QED
    BY <1>1, <1>2

\* createWorker() uses up a fork or a failure.
LEMMA CreateWorkerUses ==
  ASSUME NEW id, NEW w, NEW alive, CreateWorker(id, w, alive)
  PROVE  \/ nprocs' = nprocs + 1 /\ forkFailures' = forkFailures
         \/ nprocs' = nprocs /\ forkFailures' = forkFailures + 1
  BY DEF CreateWorker

\* One fork, one failed fork or one death more leaves one less to come.
LEMMA OneLessToCome ==
  ASSUME NEW P \in Nat, NEW F \in Nat, NEW C \in Nat, NEW n \in Nat, NEW f \in Nat, NEW c \in Nat
  PROVE  /\ (P - (n + 1)) + (F - f) + (C - c) < (P - n) + (F - f) + (C - c)
         /\ (P - n) + (F - (f + 1)) + (C - c) < (P - n) + (F - f) + (C - c)
         /\ (P - n) + (F - f) + (C - (c + 1)) < (P - n) + (F - f) + (C - c)
  OBVIOUS

\* A set of children without one of them.
LEMMA OneChildLess ==
  ASSUME NEW S \in SUBSET Procs, NEW p \in S
  PROVE  Cardinality(S \ {p}) < Cardinality(S)
  <1>1. IsFiniteSet(S)
    BY ProcsFinite
  <1>2. Cardinality(S \ {p}) = Cardinality(S) - 1 /\ Cardinality(S) \in Nat
    BY <1>1, OneLess
  <1>3. QED
    BY <1>2

\* The values and the length of the rank.
LEMMA RankEntries ==
  /\ DOMAIN Rank = 1 .. 8
  /\ Rank[1] = Cardinality(unmapped)
  /\ Rank[2] = IF pc = "released" THEN 0 ELSE 1
  /\ Rank[3] = (MaxProcs - nprocs) + (MaxForkFailures - forkFailures) + (MaxCrashes - crashes)
  /\ Rank[4] = Len(taskQueue)
  /\ Rank[5] = Cardinality(errorPending)
  /\ Rank[6] = Cardinality(exitPending)
  /\ Rank[7] = Cardinality(Traffic(inbox))
  /\ Rank[8] = Cardinality(Traffic(outbox))
  BY DEF Rank

LEMMA RankEntriesNext ==
  /\ Rank'[1] = Cardinality(unmapped')
  /\ Rank'[2] = IF pc' = "released" THEN 0 ELSE 1
  /\ Rank'[3] = (MaxProcs - nprocs') + (MaxForkFailures - forkFailures') + (MaxCrashes - crashes')
  /\ Rank'[4] = Len(taskQueue')
  /\ Rank'[5] = Cardinality(errorPending')
  /\ Rank'[6] = Cardinality(exitPending')
  /\ Rank'[7] = Cardinality(Traffic(inbox'))
  /\ Rank'[8] = Cardinality(Traffic(outbox'))
  BY DEF Rank, Traffic

LEMMA NextAdvances == RankInv /\ RankInv' /\ Next => Lower(Rank', Rank)
  <1> SUFFICES ASSUME RankInv, RankInv', Next PROVE Lower(Rank', Rank)
    OBVIOUS
  <1> DEFINE Goal == Lower(Rank', Rank)
  <1>1. /\ TypeOK
        /\ nprocs \in Nat /\ crashes \in Nat /\ forkFailures \in Nat
        /\ MaxProcs \in Nat /\ MaxCrashes \in Nat /\ MaxForkFailures \in Nat
        /\ nprocs' \in Nat /\ crashes' \in Nat /\ forkFailures' \in Nat
    <2>1. TypeOK /\ TypeOK'
      BY DEF RankInv
    <2>2. /\ nprocs \in 0 .. MaxProcs /\ crashes \in Nat /\ forkFailures \in Nat
          /\ nprocs' \in 0 .. MaxProcs /\ crashes' \in Nat /\ forkFailures' \in Nat
      BY <2>1 DEF TypeOK
    <2>3. QED
      BY <2>1, <2>2, PoolAssumption
  <1>2. /\ inbox \in [Procs -> Seq(Files)] /\ outbox \in [Procs -> Seq(AnswerRec)]
        /\ taskQueue \in Seq(Files) /\ exitPending \in SUBSET Procs /\ errorPending \in SUBSET Procs
    BY <1>1 DEF TypeOK, AnswerRec
  <1>3. ASSUME NEW f \in Files, SubmitTask(f) PROVE Goal
    <2>1. f \in unmapped /\ unmapped' = unmapped \ {f}
      BY <1>3 DEF SubmitTask
    <2>2. IsFiniteSet(unmapped)
      BY RankParts
    <2>3. Cardinality(unmapped') < Cardinality(unmapped)
      BY <2>1, <2>2, OneLess
    <2>4. QED
      BY <2>3, RankEntries, RankEntriesNext, FirstToFall
  <1>4. CASE Terminate
    <2>1. pc = "awaiting" /\ pc' = "released" /\ UNCHANGED unmapped
      BY <1>4 DEF Terminate
    <2>2. QED
      BY <2>1, RankEntries, RankEntriesNext, FirstToFall
  <1>5. ASSUME NEW p \in Procs, HandleMessage(p) PROVE Goal
    <2>1. /\ UNCHANGED <<pc, unmapped, nprocs, forkFailures, crashes, exitPending>>
          /\ outbox[p] # <<>> /\ outbox' = [outbox EXCEPT ![p] = Tail(@)]
          /\ \/ UNCHANGED <<taskQueue, inbox, errorPending>>
             \/ ProcessNextTask(taskQueue, Vacate(workers, slotOf[p]), Unanswered(Head(outbox[p]).task))
      BY <1>5 DEF HandleMessage, forkVars
    <2>2. Cardinality(Traffic(outbox')) < Cardinality(Traffic(outbox))
      BY <1>2, <2>1, TrafficTaken
    <2>3. \/ Len(taskQueue') < Len(taskQueue)
          \/ UNCHANGED <<taskQueue, inbox, errorPending>>
      BY <1>2, <2>1, ProcessNextTaskShortens
    <2>4. /\ Rank'[1] = Rank[1] /\ Rank'[2] = Rank[2] /\ Rank'[3] = Rank[3] /\ Rank'[6] = Rank[6]
          /\ UNCHANGED taskQueue => Rank'[4] = Rank[4]
          /\ UNCHANGED errorPending => Rank'[5] = Rank[5]
          /\ UNCHANGED inbox => Rank'[7] = Rank[7]
      BY <2>1, RankEntries, RankEntriesNext
    <2>5. CASE Len(taskQueue') < Len(taskQueue)
      BY <2>4, <2>5, RankEntries, RankEntriesNext, FirstToFall
    <2>6. CASE UNCHANGED <<taskQueue, inbox, errorPending>>
      <3>1. \A j \in 1 .. 7 : Rank'[j] = Rank[j]
        BY <2>4, <2>6
      <3>2. QED
        BY <2>2, <3>1, RankEntries, RankEntriesNext, FirstToFall
    <2>7. QED
      BY <2>3, <2>5, <2>6
  <1>6. ASSUME NEW p \in Procs, HandleExit(p) PROVE Goal
    <2>1. /\ UNCHANGED <<pc, unmapped, taskQueue, crashes, errorPending>>
          /\ p \in exitPending /\ exitPending' = exitPending \ {p}
          /\ \/ UNCHANGED forkVars
             \/ CreateWorker(slotOf[p], Vacate(workers, slotOf[p]), up)
      BY <1>6 DEF HandleExit
    <2>2. /\ Rank'[1] = Rank[1] /\ Rank'[2] = Rank[2] /\ Rank'[4] = Rank[4] /\ Rank'[5] = Rank[5]
          /\ UNCHANGED forkVars => Rank'[3] = Rank[3]
      BY <2>1, RankEntries, RankEntriesNext DEF forkVars
    <2>3. CASE UNCHANGED forkVars
      <3>1. \A j \in 1 .. 5 : Rank'[j] = Rank[j]
        BY <2>2, <2>3
      <3>2. Cardinality(exitPending') < Cardinality(exitPending)
        BY <1>2, <2>1, OneChildLess
      <3>3. QED
        BY <3>1, <3>2, RankEntries, RankEntriesNext, FirstToFall
    <2>4. CASE CreateWorker(slotOf[p], Vacate(workers, slotOf[p]), up)
      <3>1. Rank'[3] < Rank[3]
        <4>1. \/ nprocs' = nprocs + 1 /\ forkFailures' = forkFailures
              \/ nprocs' = nprocs /\ forkFailures' = forkFailures + 1
          BY <2>4, CreateWorkerUses
        <4>2. (MaxProcs - nprocs') + (MaxForkFailures - forkFailures') + (MaxCrashes - crashes)
                < (MaxProcs - nprocs) + (MaxForkFailures - forkFailures) + (MaxCrashes - crashes)
          BY <1>1, <4>1, OneLessToCome
        <4>3. QED
          BY <2>1, <4>2, RankEntries, RankEntriesNext
      <3>2. QED
        BY <2>2, <3>1, RankEntries, FirstToFall
    <2>5. QED
      BY <2>1, <2>3, <2>4
  <1>7. ASSUME NEW p \in Procs, HandleError(p) PROVE Goal
    <2>1. /\ UNCHANGED <<pc, unmapped, taskQueue, crashes>>
          /\ p \in errorPending /\ errorPending' = errorPending \ {p}
          /\ \/ \E alive : CreateWorker(slotOf[p], workers, alive)
             \/ UNCHANGED forkVars
      BY <1>7 DEF HandleError, clientVars
    <2>2. /\ Rank'[1] = Rank[1] /\ Rank'[2] = Rank[2] /\ Rank'[4] = Rank[4]
          /\ UNCHANGED forkVars => Rank'[3] = Rank[3]
      BY <2>1, RankEntries, RankEntriesNext DEF forkVars
    <2>3. CASE UNCHANGED forkVars
      <3>1. Cardinality(errorPending') < Cardinality(errorPending)
        BY <1>2, <2>1, OneChildLess
      <3>2. QED
        BY <2>2, <2>3, <3>1, RankEntries, RankEntriesNext, FirstToFall
    <2>4. CASE \E alive : CreateWorker(slotOf[p], workers, alive)
      <3>1. Rank'[3] < Rank[3]
        <4>1. \/ nprocs' = nprocs + 1 /\ forkFailures' = forkFailures
              \/ nprocs' = nprocs /\ forkFailures' = forkFailures + 1
          BY <2>4, CreateWorkerUses
        <4>2. (MaxProcs - nprocs') + (MaxForkFailures - forkFailures') + (MaxCrashes - crashes)
                < (MaxProcs - nprocs) + (MaxForkFailures - forkFailures) + (MaxCrashes - crashes)
          BY <1>1, <4>1, OneLessToCome
        <4>3. QED
          BY <2>1, <4>2, RankEntries, RankEntriesNext
      <3>2. QED
        BY <2>2, <3>1, RankEntries, FirstToFall
    <2>5. QED
      BY <2>1, <2>3, <2>4
  <1>8. ASSUME NEW p \in Procs, Answer(p) PROVE Goal
    <2>1. /\ UNCHANGED <<pc, unmapped, nprocs, forkFailures, crashes, taskQueue, exitPending, errorPending>>
          /\ inbox[p] # <<>> /\ inbox' = [inbox EXCEPT ![p] = Tail(@)]
      BY <1>8 DEF Answer, clientVars, forkVars, poolVars
    <2>2. Cardinality(Traffic(inbox')) < Cardinality(Traffic(inbox))
      BY <1>2, <2>1, TrafficTaken
    <2>3. \A j \in 1 .. 6 : Rank'[j] = Rank[j]
      <3>1. /\ Rank'[1] = Rank[1] /\ Rank'[2] = Rank[2] /\ Rank'[3] = Rank[3]
            /\ Rank'[4] = Rank[4] /\ Rank'[5] = Rank[5] /\ Rank'[6] = Rank[6]
        BY <2>1, RankEntries, RankEntriesNext
      <3>2. QED
        BY <3>1
    <2>4. QED
      BY <2>2, <2>3, RankEntries, RankEntriesNext, FirstToFall
  <1>9. ASSUME NEW p \in Procs, Crash(p) PROVE Goal
    <2>1. UNCHANGED <<pc, unmapped, nprocs, forkFailures>> /\ crashes' = crashes + 1
      BY <1>9 DEF Crash, clientVars, forkVars
    <2>2. Rank'[1] = Rank[1] /\ Rank'[2] = Rank[2]
      BY <2>1, RankEntries, RankEntriesNext
    <2>3. Rank'[3] < Rank[3]
      BY <1>1, <2>1, RankEntries, RankEntriesNext
    <2>4. QED
      BY <2>2, <2>3, RankEntries, FirstToFall
  <1>10. QED
    BY <1>3, <1>4, <1>5, <1>6, <1>7, <1>8, <1>9 DEF Next

\* The pool cannot go on for ever without another death or failed fork: every
\* step of the client, of a handler or of a child lowers the rank.
THEOREM EveryStepAdvances == Spec => Advances
  <1>1. RankInv /\ RankInv' /\ [Next]_vars => [Lower(Rank', Rank)]_vars
    BY NextAdvances
  <1>2. QED
    BY <1>1, RankInvHolds, PTL DEF Spec, Advances

\* The ranks are tuples of natural numbers.
THEOREM RankIsNatural == Spec => [](Rank \in [1 .. 8 -> Nat])
  <1>1. RankInv => Rank \in [1 .. 8 -> Nat]
    <2> SUFFICES ASSUME RankInv PROVE Rank \in [1 .. 8 -> Nat]
      OBVIOUS
    <2>1. (IF pc = "released" THEN 0 ELSE 1) \in Nat
      OBVIOUS
    <2>2. QED
      BY <2>1, RankParts DEF Rank
  <1>2. QED
    BY <1>1, RankInvHolds, PTL

\* A fact about the order Lower and not about the code: no sequence of ranks of
\* one length goes down for ever.  EveryStepAdvances is what the pool is proved to do.
LEMMA RanksDoNotDescendForever ==
  ASSUME NEW n \in Nat
  PROVE  ~ \E rank \in [Nat -> [1 .. n -> Nat]] : \A t \in Nat : Lower(rank[t + 1], rank[t])
  <1> SUFFICES ASSUME NEW rank \in [Nat -> [1 .. n -> Nat]],
                      \A t \in Nat : Lower(rank[t + 1], rank[t])
               PROVE  FALSE
    OBVIOUS
  <1> DEFINE R == OpToRel(<, Nat)
             L == LexProductOrdering(R, Nat, n)
  <1>1. IsWellFoundedOn(L, [1 .. n -> Nat])
    BY NatLessThanWellFounded, WFLexProductOrdering
  <1>2. ASSUME NEW t \in Nat PROVE <<rank[t + 1], rank[t]>> \in L
    <2>1. PICK i \in 1 .. n : /\ rank[t + 1][i] < rank[t][i]
                              /\ \A j \in 1 .. i - 1 : rank[t + 1][j] = rank[t][j]
      BY DEF Lower
    <2>2. rank[t + 1][i] \in Nat /\ rank[t][i] \in Nat
      OBVIOUS
    <2>3. <<rank[t + 1][i], rank[t][i]>> \in R
      BY <2>1, <2>2 DEF OpToRel
    <2> HIDE DEF R
    <2> DEFINE both == <<rank[t + 1], rank[t]>>
    <2>4. both[1] = rank[t + 1] /\ both[2] = rank[t] /\ both \in [1 .. n -> Nat] \X [1 .. n -> Nat]
      <3>1. rank[t + 1] \in [1 .. n -> Nat] /\ rank[t] \in [1 .. n -> Nat]
        OBVIOUS
      <3> HIDE DEF L
      <3>2. QED
        BY <3>1
    <2> HIDE DEF both
    <2>5. both \in L
      BY <2>1, <2>3, <2>4, Zenon DEF LexProductOrdering
    <2>6. QED
      BY <2>5 DEF both
  <1>3. QED
    BY <1>1, <1>2 DEF IsWellFoundedOn

-----------------------------------------------------------------------------
(* A stranded queue stays stranded *)

\* The client goes on waiting, for a queued task is not settled.
LEMMA ExitStrands ==
  ASSUME TypeOK, TaskAccounting, TypeOK', TaskAccounting',
         NEW p \in Procs, HandleExit(p), taskQueue # <<>>, Rejected(p) # {}
  PROVE  Stranded'
  <1>1. /\ pc' = "awaiting" /\ taskQueue' = taskQueue
        /\ pendingTasks' = pendingTasks \ Rejected(p)
    BY DEF HandleExit, EventLoop, Awaiting
  <1>2. pendingTasks' = {}
    BY <1>1 DEF Rejected
  <1>3. Awaiting'
    <2>1. Head(taskQueue') \in Queued'
      BY <1>1, TailElements DEF TypeOK, TaskAccounting, Queued
    <2>2. Queued' \cap Settled' = {}
      BY <1>1 DEF TaskAccounting
    <2>3. QED
      BY <1>1, <2>1, <2>2 DEF Awaiting, Queued, TypeOK, Range
  <1>4. QED
    BY <1>1, <1>2, <1>3 DEF Stranded

\* No action but an answer of a pending task, a new task or the release changes
\* the queue.
LEMMA StrandedStays ==
  ASSUME TypeOK, TaskAccounting, TypeOK', TaskAccounting', Stranded, [Next]_vars
  PROVE  Stranded' /\ taskQueue' = taskQueue
  <1>1. pc = "awaiting" /\ Settled # Files /\ pendingTasks = {} /\ taskQueue # <<>>
    BY DEF Stranded, Awaiting
  <1>2. /\ pendingTasks' = {} /\ taskQueue' = taskQueue
        /\ pc' = pc /\ outcome' = outcome
    <2>1. ASSUME NEW f \in Files, SubmitTask(f) PROVE FALSE
      BY <1>1, <2>1 DEF SubmitTask
    <2>2. ASSUME Terminate PROVE FALSE
      BY <1>1, <2>2 DEF Terminate
    <2>3. /\ \A f \in Files : ~SubmitTask(f)
          /\ ~Terminate
      BY <2>1, <2>2
    <2>4. CASE \E p \in Procs : HandleMessage(p)
      BY <1>1, <2>4 DEF HandleMessage
    <2>5. CASE \E p \in Procs : HandleExit(p)
      <3>1. PICK p \in Procs : HandleExit(p)
        BY <2>5
      <3>2. Rejected(p) = {}
        BY <1>1 DEF Rejected
      <3>3. /\ pendingTasks' = {} /\ taskQueue' = taskQueue /\ pc' = pc
            /\ outcome' = [f \in Files |-> outcome[f]]
        BY <1>1, <3>1, <3>2 DEF HandleExit
      <3>4. QED
        BY <3>3 DEF TypeOK
    <2>6. CASE \E p \in Procs : HandleError(p) \/ Answer(p) \/ Crash(p)
      BY <1>1, <2>6 DEF HandleError, Answer, Crash, clientVars, poolVars
    <2>7. CASE UNCHANGED vars
      BY <1>1, <2>7 DEF vars, clientVars, poolVars
    <2>8. QED
      BY <2>3, <2>4, <2>5, <2>6, <2>7 DEF Next
  <1>3. QED
    BY <1>1, <1>2 DEF Stranded, Awaiting, Settled

\* An exit that rejects tasks while others wait in the queue leaves them there
\* for good, for any number of children (parser.ts: createWorker, the 'exit'
\* listener; handleWorkerMessage): what pool_hang finds on one instance.
THEOREM QueuesAreStranded == Spec => ExitStrandsTheQueue
  <1>1. TypeOK /\ TaskAccounting /\ TypeOK' /\ TaskAccounting' /\ [Next]_vars =>
          [/\ \A p \in Procs :
                HandleExit(p) /\ taskQueue # <<>> /\ Rejected(p) # {} => Stranded'
           /\ Stranded => Stranded' /\ taskQueue' = taskQueue]_vars
    BY ExitStrands, StrandedStays
  <1>2. QED
    BY <1>1, TypeCorrect, AccountingHolds, PTL DEF Spec, ExitStrandsTheQueue
=============================================================================
