----------------------------- MODULE ParserPool -----------------------------
(***************************************************************************)
(* The child-process pool that parses source files                         *)
(* (src/engine/parser/parser.ts, class WorkerPool, its only client         *)
(* BaseParser.parseFilesConcurrently, and src/engine/parser/               *)
(* parser-worker.ts on the other end of the IPC channel).                  *)
(*                                                                         *)
(* The main process is one JavaScript thread: a handler runs to its end    *)
(* before another one starts, so each handler is one action.  The children *)
(* are operating-system processes that answer and die at any moment.       *)
(* What the main process observes of them is a 'message' event per answer, *)
(* an 'exit' event per death and an 'error' event per failed send.         *)
(***************************************************************************)
EXTENDS Integers, Sequences, FiniteSets, Functions, Variant

CONSTANTS
  Files,            \* the files to parse; one task per file
  MaxWorkers,       \* the pool size (_maxWorkers)
  MAX_CONSECUTIVE_FAILURES,
                    \* abnormal exits in a row after which a slot is abandoned
  OOM_LIMIT,        \* abnormal exits after which files go to the main thread
  AnswerKinds,      \* what a child may answer, a subset of Answers
  MaxProcs,         \* bound: children forked over the whole run
  MaxCrashes,       \* bound: children that die of their own accord
  MaxForkFailures,  \* bound: calls of fork() that throw
  IdleCrash         \* may a child die while it holds no task?

Answers  == {"ast", "error", "failed"}
Outcomes == {"none", "worker", "null", "main"}

ASSUME PoolAssumption ==
  /\ IsFiniteSet(Files)
  /\ MaxWorkers \in Nat \ {0}
  /\ MAX_CONSECUTIVE_FAILURES \in Nat \ {0}
  /\ OOM_LIMIT \in Nat
  /\ AnswerKinds \subseteq Answers
  /\ MaxProcs \in Nat /\ MaxProcs >= MaxWorkers
  /\ MaxCrashes \in Nat
  /\ MaxForkFailures \in Nat
  /\ IdleCrash \in BOOLEAN

Procs == 1 .. MaxProcs

VARIABLES
  pc,           \* the client: "mapping" the files, "awaiting", "released"
  unmapped,     \* files the client has not handed out yet
  outcome,      \* per file: how its promise was settled, "none" before that
  taskQueue,    \* tasks not sent to a child yet
  pendingTasks, \* tasks sent to a child and not settled
  workers,      \* the slots: the child in it and its busy flag
  lastWorkerIndex,
  consecutiveFailures,
  oomCount,
  nprocs,       \* children forked so far; child ids are 1 .. nprocs
  slotOf,       \* the id captured by the listeners of each child
  up,           \* children that are running
  inbox,        \* per child: tasks sent to it and not answered
  outbox,       \* per child: answers on their way to the main process
  exitPending,  \* children whose 'exit' event was not delivered yet
  errorPending, \* children with a send error scheduled by nextTick
  crashes,      \* children that died of their own accord
  errors,       \* 'error' events handled (a history)
  forkFailures  \* calls of fork() that threw

clientVars == <<pc, unmapped, outcome>>
poolVars   == <<taskQueue, pendingTasks, workers, lastWorkerIndex,
                consecutiveFailures, oomCount>>
forkVars   == <<nprocs, slotOf, forkFailures>>
childVars  == <<up, inbox, outbox, exitPending, errorPending, crashes,
                errors>>
vars       == <<clientVars, poolVars, forkVars, childVars>>

-----------------------------------------------------------------------------
(* Helpers *)

Slot(p, b) == [proc |-> p, busy |-> b]

Busy(w) == {i \in DOMAIN w : w[i].busy}

Idle(w) == DOMAIN w \ Busy(w)

\* Setting and clearing the busy flag of slot i.
OccupyNot(w, i) == w  \* mutant: the flag is not set
Occupy(w, i)    == [w EXCEPT ![i] = Slot(w[i].proc, TRUE)]

VacateNot(w, i) == w  \* mutant: the flag is not cleared
Vacate(w, i)    == IF i \in DOMAIN w THEN [w EXCEPT ![i] = Slot(w[i].proc, FALSE)] ELSE w

Queued  == Range(taskQueue)
Settled == {f \in Files : outcome[f] # "none"}

\* Handlers run only while the client waits: Promise.all resumes it, as a
\* microtask, before the next event once every file is settled.
Awaiting == pc = "awaiting" /\ Settled # Files

\* A send error is delivered by process.nextTick, before any other event.
EventLoop == Awaiting /\ errorPending = {}

-----------------------------------------------------------------------------
\* The constructor forks MaxWorkers children.  push() packs those whose fork
\* succeeded, so a failed fork moves every later child to a lower slot than
\* the id its listeners captured.
Init ==
  /\ pc = "mapping"
  /\ unmapped = Files
  /\ outcome = [f \in Files |-> "none"]
  /\ taskQueue = <<>>
  /\ pendingTasks = {}
  /\ lastWorkerIndex = 0
  /\ consecutiveFailures = 0
  /\ oomCount = 0
  /\ nprocs = MaxWorkers
  /\ slotOf = [p \in Procs |-> IF p <= MaxWorkers THEN p ELSE 1]
  /\ \E failed \in SUBSET (1 .. MaxWorkers) :
       /\ Cardinality(failed) <= MaxForkFailures
       /\ forkFailures = Cardinality(failed)
       /\ up = (1 .. MaxWorkers) \ failed
       /\ \E order \in [1 .. Cardinality(up) -> up] :
            /\ \A i \in DOMAIN order :
                 Cardinality({p \in up : p < order[i]}) = i - 1
            /\ workers = [i \in DOMAIN order |-> Slot(order[i], FALSE)]
  /\ inbox = [p \in Procs |-> <<>>]
  /\ outbox = [p \in Procs |-> <<>>]
  /\ exitPending = {}
  /\ errorPending = {}
  /\ crashes = 0
  /\ errors = 0

-----------------------------------------------------------------------------
(* Steps that handlers are made of *)

\* idleWorker.worker.send(): delivered to a running child; written to the
\* pipe of a dead one whose exit is not known yet and lost; or refused, which
\* schedules an 'error' event on that child.
Send(p, f) ==
  \/ /\ p \in up
     /\ inbox' = [inbox EXCEPT ![p] = Append(@, f)]
     /\ UNCHANGED errorPending
  \/ /\ p \in exitPending
     /\ UNCHANGED <<inbox, errorPending>>
  \/ /\ p \notin up
     /\ errorPending' = errorPending \cup {p}
     /\ UNCHANGED inbox

\* The slot at position lastWorkerIndex of the idle ones (round robin), and
\* the position after it.
Selected(w, i) ==
  /\ i \in Idle(w)
  /\ Cardinality({j \in Idle(w) : j < i}) = lastWorkerIndex % Cardinality(Idle(w))

NextIndexDown(w) == lastWorkerIndex - 1  \* mutant: wrong direction, no modulo
NextIndex(w)     == (lastWorkerIndex + 1) % Cardinality(Idle(w))

DequeuedNot(q) == q  \* mutant: the head stays in the queue
Dequeued(q)    == Tail(q)

\* processNextTask() on the queue q, the slots w and the pending tasks pd.
ProcessNextTask(q, w, pd) ==
  IF q = <<>> \/ Idle(w) = {}
  THEN /\ taskQueue' = q
       /\ workers' = w
       /\ pendingTasks' = pd
       /\ UNCHANGED <<lastWorkerIndex, inbox, errorPending>>
  ELSE \E i \in DOMAIN w :
         /\ Selected(w, i)
         /\ lastWorkerIndex' = NextIndex(w)
         /\ taskQueue' = Dequeued(q)
         /\ workers' = Occupy(w, i)
         /\ pendingTasks' = pd \cup {Head(q)}
         /\ Send(w[i].proc, Head(q))

\* createWorker(id) on the slots w, `alive` the children running before it.
\* fork() may throw: the slot then keeps what it had.
CreateWorker(id, w, alive) ==
  \/ /\ nprocs < MaxProcs
     /\ nprocs' = nprocs + 1
     /\ slotOf' = [slotOf EXCEPT ![nprocs + 1] = id]
     /\ up' = alive \cup {nprocs + 1}
     /\ workers' = IF id \in DOMAIN w
                   THEN [w EXCEPT ![id] = Slot(nprocs + 1, FALSE)]
                   ELSE Append(w, Slot(nprocs + 1, FALSE))
     /\ UNCHANGED forkFailures
  \/ /\ forkFailures < MaxForkFailures
     /\ forkFailures' = forkFailures + 1
     /\ up' = alive
     /\ workers' = w
     /\ UNCHANGED <<nprocs, slotOf>>

-----------------------------------------------------------------------------
(* The client *)

\* One iteration of files.map: the callback runs up to its first await.  The
\* whole map is synchronous, so no event is handled before it ends.
SubmitTask(f) ==
  /\ pc = "mapping"
  /\ f \in unmapped
  /\ unmapped' = unmapped \ {f}
  /\ pc' = IF unmapped' = {} THEN "awaiting" ELSE pc
  /\ IF oomCount >= OOM_LIMIT
     THEN /\ outcome' = [outcome EXCEPT ![f] = "main"]
          /\ UNCHANGED <<taskQueue, workers, pendingTasks, lastWorkerIndex,
                         inbox, errorPending>>
     ELSE /\ ProcessNextTask(Append(taskQueue, f), workers, pendingTasks)
          /\ UNCHANGED outcome
  /\ UNCHANGED <<consecutiveFailures, oomCount, forkVars, up, outbox,
                 exitPending, crashes, errors>>

\* The children that terminate() kills.
ReachableIdle == {workers[i].proc : i \in Idle(workers)}  \* mutant: busy ones survive
Reachable     == {workers[i].proc : i \in DOMAIN workers}

\* Promise.all is settled: cleanupWorkerPool() calls terminate(), which kills
\* the child of every slot and drops the queue and the pending tasks.
Terminate ==
  /\ pc = "awaiting"
  /\ Settled = Files
  /\ pc' = "released"
  /\ up' = up \ Reachable
  /\ workers' = <<>>
  /\ taskQueue' = <<>>
  /\ pendingTasks' = {}
  /\ UNCHANGED <<unmapped, outcome, lastWorkerIndex, consecutiveFailures,
                 oomCount, forkVars, inbox, outbox, exitPending,
                 errorPending, crashes, errors>>

-----------------------------------------------------------------------------
(* The event handlers of the pool *)

\* How the client settles a file whose answer is k: an AST, a null AST when
\* the child reports a parse error, a retry on the main thread on a failure.
Settlement(k) ==
  CASE k = "ast"    -> "worker"
    [] k = "error"  -> "null"
    [] k = "failed" -> "main"

\* The pending tasks once task f was answered.
UnansweredStill(f) == pendingTasks  \* mutant: the task stays pending
Unanswered(f)      == pendingTasks \ {f}

\* handleWorkerMessage(id, message), id being the slot the child was made for.
HandleMessage(p) ==
  /\ EventLoop
  /\ outbox[p] # <<>>
  /\ outbox' = [outbox EXCEPT ![p] = Tail(@)]
  /\ LET id == slotOf[p]
         m  == Head(outbox[p])
     IN IF id \in DOMAIN workers /\ m.task \in pendingTasks
        THEN /\ consecutiveFailures' = 0
             /\ outcome' = [outcome EXCEPT ![m.task] = Settlement(m.kind)]
             /\ ProcessNextTask(taskQueue, Vacate(workers, id), Unanswered(m.task))
        ELSE UNCHANGED <<consecutiveFailures, outcome, taskQueue, workers,
                         pendingTasks, lastWorkerIndex, inbox, errorPending>>
  /\ UNCHANGED <<pc, unmapped, oomCount, forkVars, up, exitPending, crashes, errors>>

\* The tasks that the exit of child p rejects: the loop tests the busy flag of
\* p's slot, and nothing about the task.
RejectedNone(p) == {}  \* mutant: the exit rejects nothing
Rejected(p) ==
  IF slotOf[p] \in DOMAIN workers /\ workers[slotOf[p]].busy
  THEN pendingTasks
  ELSE {}

\* The 'exit' listener, for a non-zero code.  A rejected file is parsed on
\* the main thread by the client's catch block, before the next event.
HandleExit(p) ==
  /\ EventLoop
  /\ p \in exitPending
  /\ exitPending' = exitPending \ {p}
  /\ oomCount' = oomCount + 1
  /\ consecutiveFailures' = consecutiveFailures + 1
  /\ pendingTasks' = pendingTasks \ Rejected(p)
  /\ outcome' = [f \in Files |-> IF f \in Rejected(p) THEN "main" ELSE outcome[f]]
  /\ IF consecutiveFailures + 1 >= MAX_CONSECUTIVE_FAILURES
     THEN workers' = Vacate(workers, slotOf[p]) /\ UNCHANGED <<forkVars, up>>
     ELSE CreateWorker(slotOf[p], Vacate(workers, slotOf[p]), up)
  /\ UNCHANGED <<pc, unmapped, taskQueue, lastWorkerIndex, inbox, outbox,
                 errorPending, crashes, errors>>

\* The 'error' listener: kills whatever child the slot holds and forks anew.
HandleError(p) ==
  /\ Awaiting
  /\ p \in errorPending
  /\ errorPending' = errorPending \ {p}
  /\ LET id     == slotOf[p]
         killed == IF id \in DOMAIN workers THEN {workers[id].proc} \cap up ELSE {}
     IN /\ exitPending' = exitPending \cup killed
        /\ IF id \in DOMAIN workers
           THEN CreateWorker(id, workers, up \ killed)
           ELSE UNCHANGED <<workers, forkVars, up>>
  /\ UNCHANGED <<clientVars, taskQueue, pendingTasks, lastWorkerIndex,
                 consecutiveFailures, oomCount, inbox, outbox, crashes>>
  /\ errors' = errors + 1

-----------------------------------------------------------------------------
(* The children *)

\* The child answers the task at the head of its channel.
Answer(p) ==
  /\ p \in up
  /\ inbox[p] # <<>>
  /\ \E k \in AnswerKinds :
       outbox' = [outbox EXCEPT ![p] = Append(@, [task |-> Head(inbox[p]), kind |-> k])]
  /\ inbox' = [inbox EXCEPT ![p] = Tail(@)]
  /\ UNCHANGED <<clientVars, poolVars, forkVars, up, exitPending, errorPending,
                 crashes, errors>>

\* The child dies (out of memory, a failed start): what it was sent is lost;
\* answers it wrote may still arrive, before or after the 'exit' event.
Crash(p) ==
  /\ pc # "released"
  /\ crashes < MaxCrashes
  /\ p \in up
  /\ IdleCrash \/ inbox[p] # <<>>
  /\ crashes' = crashes + 1
  /\ up' = up \ {p}
  /\ exitPending' = exitPending \cup {p}
  /\ inbox' = [inbox EXCEPT ![p] = <<>>]
  /\ outbox' \in {outbox, [outbox EXCEPT ![p] = <<>>]}
  /\ UNCHANGED <<clientVars, poolVars, forkVars, errorPending, errors>>

-----------------------------------------------------------------------------
Next ==
  \/ \E f \in Files : SubmitTask(f)
  \/ Terminate
  \/ \E p \in Procs : HandleMessage(p)
  \/ \E p \in Procs : HandleExit(p)
  \/ \E p \in Procs : HandleError(p)
  \/ \E p \in Procs : Answer(p)
  \/ \E p \in Procs : Crash(p)

Spec == Init /\ [][Next]_vars

\* The event loop serves every event it has, and a child that stays up
\* finishes the file it parses; nothing forces a child to die.
Fairness ==
  /\ \A f \in Files : WF_vars(SubmitTask(f))
  /\ WF_vars(Terminate)
  /\ \A p \in Procs : /\ WF_vars(HandleMessage(p))
                      /\ WF_vars(HandleExit(p))
                      /\ WF_vars(HandleError(p))
                      /\ WF_vars(Answer(p))

FairSpec == Spec /\ Fairness

-----------------------------------------------------------------------------
(* Properties *)

TypeOK ==
  /\ pc \in {"mapping", "awaiting", "released"}
  /\ unmapped \subseteq Files
  /\ outcome \in [Files -> Outcomes]
  /\ taskQueue \in Seq(Files)
  /\ pendingTasks \subseteq Files
  /\ workers \in Seq([proc : Procs, busy : BOOLEAN])
  /\ lastWorkerIndex \in Nat
  /\ consecutiveFailures \in Nat
  /\ oomCount \in Nat
  /\ nprocs \in 0 .. MaxProcs
  /\ slotOf \in [Procs -> 1 .. MaxWorkers]
  /\ up \subseteq Procs
  /\ inbox \in [Procs -> Seq(Files)]
  /\ outbox \in [Procs -> Seq([task : Files, kind : Answers])]
  /\ exitPending \subseteq Procs
  /\ errorPending \subseteq Procs
  /\ crashes \in Nat
  /\ errors \in Nat
  /\ forkFailures \in Nat

\* The tasks child p was sent and whose answer the main process did not read.
Holds(p) ==
  {inbox[p][i] : i \in DOMAIN inbox[p]} \cup {outbox[p][i].task : i \in DOMAIN outbox[p]}

\* Every file is in exactly one place: not handed out, queued once, sent to a
\* child, or settled.  No task is lost, sent twice or settled twice, whatever
\* children die and however late their answers arrive.
TaskAccounting ==
  pc # "released" =>
    /\ Files = unmapped \cup Queued \cup pendingTasks \cup Settled
    /\ unmapped \cap (Queued \cup pendingTasks \cup Settled) = {}
    /\ Queued \cap (pendingTasks \cup Settled) = {}
    /\ pendingTasks \cap Settled = {}
    /\ IsInjective(taskQueue)

\* While no child has died, a task waits in the queue only if every slot is
\* busy: each handler that frees a slot also refills it.
NoLostWakeup ==
  crashes = 0 /\ taskQueue # <<>> => Busy(workers) = DOMAIN workers

\* No fork failed and no task was sent to a child whose exit was handled.
\* After a failed fork in the constructor an answer clears the busy flag of a
\* slot that is not its child's, and an 'error' event replaces a child whose
\* 'exit' event replaces its replacement once more.
Calm == forkFailures = 0 /\ errors = 0

\* While that holds, the busy flags keep a child from being sent a second task
\* before it answered the first, and no task is sent to two children, also
\* when children die with their task, exits and late answers arrive in any
\* order and slots are refilled or abandoned.
OneToOne ==
  Calm =>
    /\ \A p \in Procs : Len(inbox[p]) + Len(outbox[p]) <= 1
    /\ \A p, q \in Procs : p # q => Holds(p) \cap Holds(q) = {}

\* A pending task is with a child in a busy slot that still can answer it, or
\* whose 'exit' event is still to come and will reject it: as long as no send
\* error has occurred.
PendingIsServed ==
  Calm /\ errorPending = {} =>
    \A f \in pendingTasks : \E i \in Busy(workers) :
      f \in Holds(workers[i].proc) \/ workers[i].proc \in exitPending

\* terminate() leaves no child running ("terminate all workers"), again as
\* long as every child is in the slot its listeners name.
TerminateKillsAll == pc = "released" /\ Calm => up = {}

\* While the client waits for a calm pool, an event is there or a child that is
\* up will send one: the wait is never for nothing, unless tasks were queued
\* when a child died, whose exit handler serves no queue.
NeverStuck ==
  Calm /\ Awaiting =>
    \/ exitPending # {} \/ errorPending # {}
    \/ \E p \in Procs : outbox[p] # <<>>
    \/ \E p \in up : inbox[p] # <<>>
    \/ crashes > 0 /\ taskQueue # <<>>

\* The client waits, tasks are queued, and no answer will be listened to.
Stranded == Awaiting /\ pendingTasks = {} /\ taskQueue # <<>>

\* How the exception in NeverStuck comes about, and how far it goes: the exit of
\* a child at work strands the queue even when other children are at work, as
\* it rejects their tasks too and their answers are ignored, and no event of any
\* kind ever takes a task from a stranded queue again.
ExitStrandsTheQueue ==
  [][/\ \A p \in Procs :
          HandleExit(p) /\ taskQueue # <<>> /\ Rejected(p) # {} => Stranded'
     /\ Stranded => Stranded' /\ taskQueue' = taskQueue]_vars

\* A calm pool forks one child for each death it has handled, and never more:
\* no exit and no late answer makes it fork twice.
OneForkPerDeath ==
  Calm => nprocs + Cardinality(exitPending) <= MaxWorkers + crashes

\* What the pool has left to do, what comes first undoing the most: files to
\* submit, the release, deaths and forks, queued tasks, events, messages.
Traffic(channel) == UNION {{<<p, i>> : i \in DOMAIN channel[p]} : p \in Procs}
Rank ==
  <<Cardinality(unmapped),
    IF pc = "released" THEN 0 ELSE 1,
    (MaxProcs - nprocs) + (MaxForkFailures - forkFailures) + (MaxCrashes - crashes),
    Len(taskQueue),
    Cardinality(errorPending),
    Cardinality(exitPending),
    Cardinality(Traffic(inbox)),
    Cardinality(Traffic(outbox))>>

\* Every step leaves less to do: while finitely many children die and forks
\* fail, handlers, answers and refills cannot go on for ever.
Advances == [][Lower(Rank', Rank)]_vars

\* Every file is settled in the end and parseFilesConcurrently returns.
EveryFileSettles == <>(pc = "released")

\* That holds as long as no task waits in the queue once a child has died:
\* deaths of children with nothing queued behind them, and queues in front of
\* children that live, never make the parse hang.
SettlesUnlessQueuedAfterDeath ==
  [](Calm /\ (taskQueue # <<>> => crashes = 0)) => EveryFileSettles

\* The pool does what ParseJob promises: each file is settled once, and the
\* pool released only after the last.
Job == INSTANCE ParseJob WITH released <- (pc = "released")

JobSafety == Job!Spec
=============================================================================
