------------------------------ MODULE CallSummary ------------------------------
(***************************************************************************)
(* Call summaries of the processModule stage (call-summary/session.ts,     *)
(* store.ts): a call is skipped when an earlier call with the same caller, *)
(* callee and shape of arguments had no effect but on two counters.        *)
(*                                                                         *)
(* What a call and the calls nested in it do is left open.  A counted      *)
(* effect is a finding, an edge of the call graph or an entry point.  The  *)
(* counters that a replay adds to are left out.                            *)
(***************************************************************************)
EXTENDS Naturals, Sequences, SequencesExt

CONSTANTS
  Calls,       \* caller, callee and shape of the arguments of a call
  ImportNests, \* a file imported during a call is processed in a stage of its own
  MaxDepth,    \* bound on the calls and stages open at a time
  MaxEffects,  \* bound on the counted effects
  MaxHits,     \* bound on the calls skipped
  MaxStages,   \* bound on the stages begun
  MaxThrows    \* bound on the executions that throw

ASSUME SummaryAssumption ==
  /\ ImportNests \in BOOLEAN
  /\ {MaxDepth, MaxEffects, MaxHits, MaxStages, MaxThrows} \subseteq Nat

VARIABLES
  stack,           \* the open stages and calls, outermost first
  executionStack,  \* nestedSideEffectObserved of each execution frame
  keys,            \* the store: a slot for each call
  stage,           \* which stage the session is in, 0 when it is not active
  effects,         \* counted effects so far
  hits,
  begun,           \* stages begun so far
  thrown           \* executions that threw so far

vars == <<stack, executionStack, keys, stage, effects, hits, begun, thrown>>

\* A slot, the stage it was made in (a history), and whether it was recorded
\* from an execution that summaries must not be made of (a history, see Return).
NoSlot == [state |-> "absent", stage |-> 0, spoiled |-> FALSE]
NoKeys == [c \in Calls |-> NoSlot]

Init ==
  /\ stack = <<>>
  /\ executionStack = <<>>
  /\ keys = NoKeys
  /\ stage = 0
  /\ effects = 0
  /\ hits = 0
  /\ begun = 0
  /\ thrown = 0

InCall == stack # <<>> /\ Last(stack).kind = "call"

-----------------------------------------------------------------------------
(* Stages *)

\* From now on the execution of every open call is disturbed (a history).
Disturb(s) == [i \in DOMAIN s |-> [s[i] EXCEPT !.disturbed = TRUE]]

StageEntry ==
  [kind |-> "stage", savedKeys |-> keys, savedStage |-> stage, disturbed |-> TRUE]

BeginStageKeepingKeys ==  \* mutant: the store is not rebuilt
  /\ stack = <<>> \/ (InCall /\ ImportNests)
  /\ Len(stack) < MaxDepth /\ begun < MaxStages
  /\ stack' = Append(Disturb(stack), StageEntry)
  /\ executionStack' = <<>>
  /\ begun' = begun + 1
  /\ stage' = begun'
  /\ UNCHANGED <<keys, effects, hits, thrown>>

\* begin: the frames of the open calls are dropped with the store.
BeginStage ==
  /\ stack = <<>> \/ (InCall /\ ImportNests)
  /\ Len(stack) < MaxDepth /\ begun < MaxStages
  /\ stack' = Append(Disturb(stack), StageEntry)
  /\ executionStack' = <<>>
  /\ keys' = NoKeys
  /\ begun' = begun + 1
  /\ stage' = begun'
  /\ UNCHANGED <<effects, hits, thrown>>

FinishStageActive ==  \* mutant: the session stays active
  /\ stack # <<>> /\ ~InCall
  /\ stack' = Front(stack)
  /\ keys' = Last(stack).savedKeys
  /\ UNCHANGED <<executionStack, stage, effects, hits, begun, thrown>>

\* finish: restore brings the store back, but no frames.
FinishStage ==
  /\ stack # <<>> /\ ~InCall
  /\ stack' = Front(stack)
  /\ keys' = Last(stack).savedKeys
  /\ stage' = Last(stack).savedStage
  /\ UNCHANGED <<executionStack, effects, hits, begun, thrown>>

-----------------------------------------------------------------------------
(* Calls *)

\* lookupReturn finds a summary it can replay: the call is skipped.
Skip(c) ==
  /\ stack # <<>>
  /\ keys[c].state = "ready"
  /\ hits < MaxHits
  /\ hits' = hits + 1
  /\ UNCHANGED <<stack, executionStack, keys, stage, effects, begun, thrown>>

\* observeCall makes a slot where there is none.
Observe(c) == [keys EXCEPT ![c] = IF @ = NoSlot THEN [@ EXCEPT !.state = "seen", !.stage = stage] ELSE @]

\* usable: canUseCallSummary, a decision of the policy of the language.
Execute(c, usable) ==
  /\ stack # <<>>
  /\ usable => keys[c].state # "ready"
  /\ Len(stack) < MaxDepth
  /\ keys' = IF usable THEN Observe(c) ELSE keys
  /\ stack' = Append(stack, [kind |-> "call", call |-> c, usable |-> usable, effects |-> effects,
                             nested |-> FALSE, disturbed |-> FALSE, stage |-> stage])
  /\ executionStack' = Append(executionStack, FALSE)
  /\ UNCHANGED <<stage, effects, hits, begun, thrown>>

CountedEffect ==
  /\ stack # <<>>
  /\ effects < MaxEffects
  /\ effects' = effects + 1
  /\ UNCHANGED <<stack, executionStack, keys, stage, hits, begun, thrown>>

HasNestedSideEffectObserved == executionStack # <<>> /\ Last(executionStack)

PopOnly(observed) == IF executionStack = <<>> THEN <<>> ELSE Front(executionStack)  \* mutant
\* endExecutionFrame
EndFrame(observed) ==
  LET rest == IF executionStack = <<>> THEN <<>> ELSE Front(executionStack)
  IN  IF observed /\ rest # <<>> THEN [rest EXCEPT ![Len(rest)] = TRUE] ELSE rest

\* The call below has a nested call that could not be summarised (a history).
NoteNested(s, observed) ==
  IF observed /\ s # <<>> /\ Last(s).kind = "call"
  THEN [s EXCEPT ![Len(s)].nested = TRUE] ELSE s

\* buildReplayDelta, endExecutionFrame and recordSharedReturn.  A value other
\* than undefined and void cannot be replayed.
Return(valued) ==
  /\ InCall
  /\ LET call == Last(stack)
         disabled == effects # call.effects \/ HasNestedSideEffectObserved \/ valued
     IN  /\ executionStack' = EndFrame(disabled)
         /\ keys' = IF call.usable /\ keys[call.call].state # "absent"
                    THEN [keys EXCEPT ![call.call] =
                            [state |-> IF disabled THEN "disabled" ELSE "ready",
                             stage |-> call.stage,
                             spoiled |-> call.nested /\ ~call.disturbed]]
                    ELSE keys
         /\ stack' = NoteNested(Front(stack), disabled \/ call.nested)
  /\ UNCHANGED <<stage, effects, hits, begun, thrown>>

\* The execution throws, and so do calls around it perhaps, up to the
\* instruction that catches it (analyzer.ts:1510).  The frames stay.
Throw ==
  /\ InCall
  /\ thrown < MaxThrows
  /\ thrown' = thrown + 1
  /\ stack' = Disturb(NoteNested(Front(stack), Last(stack).nested))
  /\ UNCHANGED <<executionStack, keys, stage, effects, hits, begun>>

Next ==
  \/ BeginStage \/ FinishStage \/ CountedEffect \/ Throw
  \/ \E c \in Calls : Skip(c)
  \/ \E c \in Calls, usable \in BOOLEAN : Execute(c, usable)
  \/ \E valued \in BOOLEAN : Return(valued)

Spec == Init /\ [][Next]_vars

-----------------------------------------------------------------------------
(* Properties *)

Slots == [state : {"absent", "seen", "ready", "disabled"}, stage : Nat, spoiled : BOOLEAN]
Stores == [Calls -> Slots]
Entries ==
  [kind : {"stage"}, savedKeys : Stores, savedStage : Nat, disturbed : {TRUE}]
  \cup [kind : {"call"}, call : Calls, usable : BOOLEAN, effects : Nat, nested : BOOLEAN,
        disturbed : BOOLEAN, stage : Nat]

TypeOK ==
  /\ stack \in Seq(Entries)
  /\ executionStack \in Seq(BOOLEAN)
  /\ keys \in Stores
  /\ stage \in Nat /\ (stage = 0 <=> stack = <<>>)
  /\ effects \in Nat
  /\ hits \in Nat
  /\ begun \in Nat
  /\ thrown \in Nat

\* No summary is replayed that was made of an execution with a nested call
\* that could not be summarised, whatever was thrown before and in whichever
\* stages, unless something was thrown or a file imported in that execution.
SummariesAreClean ==
  \A c \in Calls : keys[c].state = "ready" => ~keys[c].spoiled

\* What is recorded in one stage never answers a call of another, also when a
\* stage begins and ends in the middle of a call (session.ts:216).
StagesAreSeparate ==
  \A c \in Calls : keys[c].state # "absent" => keys[c].stage = stage
=============================================================================
