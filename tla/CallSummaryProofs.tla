--------------------------- MODULE CallSummaryProofs ---------------------------
(***************************************************************************)
(* What holds of CallSummary for every set of calls, every bound, and with *)
(* imports that begin a stage or without.                                  *)
(***************************************************************************)
EXTENDS CallSummary, TLAPS, SequenceTheorems

StageEntries == [kind : {"stage"}, savedKeys : Stores, savedStage : Nat, disturbed : {TRUE}]
CallEntries  == [kind : {"call"}, call : Calls, usable : BOOLEAN, effects : Nat,
                 nested : BOOLEAN, disturbed : BOOLEAN, stage : Nat]

-----------------------------------------------------------------------------
(* The sequences the session keeps *)

\* A sequence without its last element.
LEMMA FrontElements ==
  ASSUME NEW S, NEW s \in Seq(S), s # <<>>
  PROVE  /\ Front(s) \in Seq(S)
         /\ Len(s) > 0 /\ Last(s) = s[Len(s)] /\ Last(s) \in S
         /\ Len(Front(s)) = Len(s) - 1
         /\ \A i \in 1 .. Len(s) - 1 : Front(s)[i] = s[i]
  <1>1. Len(s) \in Nat /\ Len(s) > 0
    BY EmptySeq, LenProperties
  <1>2. s[Len(s)] \in S
    BY <1>1, ElementOfSeq
  <1> DEFINE n == Len(s) - 1
  <1>3. n \in Nat /\ Len(s) = n + 1
    BY <1>1
  <1>4. \A i \in 1 .. n : s[i] \in S
    BY <1>1, ElementOfSeq
  <1> HIDE DEF n
  <1>5. /\ SubSeq(s, 1, n) \in Seq(S)
        /\ Len(SubSeq(s, 1, n)) = n
        /\ \A i \in 1 .. n : SubSeq(s, 1, n)[i] = s[i]
    <2>1. /\ SubSeq(s, 1, n) \in Seq(S)
          /\ Len(SubSeq(s, 1, n)) = IF 1 <= n THEN n - 1 + 1 ELSE 0
          /\ \A i \in 1 .. n - 1 + 1 : SubSeq(s, 1, n)[i] = s[1 + i - 1]
      <3>1. 1 \in Int /\ n \in Int
        BY <1>3
      <3>2. QED
        BY <1>4, <3>1, SubSeqProperties
    <2>2. n - 1 + 1 = n /\ (1 > n => n = 0) /\ \A i \in 1 .. n : 1 + i - 1 = i
      BY <1>3
    <2>3. QED
      BY <1>3, <2>1, <2>2
  <1>6. QED
    BY <1>1, <1>2, <1>3, <1>5 DEF Front, Last, n

\* A sequence with one element more.
LEMMA AppendElements ==
  ASSUME NEW S, NEW s \in Seq(S), NEW x \in S
  PROVE  /\ Append(s, x) \in Seq(S)
         /\ Append(s, x) # <<>>
         /\ Len(Append(s, x)) = Len(s) + 1
         /\ Append(s, x)[Len(s) + 1] = x
         /\ \A i \in 1 .. Len(s) : Append(s, x)[i] = s[i]
  <1>1. QED
    BY AppendProperties, LenProperties

\* An entry is a stage or a call.
LEMMA EntriesAreOfTwoKinds ==
  ASSUME NEW s \in Seq(Entries)
  PROVE  /\ Len(s) \in Nat /\ DOMAIN s = 1 .. Len(s)
         /\ \A i \in 1 .. Len(s) : s[i] \in StageEntries \cup CallEntries
  <1>1. Len(s) \in Nat /\ DOMAIN s = 1 .. Len(s)
    BY LenProperties
  <1>2. \A i \in 1 .. Len(s) : s[i] \in Entries
    BY ElementOfSeq
  <1>3. Entries = StageEntries \cup CallEntries
    BY DEF Entries, StageEntries, CallEntries
  <1>4. QED
    BY <1>1, <1>2, <1>3

\* Disturb marks the calls and changes nothing else.
LEMMA DisturbElements ==
  ASSUME NEW s \in Seq(Entries)
  PROVE  /\ Disturb(s) \in Seq(Entries)
         /\ Len(Disturb(s)) = Len(s)
         /\ \A i \in 1 .. Len(s) :
              /\ Disturb(s)[i].kind = s[i].kind
              /\ Disturb(s)[i].disturbed
              /\ s[i].kind = "stage" => Disturb(s)[i] = s[i]
              /\ s[i].kind = "call" => Disturb(s)[i].stage = s[i].stage
  <1>1. /\ Len(s) \in Nat /\ DOMAIN s = 1 .. Len(s)
        /\ \A i \in 1 .. Len(s) : s[i] \in StageEntries \cup CallEntries
    BY EntriesAreOfTwoKinds
  <1>2. ASSUME NEW i \in 1 .. Len(s)
        PROVE  LET e == [s[i] EXCEPT !.disturbed = TRUE]
               IN  /\ e \in Entries
                   /\ e.kind = s[i].kind
                   /\ e.disturbed
                   /\ s[i].kind = "stage" => e = s[i]
                   /\ s[i].kind = "call" => e.stage = s[i].stage
    <2>1. CASE s[i] \in StageEntries
      BY <2>1 DEF Entries, StageEntries
    <2>2. CASE s[i] \in CallEntries
      BY <2>2 DEF Entries, CallEntries
    <2>3. QED
      BY <1>1, <2>1, <2>2
  <1>3. Disturb(s) \in [1 .. Len(s) -> Entries]
    BY <1>1, <1>2 DEF Disturb
  <1>4. Disturb(s) \in Seq(Entries) /\ Len(Disturb(s)) = Len(s)
    BY <1>1, <1>3, SeqDef, LenProperties
  <1>5. QED
    BY <1>1, <1>2, <1>4 DEF Disturb

\* NoteNested marks at most the innermost call and changes nothing else.
LEMMA NotedElements ==
  ASSUME NEW s \in Seq(Entries), NEW observed \in BOOLEAN
  PROVE  /\ NoteNested(s, observed) \in Seq(Entries)
         /\ Len(NoteNested(s, observed)) = Len(s)
         /\ \A i \in 1 .. Len(s) :
              /\ NoteNested(s, observed)[i].kind = s[i].kind
              /\ s[i].kind = "stage" => NoteNested(s, observed)[i] = s[i]
              /\ s[i].kind = "call" =>
                   /\ NoteNested(s, observed)[i].stage = s[i].stage
                   /\ NoteNested(s, observed)[i].disturbed = s[i].disturbed
                   /\ NoteNested(s, observed)[i].nested =
                        IF observed /\ i = Len(s) THEN TRUE ELSE s[i].nested
  <1>1. /\ Len(s) \in Nat /\ DOMAIN s = 1 .. Len(s)
        /\ \A i \in 1 .. Len(s) : s[i] \in StageEntries \cup CallEntries
    BY EntriesAreOfTwoKinds
  <1>2. CASE observed /\ s # <<>> /\ Last(s).kind = "call"
    <2>0. Len(s) > 0 /\ Last(s) = s[Len(s)]
      BY <1>2, FrontElements, Zenon
    <2>1. Len(s) > 0 /\ Last(s) = s[Len(s)] /\ Len(s) \in 1 .. Len(s)
      BY <1>1, <2>0
    <2>2. s[Len(s)] \in CallEntries
      BY <1>1, <1>2, <2>1 DEF StageEntries
    <2>3. LET e == [s[Len(s)] EXCEPT !.nested = TRUE]
          IN  /\ e \in Entries
              /\ e.kind = "call" /\ e.nested = TRUE
              /\ e.stage = s[Len(s)].stage /\ e.disturbed = s[Len(s)].disturbed
      BY <2>2 DEF Entries, CallEntries
    <2>4. /\ NoteNested(s, observed) \in Seq(Entries)
          /\ Len(NoteNested(s, observed)) = Len(s)
          /\ \A i \in 1 .. Len(s) : NoteNested(s, observed)[i] =
               IF i = Len(s) THEN [s[Len(s)] EXCEPT !.nested = TRUE] ELSE s[i]
      BY <1>1, <1>2, <2>1, <2>3, ExceptSeq, LenProperties DEF NoteNested
    <2>5. s[Len(s)].kind = "call"
      BY <2>2 DEF CallEntries
    <2>6. QED
      BY <1>2, <2>3, <2>4, <2>5
  <1>3. CASE ~(observed /\ s # <<>> /\ Last(s).kind = "call")
    <2>1. NoteNested(s, observed) = s
      BY <1>3 DEF NoteNested
    <2>2. \A i \in 1 .. Len(s) : s[i].kind = "call" => ~(observed /\ i = Len(s))
      <3>1. SUFFICES ASSUME observed, Len(s) > 0, s[Len(s)].kind = "call"
                     PROVE  FALSE
        BY <1>1
      <3>2. s # <<>>
        BY <3>1, EmptySeq
      <3>3. QED
        BY <1>3, <3>1, <3>2, FrontElements
    <2>3. QED
      BY <2>1, <2>2
  <1>4. QED
    BY <1>2, <1>3

\* Flagging one frame.
LEMMA FlaggedFrames ==
  ASSUME NEW s \in Seq(BOOLEAN), NEW n \in 1 .. Len(s)
  PROVE  /\ [s EXCEPT ![n] = TRUE] \in Seq(BOOLEAN)
         /\ Len([s EXCEPT ![n] = TRUE]) = Len(s)
         /\ [s EXCEPT ![n] = TRUE][n]
         /\ \A i \in 1 .. Len(s) : i # n => [s EXCEPT ![n] = TRUE][i] = s[i]
  <1>1. s \in [1 .. Len(s) -> BOOLEAN] /\ Len(s) \in Nat
    BY LenProperties, ElementOfSeq
  <1>2. [s EXCEPT ![n] = TRUE] \in [1 .. Len(s) -> BOOLEAN]
    BY <1>1, Zenon
  <1>3. [s EXCEPT ![n] = TRUE] \in Seq(BOOLEAN) /\ Len([s EXCEPT ![n] = TRUE]) = Len(s)
    BY <1>1, <1>2, SeqDef, LenProperties
  <1>4. QED
    BY <1>1, <1>3, Zenon

\* endExecutionFrame
LEMMA EndedFrames ==
  ASSUME executionStack \in Seq(BOOLEAN), NEW observed \in BOOLEAN
  PROVE  /\ EndFrame(observed) \in Seq(BOOLEAN)
         /\ executionStack # <<>> =>
              /\ Len(executionStack) > 0
              /\ Len(EndFrame(observed)) = Len(executionStack) - 1
              /\ observed /\ Len(executionStack) > 1 => EndFrame(observed)[Len(executionStack) - 1]
              /\ \A i \in 1 .. Len(executionStack) - 1 :
                   ~observed \/ i # Len(executionStack) - 1 =>
                     EndFrame(observed)[i] = executionStack[i]
  <1>1. CASE executionStack = <<>>
    BY <1>1 DEF EndFrame
  <1>2. CASE executionStack # <<>>
    <2> DEFINE rest == Front(executionStack)
    <2>1. /\ rest \in Seq(BOOLEAN)
          /\ Len(executionStack) > 0 /\ Len(executionStack) \in Nat
          /\ Len(rest) = Len(executionStack) - 1
          /\ \A i \in 1 .. Len(executionStack) - 1 : rest[i] = executionStack[i]
      BY <1>2, FrontElements, LenProperties
    <2>2. EndFrame(observed) =
            IF observed /\ rest # <<>> THEN [rest EXCEPT ![Len(rest)] = TRUE] ELSE rest
      BY <1>2 DEF EndFrame
    <2>3. CASE observed /\ rest # <<>>
      <3>1. Len(rest) \in 1 .. Len(rest) /\ Len(rest) \in Nat
        BY <2>1, <2>3, EmptySeq, LenProperties
      <3>3. /\ [rest EXCEPT ![Len(rest)] = TRUE] \in Seq(BOOLEAN)
            /\ Len([rest EXCEPT ![Len(rest)] = TRUE]) = Len(rest)
        BY <2>1, <3>1, FlaggedFrames
      <3>4. /\ [rest EXCEPT ![Len(rest)] = TRUE][Len(rest)]
            /\ \A i \in 1 .. Len(rest) : i # Len(rest) =>
                 [rest EXCEPT ![Len(rest)] = TRUE][i] = rest[i]
        <4>1. rest \in Seq(BOOLEAN) /\ Len(rest) \in 1 .. Len(rest)
          BY <2>1, <3>1
        <4> HIDE DEF rest
        <4>2. QED
          BY <4>1, FlaggedFrames, ZenonT(60)
      <3>5. EndFrame(observed) = [rest EXCEPT ![Len(rest)] = TRUE]
        BY <2>2, <2>3, Zenon
      <3>6. \A i \in 1 .. Len(rest) : i # Len(rest) => EndFrame(observed)[i] = executionStack[i]
        BY <2>1, <3>4, <3>5
      <3>7. EndFrame(observed)[Len(rest)]
        BY <3>4, <3>5, Zenon
      <3>8. EndFrame(observed) \in Seq(BOOLEAN) /\ Len(EndFrame(observed)) = Len(rest)
        BY <3>3, <3>5
      <3>9. EndFrame(observed)[Len(executionStack) - 1]
        <4>1. Len(rest) = Len(executionStack) - 1
          BY <2>1
        <4>2. QED
          BY <3>7, <4>1, Zenon
      <3>10. \A i \in 1 .. Len(executionStack) - 1 : i # Len(executionStack) - 1 =>
               EndFrame(observed)[i] = executionStack[i]
        BY <2>1, <3>6
      <3>11. Len(EndFrame(observed)) = Len(executionStack) - 1 /\ observed
        BY <2>1, <2>3, <3>8
      <3>12. QED
        BY <2>1, <3>8, <3>9, <3>10, <3>11, Zenon
    <2>4. CASE ~(observed /\ rest # <<>>)
      <3>1. observed => Len(executionStack) - 1 = 0
        BY <2>1, <2>4, EmptySeq
      <3>2. EndFrame(observed) = rest
        BY <2>2, <2>4
      <3>3. QED
        BY <2>1, <3>1, <3>2
    <2>5. QED
      BY <2>3, <2>4
  <1>3. QED
    BY <1>1, <1>2

-----------------------------------------------------------------------------
(* The inductive invariant *)

\* The outermost entry is a stage, and the only one that the session was not
\* active before.
Nesting ==
  /\ stack # <<>> => stack[1].kind = "stage"
  /\ \A k \in 1 .. Len(stack) : stack[k].kind = "stage" => (stack[k].savedStage = 0 <=> k = 1)

\* The stage the session comes back to when what is above entry i has ended.
StageAbove(i) ==
  IF i = Len(stack) THEN stage
  ELSE IF stack[i + 1].kind = "call" THEN stack[i + 1].stage ELSE stack[i + 1].savedStage

CallsKeepTheirStage ==
  \A i \in 1 .. Len(stack) : stack[i].kind = "call" => stack[i].stage = StageAbove(i)

\* A store as it may be in stage n.
Kept(store, n) ==
  \A c \in Calls : /\ store[c].state # "absent" => store[c].stage = n
                   /\ store[c].state = "ready" => ~store[c].spoiled

StoresAreKept ==
  /\ Kept(keys, stage)
  /\ \A k \in 1 .. Len(stack) : stack[k].kind = "stage" =>
       Kept(stack[k].savedKeys, stack[k].savedStage)

\* Counted from the top, a call that nothing disturbed has the frame that is
\* its own, and the frame says what happened.
FramesAreTheirs ==
  \A i \in 1 .. Len(stack) : stack[i].kind = "call" /\ ~stack[i].disturbed =>
    /\ Len(stack) - i < Len(executionStack)
    /\ executionStack[Len(executionStack) - (Len(stack) - i)] = stack[i].nested
    /\ \A j \in i + 1 .. Len(stack) : stack[j].kind = "call" /\ ~stack[j].disturbed

Inv == TypeOK /\ Nesting /\ CallsKeepTheirStage /\ StoresAreKept /\ FramesAreTheirs

\* A session that has not begun satisfies the invariant.
LEMMA InitInv == Init => Inv
  <1> SUFFICES ASSUME Init PROVE Inv
    OBVIOUS
  <1>1. Len(stack) = 0 /\ stack = <<>> /\ stack \in Seq(Entries) /\ executionStack \in Seq(BOOLEAN)
    BY EmptySeq DEF Init
  <1>2. keys \in Stores /\ \A c \in Calls : keys[c] = NoSlot
    BY DEF Init, NoKeys, NoSlot, Stores, Slots
  <1>3. TypeOK
    BY <1>1, <1>2 DEF Init, TypeOK
  <1>4. Nesting /\ CallsKeepTheirStage /\ FramesAreTheirs
    BY <1>1 DEF Nesting, CallsKeepTheirStage, FramesAreTheirs
  <1>5. StoresAreKept
    BY <1>1, <1>2 DEF StoresAreKept, Kept, NoSlot
  <1>6. QED
    BY <1>3, <1>4, <1>5 DEF Inv

\* begin: what is open is disturbed, the store is empty.
LEMMA BeginStageInv == Inv /\ BeginStage => Inv'
  <1> SUFFICES ASSUME Inv, BeginStage PROVE Inv'
    OBVIOUS
  <1> DEFINE n == Len(stack)
  <1>1. /\ stack \in Seq(Entries) /\ keys \in Stores /\ stage \in Nat /\ begun \in Nat
        /\ executionStack \in Seq(BOOLEAN) /\ n \in Nat
    BY LenProperties DEF Inv, TypeOK
  <1>2. StageEntry \in Entries /\ StageEntry.kind = "stage"
        /\ StageEntry.savedKeys = keys /\ StageEntry.savedStage = stage
    BY <1>1 DEF StageEntry, Entries
  <1>3. /\ stack' \in Seq(Entries) /\ stack' # <<>> /\ Len(stack') = n + 1
        /\ stack'[n + 1] = StageEntry
        /\ \A i \in 1 .. n :
             /\ stack'[i].kind = stack[i].kind
             /\ stack'[i].disturbed
             /\ stack[i].kind = "stage" => stack'[i] = stack[i]
             /\ stack[i].kind = "call" => stack'[i].stage = stack[i].stage
    <2>1. /\ Disturb(stack) \in Seq(Entries) /\ Len(Disturb(stack)) = n
          /\ \A i \in 1 .. n :
               /\ Disturb(stack)[i].kind = stack[i].kind
               /\ Disturb(stack)[i].disturbed
               /\ stack[i].kind = "stage" => Disturb(stack)[i] = stack[i]
               /\ stack[i].kind = "call" => Disturb(stack)[i].stage = stack[i].stage
      BY <1>1, DisturbElements
    <2>2. stack' = Append(Disturb(stack), StageEntry)
      BY DEF BeginStage
    <2>3. /\ Append(Disturb(stack), StageEntry) \in Seq(Entries)
          /\ Append(Disturb(stack), StageEntry) # <<>>
          /\ Len(Append(Disturb(stack), StageEntry)) = n + 1
          /\ Append(Disturb(stack), StageEntry)[n + 1] = StageEntry
          /\ \A i \in 1 .. n : Append(Disturb(stack), StageEntry)[i] = Disturb(stack)[i]
      BY <1>2, <2>1, AppendElements
    <2>4. QED
      BY <2>1, <2>2, <2>3
  <1>4. /\ stage' \in Nat /\ stage' # 0 /\ begun' \in Nat
        /\ keys' \in Stores /\ \A c \in Calls : keys'[c] = NoSlot
    BY <1>1 DEF BeginStage, NoKeys, NoSlot, Stores, Slots
  <1>5. stack = <<>> \/ (n > 0 /\ stack[n].kind = "call")
    BY <1>1, FrontElements DEF BeginStage, InCall
  <1>6. TypeOK'
    <2>1. executionStack' \in Seq(BOOLEAN)
      BY DEF BeginStage
    <2>2. QED
      BY <1>3, <1>4, <2>1 DEF Inv, TypeOK, BeginStage
  <1>7. Nesting'
    <2>1. n = 0 <=> stage = 0
      BY <1>1, EmptySeq DEF Inv, TypeOK
    <2>2. n > 0 => stack[1].kind = "stage"
      BY <1>1, EmptySeq DEF Inv, Nesting
    <2>3. stack'[1].kind = "stage"
      <3>1. CASE n = 0
        BY <1>2, <1>3, <3>1
      <3>2. CASE n > 0
        BY <1>1, <1>3, <2>2, <3>2
      <3>3. QED
        BY <1>1, <3>1, <3>2
    <2>4. ASSUME NEW k \in 1 .. n + 1, stack'[k].kind = "stage"
          PROVE  stack'[k].savedStage = 0 <=> k = 1
      <3>1. CASE k = n + 1
        BY <1>1, <1>2, <1>3, <2>1, <3>1
      <3>2. CASE k \in 1 .. n
        BY <1>3, <2>4, <3>2 DEF Inv, Nesting
      <3>3. QED
        BY <1>1, <3>1, <3>2
    <2>5. QED
      BY <1>3, <2>3, <2>4 DEF Nesting
  <1>8. CallsKeepTheirStage'
    <2>1. SUFFICES ASSUME NEW i \in 1 .. n + 1, stack'[i].kind = "call"
                   PROVE  stack'[i].stage = StageAbove(i)'
      BY <1>3 DEF CallsKeepTheirStage
    <2>2. i \in 1 .. n /\ i # n + 1
      BY <1>1, <1>2, <1>3, <2>1
    <2>3. stack'[i].stage = stack[i].stage /\ stack[i].stage = StageAbove(i)
      BY <1>3, <2>1, <2>2 DEF Inv, CallsKeepTheirStage
    <2>4. CASE i = n
      BY <1>1, <1>2, <1>3, <2>2, <2>3, <2>4 DEF StageAbove
    <2>5. CASE i # n
      <3>1. i + 1 \in 1 .. n
        BY <1>1, <2>2, <2>5
      <3>2. stack[i + 1] \in StageEntries \cup CallEntries
        BY <1>1, <3>1, EntriesAreOfTwoKinds
      <3>3. stack[i + 1].kind = "stage" \/ stack[i + 1].kind = "call"
        BY <3>2 DEF StageEntries, CallEntries
      <3>4. QED
        BY <1>3, <2>2, <2>3, <2>5, <3>1, <3>3 DEF StageAbove
    <2>6. QED
      BY <2>4, <2>5
  <1>9. StoresAreKept'
    <2>1. Kept(keys, stage)'
      BY <1>4 DEF Kept, NoSlot
    <2>2. ASSUME NEW k \in 1 .. n + 1, stack'[k].kind = "stage"
          PROVE  Kept(stack'[k].savedKeys, stack'[k].savedStage)
      <3>1. CASE k = n + 1
        BY <1>2, <1>3, <3>1 DEF Inv, StoresAreKept
      <3>2. CASE k \in 1 .. n
        BY <1>3, <2>2, <3>2 DEF Inv, StoresAreKept
      <3>3. QED
        BY <1>1, <3>1, <3>2
    <2>3. \A k \in 1 .. Len(stack') : stack'[k].kind = "stage" =>
            Kept(stack'[k].savedKeys, stack'[k].savedStage)
      BY <1>3, <2>2
    <2>4. QED
      BY <2>1, <2>3 DEF StoresAreKept, Kept
  <1>10. FramesAreTheirs'
    <2>1. \A i \in 1 .. n + 1 : stack'[i].disturbed
      BY <1>1, <1>3 DEF StageEntry
    <2>2. QED
      BY <1>3, <2>1 DEF FramesAreTheirs
  <1>11. QED
    BY <1>6, <1>7, <1>8, <1>9, <1>10 DEF Inv

\* finish: the store of the stage around it is back.
LEMMA FinishStageInv == Inv /\ FinishStage => Inv'
  <1> SUFFICES ASSUME Inv, FinishStage PROVE Inv'
    OBVIOUS
  <1> DEFINE n == Len(stack)
  <1>1. /\ stack \in Seq(Entries) /\ keys \in Stores /\ n \in Nat
        /\ stack # <<>>
    BY LenProperties DEF Inv, TypeOK, FinishStage
  <1>2. /\ stack' \in Seq(Entries) /\ n > 0 /\ Last(stack) = stack[n] /\ Last(stack) \in Entries
        /\ Len(stack') = n - 1
        /\ \A i \in 1 .. n - 1 : stack'[i] = stack[i]
    BY <1>1, FrontElements DEF FinishStage
  <1>3. Last(stack) \in StageEntries /\ stack[n].kind = "stage"
    BY <1>1, <1>2 DEF FinishStage, InCall, Entries, StageEntries
  <1>4. keys' = stack[n].savedKeys /\ stage' = stack[n].savedStage
        /\ keys' \in Stores /\ stage' \in Nat
    BY <1>2, <1>3 DEF FinishStage, StageEntries
  <1>5. TypeOK'
    <2>1. stage' = 0 <=> n = 1
      BY <1>1, <1>2, <1>3, <1>4 DEF Inv, Nesting
    <2>2. stack' = <<>> <=> n = 1
      BY <1>1, <1>2, EmptySeq
    <2>3. QED
      BY <1>2, <1>4, <2>1, <2>2 DEF Inv, TypeOK, FinishStage
  <1>6. Nesting'
    <2>1. stack' # <<>> => n - 1 > 0
      BY <1>1, <1>2, EmptySeq
    <2>2. stack' # <<>> => stack'[1] = stack[1]
      BY <1>1, <1>2, <2>1
    <2>3. \A k \in 1 .. n - 1 : k \in 1 .. n
      BY <1>1
    <2>4. QED
      BY <1>1, <1>2, <2>2, <2>3 DEF Inv, Nesting
  <1>7. CallsKeepTheirStage'
    <2>1. SUFFICES ASSUME NEW i \in 1 .. n - 1, stack'[i].kind = "call"
                   PROVE  stack'[i].stage = StageAbove(i)'
      BY <1>2 DEF CallsKeepTheirStage
    <2>2. i \in 1 .. n /\ i # n /\ stack[i].stage = StageAbove(i) /\ stack'[i] = stack[i]
      BY <1>1, <1>2, <2>1 DEF Inv, CallsKeepTheirStage
    <2>3. CASE i = n - 1
      BY <1>1, <1>2, <1>3, <1>4, <2>2, <2>3 DEF StageAbove
    <2>4. CASE i # n - 1
      <3>1. i + 1 \in 1 .. n - 1
        BY <1>1, <2>1, <2>4
      <3>2. QED
        BY <1>2, <2>2, <2>4, <3>1 DEF StageAbove
    <2>5. QED
      BY <2>3, <2>4
  <1>8. StoresAreKept'
    <2>1. Kept(stack[n].savedKeys, stack[n].savedStage)
      BY <1>1, <1>2, <1>3 DEF Inv, StoresAreKept
    <2>2. \A k \in 1 .. n - 1 : k \in 1 .. n
      BY <1>1
    <2>3. Kept(keys', stage')
      BY <1>4, <2>1
    <2>4. \A k \in 1 .. Len(stack') : stack'[k].kind = "stage" =>
            Kept(stack'[k].savedKeys, stack'[k].savedStage)
      BY <1>2, <2>2 DEF Inv, StoresAreKept
    <2>5. QED
      BY <2>3, <2>4 DEF StoresAreKept, Kept
  <1>9. FramesAreTheirs'
    <2>1. SUFFICES ASSUME NEW i \in 1 .. n - 1, stack'[i].kind = "call", ~stack'[i].disturbed
                   PROVE  FALSE
      BY <1>2 DEF FramesAreTheirs
    <2>2. i \in 1 .. n /\ n \in i + 1 .. n /\ stack'[i] = stack[i]
      BY <1>1, <1>2, <2>1
    <2>3. stack[n].kind = "call"
      BY <2>1, <2>2 DEF Inv, FramesAreTheirs
    <2>4. QED
      BY <1>3, <2>3
  <1>10. QED
    BY <1>5, <1>6, <1>7, <1>8, <1>9 DEF Inv

\* Steps that leave the stack, the frames, the store and the stage alone.
LEMMA CountsInv ==
  ASSUME Inv, UNCHANGED <<stack, executionStack, keys, stage>>,
         effects' \in Nat, hits' \in Nat, begun' \in Nat, thrown' \in Nat
  PROVE  Inv'
  BY DEF Inv, TypeOK, Nesting, CallsKeepTheirStage, StageAbove, StoresAreKept, Kept, FramesAreTheirs

\* executeWithCallSummary: a call is entered with a frame of its own.
LEMMA ExecuteInv ==
  ASSUME Inv, NEW c \in Calls, NEW usable \in BOOLEAN, Execute(c, usable)
  PROVE  Inv'
  <1> DEFINE n == Len(stack)
             m == Len(executionStack)
             new == [kind |-> "call", call |-> c, usable |-> usable, effects |-> effects,
                     nested |-> FALSE, disturbed |-> FALSE, stage |-> stage]
  <1>1. /\ stack \in Seq(Entries) /\ keys \in Stores /\ stage \in Nat /\ effects \in Nat
        /\ executionStack \in Seq(BOOLEAN) /\ n \in Nat /\ m \in Nat
        /\ stack # <<>>
    BY LenProperties DEF Inv, TypeOK, Execute
  <1>2. n > 0 /\ stage # 0
    BY <1>1, EmptySeq DEF Inv, TypeOK
  <1>3. new \in Entries /\ new.kind = "call" /\ new.stage = stage
        /\ new.nested = FALSE /\ new.disturbed = FALSE
    BY <1>1 DEF Entries
  <1>4. /\ stack' \in Seq(Entries) /\ stack' # <<>> /\ Len(stack') = n + 1
        /\ stack'[n + 1] = new
        /\ \A i \in 1 .. n : stack'[i] = stack[i]
    <2>1. stack' = Append(stack, new)
      BY DEF Execute
    <2>2. QED
      BY <1>1, <1>3, <2>1, AppendElements
  <1>5. /\ executionStack' \in Seq(BOOLEAN) /\ Len(executionStack') = m + 1
        /\ executionStack'[m + 1] = FALSE
        /\ \A i \in 1 .. m : executionStack'[i] = executionStack[i]
    <2>1. executionStack' = Append(executionStack, FALSE)
      BY DEF Execute
    <2>2. QED
      BY <1>1, <2>1, AppendElements
  <1>6. keys' \in Stores /\ Kept(keys', stage)
    <2>1. Kept(keys, stage)
      BY DEF Inv, StoresAreKept
    <2>2. CASE ~usable
      BY <1>1, <2>1, <2>2 DEF Execute
    <2>3. CASE usable
      <3> DEFINE seen == [keys[c] EXCEPT !.state = "seen", !.stage = stage]
      <3>1. keys[c] \in Slots
        BY <1>1 DEF Stores
      <3>2. seen \in Slots /\ seen.state = "seen" /\ seen.stage = stage
        BY <1>1, <3>1 DEF Slots
      <3>3. keys' = [keys EXCEPT ![c] = IF keys[c] = NoSlot THEN seen ELSE keys[c]]
        BY <2>3 DEF Execute, Observe
      <3>4. keys' \in Stores
        BY <1>1, <3>1, <3>2, <3>3 DEF Stores
      <3>5. \A d \in Calls : keys'[d] = keys[d] \/ keys'[d] = seen
        BY <1>1, <3>3 DEF Stores
      <3>6. QED
        BY <2>1, <3>2, <3>4, <3>5 DEF Kept
    <2>4. QED
      BY <2>2, <2>3
  <1>7. stage' = stage
    BY DEF Execute
  <1>8. TypeOK'
    BY <1>1, <1>2, <1>4, <1>5, <1>6, <1>7 DEF Inv, TypeOK, Execute
  <1>9. Nesting'
    <2>1. stack'[1] = stack[1] /\ stack[1].kind = "stage"
      BY <1>1, <1>2, <1>4 DEF Inv, Nesting
    <2>2. \A k \in 1 .. n + 1 : k \in 1 .. n \/ k = n + 1
      BY <1>1
    <2>3. QED
      BY <1>3, <1>4, <2>1, <2>2 DEF Inv, Nesting
  <1>10. CallsKeepTheirStage'
    <2>1. SUFFICES ASSUME NEW i \in 1 .. n + 1, stack'[i].kind = "call"
                   PROVE  stack'[i].stage = StageAbove(i)'
      BY <1>4 DEF CallsKeepTheirStage
    <2>2. CASE i = n + 1
      BY <1>3, <1>4, <1>7, <2>2 DEF StageAbove
    <2>3. CASE i = n
      <3>1. i \in 1 .. n
        BY <1>1, <1>2, <2>3
      <3>2. stack'[i].stage = stage
        BY <1>4, <2>1, <2>3, <3>1 DEF Inv, CallsKeepTheirStage, StageAbove
      <3>3. StageAbove(i)' = stage
        BY <1>1, <1>3, <1>4, <2>3 DEF StageAbove
      <3>4. QED
        BY <3>2, <3>3
    <2>4. CASE i # n /\ i # n + 1
      <3>1. i \in 1 .. n /\ i + 1 \in 1 .. n
        BY <1>1, <2>1, <2>4
      <3>2. QED
        BY <1>4, <2>1, <2>4, <3>1 DEF Inv, CallsKeepTheirStage, StageAbove
    <2>5. QED
      BY <2>2, <2>3, <2>4
  <1>11. StoresAreKept'
    <2>1. \A k \in 1 .. Len(stack') : stack'[k].kind = "stage" => k \in 1 .. n
      BY <1>1, <1>3, <1>4
    <2>2. Kept(keys, stage)'
      BY <1>6, <1>7 DEF Kept
    <2>3. \A k \in 1 .. Len(stack') : stack'[k].kind = "stage" =>
            Kept(stack'[k].savedKeys, stack'[k].savedStage)
      BY <1>4, <2>1 DEF Inv, StoresAreKept
    <2>4. QED
      BY <2>2, <2>3 DEF StoresAreKept, Kept
  <1>12. FramesAreTheirs'
    <2>1. SUFFICES ASSUME NEW i \in 1 .. n + 1, stack'[i].kind = "call", ~stack'[i].disturbed
                   PROVE  /\ n + 1 - i < m + 1
                          /\ executionStack'[m + 1 - (n + 1 - i)] = stack'[i].nested
                          /\ \A j \in i + 1 .. n + 1 : stack'[j].kind = "call" /\ ~stack'[j].disturbed
      BY <1>4, <1>5 DEF FramesAreTheirs
    <2>2. CASE i = n + 1
      <3>1. n + 1 - i = 0 /\ m + 1 - (n + 1 - i) = m + 1 /\ i + 1 .. n + 1 = {}
        BY <1>1, <2>2
      <3>2. executionStack'[m + 1] = stack'[n + 1].nested
        BY <1>3, <1>4, <1>5
      <3>3. QED
        BY <1>1, <2>2, <3>1, <3>2
    <2>3. CASE i # n + 1
      <3>1. i \in 1 .. n /\ stack'[i] = stack[i]
        BY <1>1, <1>4, <2>1, <2>3
      <3>2. /\ n - i < m
            /\ executionStack[m - (n - i)] = stack[i].nested
            /\ \A j \in i + 1 .. n : stack[j].kind = "call" /\ ~stack[j].disturbed
        BY <2>1, <3>1 DEF Inv, FramesAreTheirs
      <3>3. m + 1 - (n + 1 - i) = m - (n - i) /\ m - (n - i) \in 1 .. m /\ n + 1 - i < m + 1
        BY <1>1, <3>1, <3>2
      <3>4. executionStack'[m + 1 - (n + 1 - i)] = stack'[i].nested
        BY <1>5, <3>1, <3>2, <3>3, Zenon
      <3>5. \A j \in i + 1 .. n + 1 : j = n + 1 \/ (j \in i + 1 .. n /\ j \in 1 .. n)
        BY <1>1, <3>1
      <3>6. \A j \in i + 1 .. n + 1 : stack'[j].kind = "call" /\ ~stack'[j].disturbed
        BY <1>3, <1>4, <3>2, <3>5
      <3>7. QED
        BY <3>3, <3>4, <3>6
    <2>4. QED
      BY <2>2, <2>3
  <1>13. QED
    BY <1>8, <1>9, <1>10, <1>11, <1>12 DEF Inv


\* The innermost call ends, by returning or by throwing.
LEMMA CallEnds ==
  ASSUME Inv, InCall, stage' = stage,
         stack' \in Seq(Entries), Len(stack') = Len(stack) - 1,
         \A i \in 1 .. Len(stack) - 1 :
           /\ stack'[i].kind = stack[i].kind
           /\ stack[i].kind = "stage" => stack'[i] = stack[i]
           /\ stack[i].kind = "call" => stack'[i].stage = stack[i].stage
  PROVE  /\ stage' = 0 <=> stack' = <<>>
         /\ Nesting'
         /\ CallsKeepTheirStage'
         /\ Kept(keys', stage') => StoresAreKept'
  <1> DEFINE n == Len(stack)
  <1>1. /\ stack \in Seq(Entries) /\ n \in Nat /\ n > 0 /\ stack[n] = Last(stack)
        /\ stack[n].kind = "call" /\ stack[1].kind = "stage" /\ stage # 0
    BY FrontElements, LenProperties DEF Inv, TypeOK, Nesting, InCall
  <1>2. n > 1 /\ \A i \in 1 .. n - 1 : i \in 1 .. n
    BY <1>1
  <1>3. \A i \in 1 .. n : stack[i].kind = "stage" \/ stack[i].kind = "call"
    BY <1>1, EntriesAreOfTwoKinds DEF StageEntries, CallEntries
  <1>4. stage' = 0 <=> stack' = <<>>
    BY <1>1, <1>2, EmptySeq
  <1>5. Nesting'
    BY <1>1, <1>2 DEF Inv, Nesting
  <1>6. CallsKeepTheirStage'
    <2>1. SUFFICES ASSUME NEW i \in 1 .. n - 1, stack'[i].kind = "call"
                   PROVE  stack'[i].stage = StageAbove(i)'
      BY DEF CallsKeepTheirStage
    <2>2. i \in 1 .. n /\ i # n /\ stack'[i].stage = stack[i].stage
          /\ stack[i].stage = StageAbove(i)
      BY <1>1, <2>1 DEF Inv, CallsKeepTheirStage
    <2>3. CASE i = n - 1
      <3>1. StageAbove(i)' = stage
        BY <1>1, <2>3 DEF StageAbove
      <3>2. StageAbove(i) = stack[n].stage
        BY <1>1, <2>2, <2>3 DEF StageAbove
      <3>3. n \in 1 .. n /\ stack[n].stage = stage
        BY <1>1 DEF Inv, CallsKeepTheirStage, StageAbove
      <3>4. QED
        BY <2>2, <3>1, <3>2, <3>3
    <2>4. CASE i # n - 1
      <3>1. i + 1 \in 1 .. n - 1
        BY <1>1, <2>1, <2>4
      <3>2. QED
        BY <1>2, <1>3, <2>2, <2>4, <3>1 DEF StageAbove
    <2>5. QED
      BY <2>3, <2>4
  <1>7. ASSUME Kept(keys', stage') PROVE StoresAreKept'
    <2>1. \A k \in 1 .. Len(stack') : stack'[k].kind = "stage" =>
            Kept(stack'[k].savedKeys, stack'[k].savedStage)
      BY <1>2 DEF Inv, StoresAreKept
    <2>2. QED
      BY <1>7, <2>1 DEF StoresAreKept, Kept
  <1>8. QED
    BY <1>4, <1>5, <1>6, <1>7

\* An execution that throws: no open call is undisturbed after it.
LEMMA ThrowInv == Inv /\ Throw => Inv'
  <1> SUFFICES ASSUME Inv, Throw PROVE Inv'
    OBVIOUS
  <1> DEFINE n == Len(stack)
             under == NoteNested(Front(stack), Last(stack).nested)
  <1>1. /\ stack \in Seq(Entries) /\ n \in Nat /\ stack # <<>> /\ InCall
        /\ stage' = stage /\ keys' = keys
    BY LenProperties DEF Inv, TypeOK, Throw, InCall
  <1>2. /\ Front(stack) \in Seq(Entries) /\ Len(Front(stack)) = n - 1
        /\ Last(stack) \in Entries
        /\ \A i \in 1 .. n - 1 : Front(stack)[i] = stack[i]
    BY <1>1, FrontElements
  <1>3. Last(stack).nested \in BOOLEAN
    BY <1>1, <1>2 DEF InCall, Entries
  <1>4. /\ under \in Seq(Entries) /\ Len(under) = n - 1
        /\ \A i \in 1 .. n - 1 :
             /\ under[i].kind = stack[i].kind
             /\ stack[i].kind = "stage" => under[i] = stack[i]
             /\ stack[i].kind = "call" => under[i].stage = stack[i].stage
    <2> DEFINE below == Front(stack)
               observed == Last(stack).nested
    <2>1. /\ below \in Seq(Entries) /\ Len(below) = n - 1 /\ observed \in BOOLEAN
          /\ under = NoteNested(below, observed)
          /\ \A i \in 1 .. n - 1 : below[i] = stack[i]
      BY <1>2, <1>3
    <2> HIDE DEF below, observed, under
    <2>2. /\ NoteNested(below, observed) \in Seq(Entries)
          /\ Len(NoteNested(below, observed)) = Len(below)
          /\ \A i \in 1 .. Len(below) :
               /\ NoteNested(below, observed)[i].kind = below[i].kind
               /\ below[i].kind = "stage" => NoteNested(below, observed)[i] = below[i]
               /\ below[i].kind = "call" => NoteNested(below, observed)[i].stage = below[i].stage
      BY <2>1, NotedElements
    <2>3. QED
      BY <2>1, <2>2
  <1>5. stack' = Disturb(under)
    BY DEF Throw
  <1>6. /\ stack' \in Seq(Entries) /\ Len(stack') = n - 1
        /\ \A i \in 1 .. n - 1 :
             /\ stack'[i].kind = stack[i].kind
             /\ stack'[i].disturbed
             /\ stack[i].kind = "stage" => stack'[i] = stack[i]
             /\ stack[i].kind = "call" => stack'[i].stage = stack[i].stage
    <2> HIDE DEF under
    <2>1. /\ Disturb(under) \in Seq(Entries) /\ Len(Disturb(under)) = n - 1
          /\ \A i \in 1 .. n - 1 :
               /\ Disturb(under)[i].kind = under[i].kind
               /\ Disturb(under)[i].disturbed
               /\ under[i].kind = "stage" => Disturb(under)[i] = under[i]
               /\ under[i].kind = "call" => Disturb(under)[i].stage = under[i].stage
      BY <1>4, DisturbElements
    <2>2. QED
      BY <1>4, <1>5, <2>1
  <1>7. Kept(keys', stage')
    BY <1>1 DEF Inv, StoresAreKept
  <1>8. (stage' = 0 <=> stack' = <<>>) /\ Nesting' /\ CallsKeepTheirStage' /\ StoresAreKept'
    BY <1>1, <1>6, <1>7, CallEnds
  <1>9. TypeOK'
    BY <1>6, <1>8 DEF Inv, TypeOK, Throw
  <1>10. FramesAreTheirs'
    BY <1>6 DEF FramesAreTheirs
  <1>11. QED
    BY <1>8, <1>9, <1>10 DEF Inv

\* recordSharedReturn: a call that nothing disturbed pops its own frame, and
\* what it passes on is what happened in it.
LEMMA ReturnInv ==
  ASSUME Inv, NEW valued \in BOOLEAN, Return(valued)
  PROVE  Inv'
  <1> DEFINE n == Len(stack)
             m == Len(executionStack)
             call == Last(stack)
             disabled == effects # call.effects \/ HasNestedSideEffectObserved \/ valued
             under == NoteNested(Front(stack), disabled \/ call.nested)
  <1>1. /\ stack \in Seq(Entries) /\ keys \in Stores /\ n \in Nat /\ m \in Nat /\ stack # <<>>
        /\ InCall /\ executionStack \in Seq(BOOLEAN) /\ stage \in Nat
        /\ stage' = stage
    BY LenProperties DEF Inv, TypeOK, Return, InCall
  <1>2. /\ Front(stack) \in Seq(Entries) /\ Len(Front(stack)) = n - 1 /\ n > 0
        /\ call \in Entries /\ call = stack[n]
        /\ \A i \in 1 .. n - 1 : Front(stack)[i] = stack[i]
    BY <1>1, FrontElements
  <1>3. call \in CallEntries
    BY <1>1, <1>2 DEF InCall, Entries, CallEntries
  <1>4. call.call \in Calls /\ call.nested \in BOOLEAN /\ call.disturbed \in BOOLEAN
        /\ call.stage \in Nat /\ call.kind = "call" /\ call.usable \in BOOLEAN
    BY <1>3 DEF CallEntries
  <1>5. HasNestedSideEffectObserved \in BOOLEAN /\ disabled \in BOOLEAN
    <2>1. executionStack # <<>> => Last(executionStack) \in BOOLEAN
      BY <1>1, FrontElements
    <2>2. HasNestedSideEffectObserved \in BOOLEAN
      BY <2>1 DEF HasNestedSideEffectObserved
    <2>3. QED
      BY <2>2
  <1>6. /\ executionStack' = EndFrame(disabled)
        /\ keys' = IF call.usable /\ keys[call.call].state # "absent"
                   THEN [keys EXCEPT ![call.call] =
                           [state |-> IF disabled THEN "disabled" ELSE "ready",
                            stage |-> call.stage,
                            spoiled |-> call.nested /\ ~call.disturbed]]
                   ELSE keys
        /\ stack' = under
    BY DEF Return
  <1> HIDE DEF disabled, call
  <1>7. /\ stack' \in Seq(Entries) /\ Len(stack') = n - 1
        /\ \A i \in 1 .. n - 1 :
             /\ stack'[i].kind = stack[i].kind
             /\ stack[i].kind = "stage" => stack'[i] = stack[i]
             /\ stack[i].kind = "call" =>
                  /\ stack'[i].stage = stack[i].stage
                  /\ stack'[i].disturbed = stack[i].disturbed
                  /\ stack'[i].nested =
                       IF (disabled \/ call.nested) /\ i = n - 1 THEN TRUE ELSE stack[i].nested
    <2> DEFINE below == Front(stack)
               observed == disabled \/ call.nested
    <2>1. /\ below \in Seq(Entries) /\ Len(below) = n - 1 /\ observed \in BOOLEAN
          /\ stack' = NoteNested(below, observed)
          /\ \A i \in 1 .. n - 1 : below[i] = stack[i]
      BY <1>2, <1>4, <1>5, <1>6
    <2> HIDE DEF below
    <2>2. /\ NoteNested(below, observed) \in Seq(Entries)
          /\ Len(NoteNested(below, observed)) = Len(below)
          /\ \A i \in 1 .. Len(below) :
               /\ NoteNested(below, observed)[i].kind = below[i].kind
               /\ below[i].kind = "stage" => NoteNested(below, observed)[i] = below[i]
               /\ below[i].kind = "call" =>
                    /\ NoteNested(below, observed)[i].stage = below[i].stage
                    /\ NoteNested(below, observed)[i].disturbed = below[i].disturbed
                    /\ NoteNested(below, observed)[i].nested =
                         IF observed /\ i = Len(below) THEN TRUE ELSE below[i].nested
      <3> HIDE DEF observed
      <3>1. QED
        BY <2>1, NotedElements
    <2>3. stack' \in Seq(Entries) /\ Len(stack') = n - 1
      BY <2>1, <2>2
    <2>4. ASSUME NEW i \in 1 .. n - 1
          PROVE  /\ stack'[i].kind = stack[i].kind
                 /\ stack[i].kind = "stage" => stack'[i] = stack[i]
                 /\ stack[i].kind = "call" =>
                      /\ stack'[i].stage = stack[i].stage
                      /\ stack'[i].disturbed = stack[i].disturbed
                      /\ stack'[i].nested =
                           IF observed /\ i = n - 1 THEN TRUE ELSE stack[i].nested
      <3> HIDE DEF observed
      <3>1. i \in 1 .. Len(below) /\ below[i] = stack[i]
        BY <2>1
      <3>2. QED
        BY <2>1, <2>2, <3>1, Zenon
    <2>5. QED
      BY <2>3, <2>4, Zenon
  <1>8. executionStack' \in Seq(BOOLEAN)
    BY <1>1, <1>5, <1>6, EndedFrames
  <1>9. n \in 1 .. n /\ call.stage = stage
    BY <1>1, <1>2, <1>4 DEF Inv, CallsKeepTheirStage, StageAbove
  <1>10. ASSUME ~call.disturbed
         PROVE  m > 0 /\ call.nested = HasNestedSideEffectObserved
    <2>1. n - n < m /\ executionStack[m - (n - n)] = call.nested
      BY <1>2, <1>4, <1>9, <1>10 DEF Inv, FramesAreTheirs
    <2>2. m > 0 /\ m - (n - n) = m
      BY <1>1, <2>1
    <2>3. executionStack # <<>> /\ Last(executionStack) = executionStack[m]
      <3>1. executionStack # <<>>
        BY <2>2, EmptySeq
      <3>2. QED
        BY <1>1, <3>1, FrontElements, Zenon
    <2>4. HasNestedSideEffectObserved = Last(executionStack)
      <3>1. Last(executionStack) \in BOOLEAN
        BY <1>1, <2>3, FrontElements
      <3>2. QED
        BY <2>3, <3>1, Zenon DEF HasNestedSideEffectObserved
    <2>5. QED
      BY <2>1, <2>2, <2>3, <2>4, Zenon
  <1>11. keys' \in Stores /\ Kept(keys', stage')
    <2> DEFINE slot == [state |-> IF disabled THEN "disabled" ELSE "ready",
                        stage |-> call.stage,
                        spoiled |-> call.nested /\ ~call.disturbed]
    <2>1. Kept(keys, stage)
      BY DEF Inv, StoresAreKept
    <2>2. slot \in Slots /\ slot.stage = stage
      BY <1>4, <1>9 DEF Slots
    <2>3. slot.state = "ready" => ~slot.spoiled
      <3>1. slot.state = "ready" => ~HasNestedSideEffectObserved
        BY DEF disabled
      <3>2. slot.spoiled => call.nested /\ ~call.disturbed
        BY <1>4
      <3>3. QED
        BY <1>10, <3>1, <3>2
    <2> HIDE DEF slot
    <2>4. keys' \in Stores /\ \A d \in Calls : keys'[d] = keys[d] \/ keys'[d] = slot
      <3>1. keys' = keys \/ keys' = [keys EXCEPT ![call.call] = slot]
        BY <1>6 DEF slot
      <3>2. QED
        BY <1>1, <1>4, <2>2, <3>1 DEF Stores
    <2>5. QED
      BY <1>1, <2>1, <2>2, <2>3, <2>4 DEF Kept
  <1>12. (stage' = 0 <=> stack' = <<>>) /\ Nesting' /\ CallsKeepTheirStage' /\ StoresAreKept'
    BY <1>1, <1>7, <1>11, CallEnds
  <1>13. TypeOK'
    BY <1>7, <1>8, <1>11, <1>12 DEF Inv, TypeOK, Return
  <1>14. FramesAreTheirs'
    <2>1. SUFFICES ASSUME NEW i \in 1 .. n - 1, stack'[i].kind = "call", ~stack'[i].disturbed
                   PROVE  /\ n - 1 - i < Len(executionStack')
                          /\ executionStack'[Len(executionStack') - (n - 1 - i)] = stack'[i].nested
                          /\ \A j \in i + 1 .. n - 1 : stack'[j].kind = "call" /\ ~stack'[j].disturbed
      BY <1>7 DEF FramesAreTheirs
    <2>2. i \in 1 .. n /\ stack[i].kind = "call" /\ stack'[i].disturbed = stack[i].disturbed
      <3>1. i \in 1 .. n
        BY <1>1, <2>1
      <3>2. stack[i].kind = "call"
        BY <1>7, <2>1
      <3>3. stack'[i].disturbed = stack[i].disturbed
        BY <1>7, <3>2
      <3>4. QED
        BY <3>1, <3>2, <3>3
    <2>3. /\ n - i < m
          /\ executionStack[m - (n - i)] = stack[i].nested
          /\ \A j \in i + 1 .. n : stack[j].kind = "call" /\ ~stack[j].disturbed
      BY <2>1, <2>2 DEF Inv, FramesAreTheirs
    <2>4. n \in i + 1 .. n
      BY <1>1, <2>1
    <2>5. ~call.disturbed
      BY <1>2, <2>3, <2>4
    <2>6. executionStack # <<>> /\ m > 1
      BY <1>1, <2>1, <2>3, EmptySeq
    <2>7. /\ Len(executionStack') = m - 1
          /\ disabled => executionStack'[m - 1]
          /\ \A k \in 1 .. m - 1 : ~disabled \/ k # m - 1 => executionStack'[k] = executionStack[k]
      BY <1>1, <1>5, <1>6, <2>6, EndedFrames
    <2>8. /\ n - 1 - i < m - 1
          /\ m - 1 - (n - 1 - i) = m - (n - i)
          /\ m - (n - i) \in 1 .. m - 1
          /\ m - (n - i) = m - 1 <=> i = n - 1
      BY <1>1, <2>1, <2>3
    <2>9. executionStack'[m - (n - i)] = stack'[i].nested
      <3>1. CASE (disabled \/ call.nested) /\ i = n - 1
        <4>1. disabled
          BY <1>10, <2>5, <3>1 DEF disabled
        <4>2. stack'[i].nested = TRUE
          BY <1>7, <2>1, <2>2, <3>1
        <4>3. executionStack'[m - (n - i)] = TRUE
          <5>1. m - (n - i) = m - 1
            BY <2>8, <3>1
          <5>2. executionStack'[m - 1] \in BOOLEAN
            BY <1>1, <1>8, <2>7, <2>6, ElementOfSeq
          <5>3. QED
            BY <2>7, <4>1, <5>1, <5>2, Zenon
        <4>4. QED
          BY <4>2, <4>3, Zenon
      <3>2. CASE ~((disabled \/ call.nested) /\ i = n - 1)
        <4>1. stack'[i].nested = stack[i].nested
          BY <1>7, <2>1, <2>2, <3>2
        <4>2. ~disabled \/ m - (n - i) # m - 1
          BY <2>8, <3>2
        <4>3. executionStack'[m - (n - i)] = executionStack[m - (n - i)]
          BY <2>7, <2>8, <4>2, Zenon
        <4>4. QED
          BY <2>3, <4>1, <4>3, Zenon
      <3>3. QED
        BY <3>1, <3>2
    <2>10. \A j \in i + 1 .. n - 1 : stack'[j].kind = "call" /\ ~stack'[j].disturbed
      <3>1. \A j \in i + 1 .. n - 1 : j \in 1 .. n - 1 /\ j \in i + 1 .. n
        BY <1>1, <2>1
      <3>2. QED
        BY <1>7, <2>3, <3>1
    <2>11. QED
      BY <2>7, <2>8, <2>9, <2>10
  <1>15. QED
    BY <1>12, <1>13, <1>14, <1>11 DEF Inv

\* Every step keeps the invariant.
LEMMA NextInv == Inv /\ [Next]_vars => Inv'
  <1> SUFFICES ASSUME Inv, [Next]_vars PROVE Inv'
    OBVIOUS
  <1>0. effects \in Nat /\ hits \in Nat /\ begun \in Nat /\ thrown \in Nat
    BY DEF Inv, TypeOK
  <1>1. CASE BeginStage
    BY <1>1, BeginStageInv
  <1>2. CASE FinishStage
    BY <1>2, FinishStageInv
  <1>3. CASE CountedEffect
    BY <1>0, <1>3, CountsInv DEF CountedEffect
  <1>4. CASE Throw
    BY <1>4, ThrowInv
  <1>5. ASSUME NEW c \in Calls, Skip(c) PROVE Inv'
    BY <1>0, <1>5, CountsInv DEF Skip
  <1>6. ASSUME NEW c \in Calls, NEW usable \in BOOLEAN, Execute(c, usable) PROVE Inv'
    BY <1>6, ExecuteInv
  <1>7. ASSUME NEW valued \in BOOLEAN, Return(valued) PROVE Inv'
    BY <1>7, ReturnInv
  <1>8. CASE UNCHANGED vars
    BY <1>0, <1>8, CountsInv DEF vars
  <1>9. QED
    BY <1>1, <1>2, <1>3, <1>4, <1>5, <1>6, <1>7, <1>8 DEF Next

\* The variables keep their types, and the session is active exactly while a
\* stage is open: a stage that ends brings back the one around it.
THEOREM TypeCorrect == Spec => []TypeOK
  <1>1. Inv => TypeOK
    BY DEF Inv
  <1>2. QED
    BY <1>1, InitInv, NextInv, PTL DEF Spec

\* No summary that lookupReturn can replay was made of an execution with a
\* nested call that could not be summarised (session.ts:405-418), unless
\* something was thrown or a file was imported in that execution.
THEOREM SummariesClean == Spec => []SummariesAreClean
  <1>1. Inv => SummariesAreClean
    BY DEF Inv, StoresAreKept, Kept, SummariesAreClean
  <1>2. QED
    BY <1>1, InitInv, NextInv, PTL DEF Spec

\* A store only holds what was recorded in the stage that is running, however
\* stages nest in the calls of others (session.ts:212-251).
THEOREM StagesSeparate == Spec => []StagesAreSeparate
  <1>1. Inv => StagesAreSeparate
    BY DEF Inv, StoresAreKept, Kept, StagesAreSeparate
  <1>2. QED
    BY <1>1, InitInv, NextInv, PTL DEF Spec

\* An open call that nothing was thrown or imported in has an execution frame
\* of its own, which says whether a nested call could not be summarised: the
\* frames that begin drops and exceptions leave behind (session.ts) are never
\* taken for those of another call.
THEOREM FramesStayTheirs == Spec => []FramesAreTheirs
  <1>1. Inv => FramesAreTheirs
    BY DEF Inv
  <1>2. QED
    BY <1>1, InitInv, NextInv, PTL DEF Spec

=============================================================================
