----------------------- MODULE FindingsCheckpointProofs -----------------------
(***************************************************************************)
(* What holds of FindingsCheckpoint for any number of findings, calls,     *)
(* failures and crashes.                                                   *)
(***************************************************************************)
EXTENDS FindingsCheckpoint, TLAPS

LEMMA FileContents ==
  /\ NoFile \in Files
  /\ \A c \in Contents : Synced(c) \in Files /\ Synced(c).cached = c /\ Synced(c).synced = c
  BY CheckpointAssumption DEF NoFile, Synced, Files, Contents, Documents, Absent, Empty, Cut, Earlier

\* Files that a call of the writer creates: not a document of an earlier run.
Drafts == [cached : Contents \ {Earlier}, synced : Contents \ {Earlier}]

LEMMA DraftContents ==
  /\ NoFile \in Drafts
  /\ Synced(Empty) \in Drafts
  /\ \A c \in 0 .. MaxFindings : c \in Contents \ {Earlier} /\ Synced(c) \in Drafts
  /\ Cut \in Contents \ {Earlier}
  /\ Drafts \subseteq Files
  BY CheckpointAssumption
     DEF NoFile, Synced, Drafts, Files, Contents, Documents, Absent, Empty, Cut, Earlier

-----------------------------------------------------------------------------
(* Type correctness *)

LEMMA InitType == Init => TypeOK
  <1> SUFFICES ASSUME Init PROVE TypeOK
    OBVIOUS
  <1>1. Earlier \in Contents /\ Absent \in Contents
    BY CheckpointAssumption DEF Contents, Documents, Earlier
  <1>2. target \in Files /\ target.cached \in Contents
    BY <1>1, FileContents DEF Init, NoFile, Files
  <1>3. temporary \in [cached : Contents \ {Earlier}, synced : Contents \ {Earlier}]
    BY DraftContents DEF Init, Drafts
  <1>4. finalized \in BOOLEAN /\ fd \in BOOLEAN /\ retriable \in BOOLEAN /\ spoiled \in BOOLEAN
    BY DEF Init
  <1>5. /\ findings \in 0 .. MaxFindings /\ calls \in 0 .. Calls
        /\ failures \in 0 .. MaxFailures /\ crashes \in 0 .. MaxCrashes
        /\ published \in Nat
    BY CheckpointAssumption DEF Init
  <1>6. onDisk \in Files /\ before \in Contents
    BY <1>2 DEF Init
  <1>7. status = "none" /\ pc = "idle"
    BY DEF Init
  <1>8. QED
    BY <1>2, <1>3, <1>4, <1>5, <1>6, <1>7 DEF TypeOK

\* A step that changes one field of the temporary file keeps it a draft.
LEMMA DraftUpdate ==
  ASSUME NEW f \in Drafts, NEW c \in Contents \ {Earlier}
  PROVE  /\ [f EXCEPT !.cached = c] \in Drafts
         /\ [f EXCEPT !.synced = c] \in Drafts
         /\ [f EXCEPT !.cached = c].cached = c
         /\ [f EXCEPT !.cached = c].synced = f.synced
         /\ [f EXCEPT !.synced = c].synced = c
         /\ [f EXCEPT !.synced = c].cached = f.cached
  BY DEF Drafts

LEMMA NextType == TypeOK /\ [Next]_vars => TypeOK'
  <1> SUFFICES ASSUME TypeOK, [Next]_vars PROVE TypeOK'
    OBVIOUS
  <1>0. temporary \in Drafts /\ findings \in 0 .. MaxFindings /\ target.cached \in Contents
        /\ Synced(onDisk.synced) \in Files
    <2>1. target.cached \in Contents /\ onDisk.synced \in Contents
      BY DEF TypeOK, Files
    <2>2. QED
      BY <2>1, FileContents DEF TypeOK, Drafts
  <1>1. CASE NewFinding
    BY <1>1, CheckpointAssumption DEF NewFinding, TypeOK
  <1>2. CASE WriteOnce
    <2>1. pc' \in FsCalls \cup {"idle", "crashed"}
      BY <1>2 DEF WriteOnce, TypeOK, FsCalls
    <2>2. status' \in {"none", "written", "skipped", "error"}
      BY <1>2 DEF WriteOnce, TypeOK
    <2>3. before' \in Contents
      BY <1>0, <1>2 DEF WriteOnce, TypeOK
    <2>4. calls' \in 0 .. Calls
      BY <1>2, CheckpointAssumption DEF WriteOnce, TypeOK
    <2>5. UNCHANGED <<findings, finalized, fd, retriable, temporary, target, onDisk,
                      failures, crashes, published, spoiled>>
      BY <1>2 DEF WriteOnce
    <2>6. QED
      BY <2>1, <2>2, <2>3, <2>4, <2>5 DEF TypeOK
  <1>3. CASE Fail
    <2>1. pc' \in FsCalls /\ status' = "error" /\ retriable' \in BOOLEAN
      BY <1>3 DEF Fail, FsCalls
    <2>2. failures' \in 0 .. MaxFailures
      BY <1>3, CheckpointAssumption DEF Fail, TypeOK
    <2>3. temporary' \in Drafts
      <3>1. temporary' = temporary \/ temporary' = [temporary EXCEPT !.cached = Cut]
        BY <1>3 DEF Fail
      <3>2. [temporary EXCEPT !.cached = Cut] \in Drafts
        BY <1>0, DraftContents, DraftUpdate
      <3>3. QED
        BY <1>0, <3>1, <3>2
    <2>4. QED
      BY <1>3, <2>1, <2>2, <2>3 DEF Fail, TypeOK, Drafts
  <1>4. CASE Mkdir
    BY <1>4 DEF Mkdir, TypeOK, FsCalls
  <1>5. CASE Open
    <2>1. temporary' \in Drafts
      BY <1>5, DraftContents DEF Open
    <2>2. pc' \in FsCalls /\ fd' \in BOOLEAN
      BY <1>5 DEF Open, FsCalls
    <2>3. QED
      BY <1>5, <2>1, <2>2 DEF Open, TypeOK, Drafts
  <1>6. CASE Write
    <2>1. PICK content \in {findings} \cup (IF ShortWrites THEN {Cut} ELSE {}) :
            temporary' = [temporary EXCEPT !.cached = content]
      BY <1>6 DEF Write
    <2>2. content \in Contents \ {Earlier}
      BY <1>0, DraftContents
    <2>3. temporary' \in Drafts
      BY <1>0, <2>1, <2>2, DraftUpdate
    <2>4. QED
      BY <1>6, <2>3 DEF Write, TypeOK, Drafts, FsCalls
  <1>7. CASE Fsync
    <2>1. temporary.cached \in Contents \ {Earlier}
      BY <1>0 DEF Drafts
    <2>2. temporary' \in Drafts
      BY <1>0, <1>7, <2>1, DraftUpdate DEF Fsync
    <2>3. QED
      BY <1>7, <2>2 DEF Fsync, TypeOK, Drafts, FsCalls
  <1>8. CASE Close
    <2>1. pc' \in FsCalls /\ fd' \in BOOLEAN
      BY <1>8 DEF Close, FsCalls
    <2>2. QED
      BY <1>8, <2>1 DEF Close, TypeOK
  <1>9. CASE Rename
    <2>1. target' \in Files /\ temporary' \in Drafts
      BY <1>0, <1>9, DraftContents DEF Rename
    <2>2. QED
      BY <1>9, <2>1 DEF Rename, TypeOK, Drafts, FsCalls
  <1>10. CASE CloseAgain
    <2>1. pc' \in FsCalls /\ fd' \in BOOLEAN
      BY <1>10 DEF CloseAgain, FsCalls
    <2>2. QED
      BY <1>10, <2>1 DEF CloseAgain, TypeOK
  <1>11. CASE Unlink
    <2>1. finalized' \in BOOLEAN
      BY <1>11 DEF Unlink, TypeOK
    <2>2. pc' \in FsCalls \cup {"idle", "crashed"}
      BY <1>11 DEF Unlink
    <2>3. temporary' \in Drafts /\ failures' \in 0 .. MaxFailures
      <3>1. CASE Unlinked
        BY <3>1, DraftContents DEF Unlinked, TypeOK
      <3>2. CASE UnlinkFails
        BY <1>0, <3>2, CheckpointAssumption DEF UnlinkFails, TypeOK
      <3>3. QED
        BY <1>11, <3>1, <3>2 DEF Unlink
    <2>4. spoiled' \in BOOLEAN
      BY <1>11 DEF Unlink, Unlinked, UnlinkFails, TypeOK
    <2>5. QED
      BY <1>11, <2>1, <2>2, <2>3, <2>4 DEF Unlink, TypeOK, Drafts
  <1>12. CASE FlushDirectory
    BY <1>12 DEF FlushDirectory, TypeOK
  <1>13. CASE Die /\ target' \in Files /\ onDisk' \in Files
    <2>1. crashes' \in 0 .. MaxCrashes
      BY <1>13, CheckpointAssumption DEF Die, TypeOK
    <2>2. spoiled' \in BOOLEAN
      BY <1>13 DEF Die
    <2>3. QED
      BY <1>13, <2>1, <2>2 DEF Die, TypeOK
  <1>14. CASE Restart
    <2>1. temporary' \in Drafts /\ before' \in Contents
      BY <1>0, <1>14, DraftContents DEF Restart
    <2>2. finalized' \in BOOLEAN /\ fd' \in BOOLEAN /\ retriable' \in BOOLEAN
      BY <1>14 DEF Restart
    <2>3. findings' \in 0 .. MaxFindings /\ calls' \in 0 .. Calls /\ published' \in Nat
      BY <1>14, CheckpointAssumption DEF Restart
    <2>4. QED
      BY <1>14, <2>1, <2>2, <2>3 DEF Restart, TypeOK, Drafts
  <1>15. CASE UNCHANGED vars
    BY <1>15 DEF vars, TypeOK
  <1>16. ProcessDies \/ PowerLoss => Die /\ target' \in Files /\ onDisk' \in Files
    BY <1>0 DEF ProcessDies, PowerLoss, TypeOK
  <1>17. QED
    BY <1>1, <1>2, <1>3, <1>4, <1>5, <1>6, <1>7, <1>8, <1>9, <1>10, <1>11, <1>12,
       <1>13, <1>14, <1>15, <1>16 DEF Next

\* Every variable of the checkpoint writer keeps its type.
THEOREM TypeCorrect == Spec => []TypeOK
  BY InitType, NextType, PTL DEF Spec

-----------------------------------------------------------------------------
(* The checkpoint is a document that is replaced as a whole *)

\* What is about to be renamed is a whole document and synchronized; so is
\* what is at filePath, and what a power loss would leave there.
WholeInv ==
  /\ TypeOK
  /\ NeverTorn
  /\ target.synced = target.cached
  /\ pc = "fsync" => temporary.cached = findings
  /\ pc \in {"close", "rename"} => temporary.cached = findings /\ temporary.synced = findings

LEMMA InitWhole == Init => WholeInv /\ onDisk.synced = target.cached
  <1> SUFFICES ASSUME Init PROVE WholeInv /\ onDisk.synced = target.cached
    OBVIOUS
  <1>1. TypeOK
    BY InitType
  <1>2. /\ target = onDisk /\ pc = "idle"
        /\ target = Synced(Absent) \/ target = Synced(Earlier)
    BY DEF Init, NoFile
  <1>3. Earlier \in Documents
    BY CheckpointAssumption DEF Documents, Earlier
  <1>4. QED
    BY <1>1, <1>2, <1>3 DEF WholeInv, NeverTorn, Synced

LEMMA NextWhole ==
  ASSUME ~ShortWrites, WholeInv, [Next]_vars
  PROVE  WholeInv'
  <1>0. /\ TypeOK
        /\ TypeOK'
        /\ temporary \in Drafts
        /\ findings \in Documents
        /\ NeverTorn
    <2>1. TypeOK /\ TypeOK' /\ NeverTorn
      BY NextType DEF WholeInv
    <2>2. QED
      BY <2>1, CheckpointAssumption DEF TypeOK, Drafts, Documents, Earlier
  <1>1. CASE /\ UNCHANGED <<target, onDisk>>
             /\ pc' \notin {"fsync", "close", "rename"}
    BY <1>0, <1>1 DEF WholeInv, NeverTorn
  <1>2. CASE Write
    <2>1. temporary' = [temporary EXCEPT !.cached = findings]
      BY <1>2 DEF Write
    <2>2. findings \in Contents \ {Earlier}
      BY <1>0, DraftContents DEF TypeOK
    <2>3. temporary'.cached = findings
      BY <1>0, <2>1, <2>2, DraftUpdate
    <2>4. pc' = "fsync" /\ UNCHANGED <<target, onDisk, findings>>
      BY <1>2 DEF Write
    <2>5. QED
      BY <1>0, <2>3, <2>4 DEF WholeInv, NeverTorn
  <1>3. CASE Fsync
    <2>1. temporary.cached = findings /\ findings \in Contents \ {Earlier}
      BY <1>0, <1>3, DraftContents DEF Fsync, WholeInv, TypeOK
    <2>2. temporary'.cached = findings /\ temporary'.synced = findings
      BY <1>0, <1>3, <2>1, DraftUpdate DEF Fsync
    <2>3. pc' = "close" /\ UNCHANGED <<target, onDisk, findings>>
      BY <1>3 DEF Fsync
    <2>4. QED
      BY <1>0, <2>2, <2>3 DEF WholeInv, NeverTorn
  <1>4. CASE Close
    BY <1>0, <1>4 DEF Close, WholeInv, NeverTorn
  <1>5. CASE Rename
    <2>1. /\ target' = temporary /\ pc' = "unlink" /\ UNCHANGED onDisk
          /\ temporary.cached = findings /\ temporary.synced = findings
      BY <1>5 DEF Rename, WholeInv
    <2>2. QED
      BY <1>0, <2>1 DEF WholeInv, NeverTorn
  <1>6. CASE FlushDirectory
    <2>1. onDisk' = target /\ UNCHANGED <<target, temporary, findings, pc>>
      BY <1>6 DEF FlushDirectory
    <2>2. QED
      BY <1>0, <2>1 DEF WholeInv, NeverTorn
  <1>7. CASE PowerLoss
    <2>1. /\ target' = Synced(onDisk.synced) /\ onDisk' = Synced(onDisk.synced)
          /\ pc' = "crashed"
      BY <1>7 DEF PowerLoss, Die
    <2>2. QED
      BY <1>0, <2>1 DEF WholeInv, NeverTorn, Synced
  <1>8. CASE UNCHANGED vars
    BY <1>0, <1>8 DEF vars, WholeInv, NeverTorn
  <1>9. CASE \/ NewFinding \/ WriteOnce \/ Fail \/ Mkdir \/ Open \/ CloseAgain \/ Unlink
             \/ ProcessDies \/ Restart
    <2>1. UNCHANGED <<target, onDisk>> /\ pc' \notin {"fsync", "close", "rename"}
      BY <1>9 DEF NewFinding, WriteOnce, Fail, Mkdir, Open, CloseAgain, Unlink,
                  ProcessDies, Die, Restart
    <2>2. QED
      BY <1>1, <2>1
  <1>10. QED
    BY <1>2, <1>3, <1>4, <1>5, <1>6, <1>7, <1>8, <1>9 DEF Next

\* If write() stores all data or fails, then the checkpoint is absent or a
\* whole document, whichever calls fail and whenever process or machine die.
THEOREM CheckpointIsWhole ==
  ASSUME ~ShortWrites
  PROVE  Spec => []NeverTorn
  <1>1. Init => WholeInv
    BY InitWhole
  <1>2. WholeInv /\ [Next]_vars => WholeInv'
    BY NextWhole
  <1>3. WholeInv => NeverTorn
    BY DEF WholeInv
  <1>4. QED
    BY <1>1, <1>2, <1>3, PTL DEF Spec

LEMMA StepIsAbstract ==
  ASSUME WholeInv, [Next]_vars
  PROVE  [Document!Next]_Document!vars
  <1>1. CASE NewFinding
    BY <1>1 DEF NewFinding, Document!Next, Document!NewFinding
  <1>2. CASE Rename
    <2>1. target'.cached = findings /\ UNCHANGED <<findings, onDisk>>
      BY <1>2 DEF Rename, WholeInv
    <2>2. QED
      BY <2>1 DEF Document!Next, Document!Publish
  <1>3. CASE FlushDirectory
    <2>1. onDisk'.synced = target.cached /\ UNCHANGED <<findings, target>>
      BY <1>3 DEF FlushDirectory, WholeInv
    <2>2. QED
      BY <2>1 DEF Document!Next, Document!Harden
  <1>4. CASE PowerLoss
    <2>1. /\ target'.cached = onDisk.synced /\ onDisk'.synced = onDisk.synced
          /\ UNCHANGED findings
      BY <1>4 DEF PowerLoss, Die, Synced
    <2>2. QED
      BY <2>1 DEF Document!Next, Document!Lose
  <1>5. CASE Restart
    BY <1>5 DEF Restart, Document!Next, Document!Restart
  <1>6. CASE \/ WriteOnce \/ Fail \/ Mkdir \/ Open \/ Write \/ Fsync \/ Close
             \/ CloseAgain \/ Unlink \/ ProcessDies \/ UNCHANGED vars
    <2>1. UNCHANGED <<findings, target, onDisk>>
      BY <1>6 DEF WriteOnce, Fail, Mkdir, Open, Write, Fsync, Close, CloseAgain, Unlink,
                  ProcessDies, Die, vars
    <2>2. QED
      BY <2>1 DEF Document!vars
  <1>7. QED
    BY <1>1, <1>2, <1>3, <1>4, <1>5, <1>6 DEF Next

\* Under the same condition the writer implements a document that is replaced
\* as a whole by the findings of the moment.
THEOREM ImplementsDocument ==
  ASSUME ~ShortWrites
  PROVE  Spec => Atomicity
  <1>1. Init => WholeInv
    BY InitWhole
  <1>2. WholeInv /\ [Next]_vars => WholeInv'
    BY NextWhole
  <1>3. Init => Document!Init
    <2> SUFFICES ASSUME Init PROVE Document!Init
      OBVIOUS
    <2>1. onDisk.synced = target.cached
      BY InitWhole
    <2>2. target.cached \in {-1, MaxFindings + 1}
      BY DEF Init, NoFile, Synced, Absent, Earlier
    <2>3. findings = 0
      BY DEF Init
    <2>4. QED
      BY <2>1, <2>2, <2>3 DEF Document!Init
  <1>4. WholeInv /\ [Next]_vars => [Document!Next]_Document!vars
    BY StepIsAbstract
  <1>5. QED
    BY <1>1, <1>2, <1>3, <1>4, PTL DEF Spec, Atomicity, Document!Spec
-----------------------------------------------------------------------------
(* The writer tells the truth, stops only when it may, and cleans up *)

\* Where the descriptor is open, what a finalized writer has done, and whose
\* document a published one is; the temporary file exists from open() on.
WriterInv ==
  /\ TypeOK
  /\ pc # "crashed" => (fd <=> pc \in {"write", "fsync", "close", "closeAgain"})
  /\ pc \in FsCalls => ~finalized /\ status # "skipped"
  /\ pc \in FsCalls \ {"unlink"} => published = 0
  /\ pc = "closeAgain" => status = "error"
  /\ pc = "unlink" => status = "written" \/ (status = "error" /\ published = 0)
  /\ pc = "idle" /\ ~finalized => published = 0
  /\ published <= 1
  /\ pc \in {"idle", "unlink"} /\ status = "written" => published = 1
  /\ finalized => published = 1 \/ ~retriable
  /\ pc = "idle" /\ status = "skipped" => finalized
  /\ pc \in {"idle", "mkdir", "open"} => temporary = NoFile \/ spoiled

LEMMA InitWriter == Init => WriterInv
  BY InitType DEF Init, WriterInv, FsCalls

LEMMA NextWriter ==
  ASSUME WriterInv, [Next]_vars
  PROVE  WriterInv'
  <1>0. TypeOK /\ TypeOK'
    BY NextType DEF WriterInv
  <1>1. CASE NewFinding
    BY <1>0, <1>1 DEF NewFinding, WriterInv, FsCalls
  <1>2. CASE WriteOnce
    BY <1>0, <1>2 DEF WriteOnce, WriterInv, FsCalls
  <1>3. CASE Fail
    <2>1. /\ pc \in FsCalls \ {"closeAgain", "unlink"} /\ status' = "error"
          /\ pc' = IF fd THEN "closeAgain" ELSE "unlink"
          /\ UNCHANGED <<finalized, fd, published>>
      BY <1>3 DEF Fail
    <2>2. QED
      BY <1>0, <2>1 DEF WriterInv, FsCalls
  <1>4. CASE Mkdir
    BY <1>0, <1>4 DEF Mkdir, WriterInv, FsCalls
  <1>5. CASE Open
    BY <1>0, <1>5 DEF Open, WriterInv, FsCalls
  <1>6. CASE Write
    BY <1>0, <1>6 DEF Write, WriterInv, FsCalls
  <1>7. CASE Fsync
    BY <1>0, <1>7 DEF Fsync, WriterInv, FsCalls
  <1>8. CASE Close
    BY <1>0, <1>8 DEF Close, WriterInv, FsCalls
  <1>9. CASE Rename
    BY <1>0, <1>9 DEF Rename, WriterInv, FsCalls
  <1>10. CASE CloseAgain
    BY <1>0, <1>10 DEF CloseAgain, WriterInv, FsCalls
  <1>11. CASE Unlink
    <2>1. temporary' = NoFile \/ spoiled'
      BY <1>11 DEF Unlink, Unlinked, UnlinkFails
    <2>2. /\ pc = "unlink" /\ pc' = "idle" /\ finalized' = (finalized \/ Settled)
          /\ UNCHANGED <<fd, status, retriable, published>>
      BY <1>11 DEF Unlink
    <2>3. QED
      BY <1>0, <2>1, <2>2 DEF WriterInv, Settled, FsCalls
  <1>12. CASE FlushDirectory
    BY <1>0, <1>12 DEF FlushDirectory, WriterInv
  <1>13. CASE ProcessDies \/ PowerLoss
    BY <1>0, <1>13 DEF ProcessDies, PowerLoss, Die, WriterInv, FsCalls
  <1>14. CASE Restart
    BY <1>0, <1>14 DEF Restart, WriterInv, FsCalls
  <1>15. CASE UNCHANGED vars
    BY <1>0, <1>15 DEF vars, WriterInv
  <1>16. QED
    BY <1>1, <1>2, <1>3, <1>4, <1>5, <1>6, <1>7, <1>8, <1>9, <1>10, <1>11, <1>12, <1>13,
       <1>14, <1>15 DEF Next

\* A writer publishes at most once, and skips a call only if it has published
\* or cannot, for any number of calls, failures and crashes.
THEOREM SkipsAreSettled == Spec => []SkipsOnlyWhenSettled
  <1>1. WriterInv /\ [Next]_vars => WriterInv'
    BY NextWriter
  <1>2. WriterInv => SkipsOnlyWhenSettled
    BY DEF WriterInv, SkipsOnlyWhenSettled
  <1>3. QED
    BY <1>1, <1>2, InitWriter, PTL DEF Spec

\* Between two calls no descriptor is open, and no temporary file is left
\* unless a crash or a failed unlink left it.
THEOREM NothingIsLeft == Spec => []CleansUp
  <1>1. WriterInv /\ [Next]_vars => WriterInv'
    BY NextWriter
  <1>2. WriterInv => CleansUp
    BY DEF WriterInv, CleansUp
  <1>3. QED
    BY <1>1, <1>2, InitWriter, PTL DEF Spec

\* Without a crash the checkpoint is what it was when the call began, until
\* the call has renamed its own document there.
StatusInv ==
  /\ WriterInv /\ WholeInv
  /\ pc = "crashed" => crashes > 0
  /\ crashes = 0 /\ pc \in FsCalls /\ published = 0 => target.cached = before
  /\ crashes = 0 /\ pc = "idle" /\ status = "error" => target.cached = before
  /\ crashes = 0 /\ status = "written" => target.cached \in 0 .. findings

LEMMA InitStatus == Init => StatusInv
  BY InitWriter, InitWhole DEF Init, StatusInv, FsCalls

LEMMA NextStatus ==
  ASSUME ~ShortWrites, StatusInv, [Next]_vars
  PROVE  StatusInv'
  <1>0. /\ WriterInv /\ WholeInv /\ TypeOK
        /\ WriterInv' /\ WholeInv'
    BY NextWriter, NextWhole DEF StatusInv, WriterInv
  <1>1. CASE NewFinding
    BY <1>0, <1>1, CheckpointAssumption DEF NewFinding, StatusInv, FsCalls, TypeOK
  <1>2. CASE WriteOnce
    BY <1>0, <1>2 DEF WriteOnce, StatusInv, FsCalls
  <1>3. CASE Fail
    <2>1. /\ pc \in FsCalls \ {"closeAgain", "unlink"} /\ status' = "error"
          /\ pc' \in {"closeAgain", "unlink"}
          /\ UNCHANGED <<published, target, before, crashes>>
      BY <1>3 DEF Fail
    <2>2. QED
      BY <1>0, <2>1 DEF StatusInv, WriterInv, FsCalls
  <1>4. CASE Mkdir \/ Open \/ Write \/ Fsync \/ Close \/ CloseAgain
    <2>1. /\ pc \in FsCalls /\ pc' \in FsCalls
          /\ UNCHANGED <<findings, status, published, target, before, crashes>>
      BY <1>4 DEF Mkdir, Open, Write, Fsync, Close, CloseAgain, FsCalls
    <2>2. QED
      BY <1>0, <2>1 DEF StatusInv, FsCalls
  <1>5. CASE Rename
    <2>1. target'.cached = findings /\ findings \in Nat /\ published' = published + 1
      BY <1>0, <1>5, CheckpointAssumption DEF Rename, WholeInv, TypeOK
    <2>2. pc = "rename" /\ pc' = "unlink" /\ status' = "written" /\ UNCHANGED findings
      BY <1>5 DEF Rename
    <2>3. published' = 1
      BY <1>0, <2>1, <2>2 DEF WriterInv, FsCalls
    <2>4. QED
      BY <1>0, <2>1, <2>2, <2>3 DEF StatusInv
  <1>6. CASE Unlink
    BY <1>0, <1>6 DEF Unlink, StatusInv, WriterInv, FsCalls
  <1>7. CASE FlushDirectory
    BY <1>0, <1>7 DEF FlushDirectory, StatusInv
  <1>8. CASE ProcessDies \/ PowerLoss
    BY <1>0, <1>8, CheckpointAssumption DEF ProcessDies, PowerLoss, Die, StatusInv, TypeOK, FsCalls
  <1>9. CASE Restart
    BY <1>0, <1>9 DEF Restart, StatusInv, FsCalls
  <1>10. CASE UNCHANGED vars
    BY <1>0, <1>10 DEF vars, StatusInv
  <1>11. QED
    BY <1>1, <1>2, <1>3, <1>4, <1>5, <1>6, <1>7, <1>8, <1>9, <1>10 DEF Next

\* If write() stores all data or fails, a call that reports an error has left
\* the checkpoint alone, and one that reports success has replaced it.
THEOREM StatusTellsTheTruth ==
  ASSUME ~ShortWrites
  PROVE  Spec => []StatusIsTrue
  <1>1. StatusInv /\ [Next]_vars => StatusInv'
    BY NextStatus
  <1>2. StatusInv => StatusIsTrue
    BY DEF StatusInv, WriterInv, StatusIsTrue
  <1>3. QED
    BY <1>1, <1>2, InitStatus, PTL DEF Spec

=============================================================================
