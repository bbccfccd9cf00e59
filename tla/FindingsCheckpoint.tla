-------------------------- MODULE FindingsCheckpoint --------------------------
(***************************************************************************)
(* How the findings of an analysis that may not end are kept               *)
(* (src/engine/analyzer/common/findings-checkpoint.ts): a document with    *)
(* all findings so far goes to a temporary file, which is synchronized and *)
(* renamed over the checkpoint.                                            *)
(*                                                                         *)
(* Every call of the file system may fail, the process may die between any *)
(* two of them, and the machine may lose what was not synchronized.  A     *)
(* file has a content that processes see and one that survives the         *)
(* machine; a rename survives once the kernel has written the directory.   *)
(***************************************************************************)
EXTENDS Integers

CONSTANTS
  Calls,        \* calls of writeOnce() by the owner of the writer
  ShortWrites,  \* whether write() may store a part of the data and succeed
  MaxFindings,  \* bound: findings of a run
  MaxFailures,  \* bound: failing calls of the file system
  MaxCrashes    \* bound: deaths of the process or the machine

ASSUME CheckpointAssumption ==
  /\ Calls \in Nat
  /\ ShortWrites \in BOOLEAN
  /\ MaxFindings \in Nat
  /\ MaxFailures \in Nat
  /\ MaxCrashes \in Nat

VARIABLES
  findings,    \* resultManager.getFindings(): how many there are
  finalized,   \* FindingsCheckpointWriter.finalized
  pc,          \* "idle", the call to make next, or "crashed"
  fd,          \* the variable fd is defined
  status,      \* of the last call: "none", "written", "skipped" or "error"
  retriable,   \* error.retriable of the last call
  temporary,   \* the file at temporaryPath
  target,      \* the file at filePath
  onDisk,      \* the file at filePath after a power loss
  calls,       \* calls of writeOnce() in this run
  failures,
  crashes,
  published,   \* history: documents this writer has put at filePath
  before,      \* history: the checkpoint when the last call began
  spoiled      \* history: a crash or a failed cleanup may have left a file

vars == <<findings, finalized, pc, fd, status, retriable, temporary, target, onDisk,
          calls, failures, crashes, published, before, spoiled>>

-----------------------------------------------------------------------------
(* Contents of files.  A document is known by the number of its findings.  *)

Absent == -1
Empty  == -2
Cut    == -3     \* a proper prefix of a document
Earlier == MaxFindings + 1  \* the document of a run long ago
Documents == 0 .. Earlier
Contents  == Documents \cup {Absent, Empty, Cut}

Files == [cached : Contents, synced : Contents]

Synced(content) == [cached |-> content, synced |-> content]
NoFile == Synced(Absent)

FsCalls == {"mkdir", "open", "write", "fsync", "close", "rename", "closeAgain", "unlink"}

Init ==
  /\ findings = 0
  /\ finalized = FALSE
  /\ pc = "idle"
  /\ fd = FALSE
  /\ status = "none"
  /\ retriable = FALSE
  /\ temporary = NoFile
  /\ target \in {NoFile, Synced(Earlier)}
  /\ onDisk = target
  /\ calls = 0
  /\ failures = 0
  /\ crashes = 0
  /\ published = 0
  /\ before = target.cached
  /\ spoiled = FALSE

-----------------------------------------------------------------------------
(* The owner of the writer *)

\* The analysis goes on while the writer is idle: they share one thread.
NewFinding ==
  /\ pc = "idle"
  /\ findings < MaxFindings
  /\ findings' = findings + 1
  /\ UNCHANGED <<finalized, pc, fd, status, retriable, temporary, target, onDisk,
                 calls, failures, crashes, published, before, spoiled>>

\* writeOnce(), called by outputAnalyzerExistResult().
WriteOnce ==
  /\ pc = "idle"
  /\ calls < Calls
  /\ calls' = calls + 1
  /\ IF finalized
     THEN /\ status' = "skipped"
          /\ UNCHANGED <<pc, before>>
     ELSE /\ pc' = "mkdir"
          /\ before' = target.cached
          /\ UNCHANGED status
  /\ UNCHANGED <<findings, finalized, fd, retriable, temporary, target, onDisk,
                 failures, crashes, published, spoiled>>

-----------------------------------------------------------------------------
(* writeFindingsCheckpoint *)

\* A call of the try block throws: the finally block is next.
Fail ==
  /\ pc \in FsCalls \ {"closeAgain", "unlink"}
  /\ failures < MaxFailures
  /\ failures' = failures + 1
  /\ status' = "error"
  /\ retriable' = (pc # "rename")
  /\ pc' = IF fd THEN "closeAgain" ELSE "unlink"
  /\ \/ UNCHANGED temporary
     \/ pc = "write" /\ temporary' = [temporary EXCEPT !.cached = Cut]
  /\ UNCHANGED <<findings, finalized, fd, target, onDisk, calls, crashes, published,
                 before, spoiled>>

Mkdir ==
  /\ pc = "mkdir"
  /\ pc' = "open"
  /\ UNCHANGED <<findings, finalized, fd, status, retriable, temporary, target, onDisk,
                 calls, failures, crashes, published, before, spoiled>>

OpenInPlace ==  \* mutant: the checkpoint itself is opened
  /\ pc = "open"
  /\ pc' = "write"
  /\ fd' = TRUE
  /\ temporary' = Synced(Empty)
  /\ target' = temporary'
  /\ UNCHANGED <<findings, finalized, status, retriable, onDisk, calls, failures,
                 crashes, published, before, spoiled>>
Open ==
  /\ pc = "open"
  /\ pc' = "write"
  /\ fd' = TRUE
  /\ temporary' = Synced(Empty)
  /\ UNCHANGED <<findings, finalized, status, retriable, target, onDisk, calls,
                 failures, crashes, published, before, spoiled>>

WriteTwice ==  \* mutant: a finding is counted twice
  /\ pc = "write"
  /\ pc' = "fsync"
  /\ temporary' = [temporary EXCEPT !.cached = findings + 1]
  /\ UNCHANGED <<findings, finalized, fd, status, retriable, target, onDisk, calls,
                 failures, crashes, published, before, spoiled>>
\* The number of bytes that writeSync() returns is not looked at.
Write ==
  /\ pc = "write"
  /\ pc' = "fsync"
  /\ \E content \in {findings} \cup (IF ShortWrites THEN {Cut} ELSE {}) :
       temporary' = [temporary EXCEPT !.cached = content]
  /\ UNCHANGED <<findings, finalized, fd, status, retriable, target, onDisk, calls,
                 failures, crashes, published, before, spoiled>>

FsyncNot ==  \* mutant: the data is not synchronized
  /\ pc = "fsync"
  /\ pc' = "close"
  /\ UNCHANGED <<findings, finalized, fd, status, retriable, temporary, target, onDisk,
                 calls, failures, crashes, published, before, spoiled>>
Fsync ==
  /\ pc = "fsync"
  /\ pc' = "close"
  /\ temporary' = [temporary EXCEPT !.synced = temporary.cached]
  /\ UNCHANGED <<findings, finalized, fd, status, retriable, target, onDisk, calls,
                 failures, crashes, published, before, spoiled>>

Close ==
  /\ pc = "close"
  /\ pc' = "rename"
  /\ fd' = FALSE
  /\ UNCHANGED <<findings, finalized, status, retriable, temporary, target, onDisk,
                 calls, failures, crashes, published, before, spoiled>>

Rename ==
  /\ pc = "rename"
  /\ pc' = "unlink"
  /\ target' = temporary
  /\ temporary' = NoFile
  /\ status' = "written"
  /\ published' = published + 1
  /\ UNCHANGED <<findings, finalized, fd, retriable, onDisk, calls, failures, crashes,
                 before, spoiled>>

-----------------------------------------------------------------------------
(* The finally block, which ignores errors, and the return to writeOnce() *)

CloseAgain ==
  /\ pc = "closeAgain"
  /\ pc' = "unlink"
  /\ fd' = FALSE
  /\ UNCHANGED <<findings, finalized, status, retriable, temporary, target, onDisk,
                 calls, failures, crashes, published, before, spoiled>>

\* Only a success and a failure that cannot be retried end the writer's work.
SettledAlways == TRUE  \* mutant: every outcome ends it
Settled == status = "written" \/ (status = "error" /\ ~retriable)

UnlinkedNot ==  \* mutant: the temporary file stays
  UNCHANGED <<temporary, failures, spoiled>>
Unlinked ==
  /\ temporary' = NoFile
  /\ UNCHANGED <<failures, spoiled>>

UnlinkFails ==
  /\ failures < MaxFailures
  /\ failures' = failures + 1
  /\ spoiled' = (spoiled \/ temporary # NoFile)
  /\ UNCHANGED temporary

Unlink ==
  /\ pc = "unlink"
  /\ pc' = "idle"
  /\ Unlinked \/ UnlinkFails
  /\ finalized' = (finalized \/ Settled)
  /\ UNCHANGED <<findings, fd, status, retriable, target, onDisk, calls, crashes,
                 published, before>>

-----------------------------------------------------------------------------
(* The machine *)

FlushDirectory ==
  /\ onDisk # target
  /\ onDisk' = target
  /\ UNCHANGED <<findings, finalized, pc, fd, status, retriable, temporary, target,
                 calls, failures, crashes, published, before, spoiled>>

Die ==
  /\ pc # "crashed"
  /\ crashes < MaxCrashes
  /\ crashes' = crashes + 1
  /\ pc' = "crashed"
  /\ spoiled' = TRUE
  /\ UNCHANGED <<findings, finalized, fd, status, retriable, temporary, calls, failures,
                 published, before>>

\* The process is killed, e.g. because it is out of memory.
ProcessDies ==
  /\ Die
  /\ UNCHANGED <<target, onDisk>>

PowerLoss ==
  /\ Die
  /\ target' = Synced(onDisk.synced)
  /\ onDisk' = Synced(onDisk.synced)

\* The next run has a writer and, as its pid and time differ, a temporary
\* path of its own; whatever is at filePath stays there.
Restart ==
  /\ pc = "crashed"
  /\ pc' = "idle"
  /\ findings' = 0
  /\ finalized' = FALSE
  /\ fd' = FALSE
  /\ status' = "none"
  /\ retriable' = FALSE
  /\ temporary' = NoFile
  /\ calls' = 0
  /\ published' = 0
  /\ before' = target.cached
  /\ UNCHANGED <<target, onDisk, failures, crashes, spoiled>>

-----------------------------------------------------------------------------
Next ==
  \/ NewFinding \/ WriteOnce
  \/ Fail \/ Mkdir \/ Open \/ Write \/ Fsync \/ Close \/ Rename
  \/ CloseAgain \/ Unlink
  \/ FlushDirectory \/ ProcessDies \/ PowerLoss \/ Restart

Spec == Init /\ [][Next]_vars

-----------------------------------------------------------------------------
(* Properties *)

TypeOK ==
  /\ findings \in 0 .. MaxFindings
  /\ finalized \in BOOLEAN
  /\ pc \in FsCalls \cup {"idle", "crashed"}
  /\ fd \in BOOLEAN
  /\ status \in {"none", "written", "skipped", "error"}
  /\ retriable \in BOOLEAN
  /\ temporary \in [cached : Contents \ {Earlier}, synced : Contents \ {Earlier}]
  /\ target \in Files
  /\ onDisk \in Files
  /\ calls \in 0 .. Calls
  /\ failures \in 0 .. MaxFailures
  /\ crashes \in 0 .. MaxCrashes
  /\ published \in Nat
  /\ before \in Contents
  /\ spoiled \in BOOLEAN

\* The checkpoint is absent or a whole document at any moment, whichever calls
\* fail and whenever the process or the machine dies ("atomic DTO").
NeverTorn ==
  /\ target.cached \in Documents \cup {Absent}
  /\ onDisk.synced \in Documents \cup {Absent}

\* A call that reports an error has left the checkpoint as it was, and one
\* that reports success has put all findings there, until the machine dies.
StatusIsTrue ==
  pc = "idle" /\ crashes = 0 =>
    /\ status = "error" => target.cached = before
    /\ status = "written" => target.cached \in 0 .. findings /\ published = 1

\* A writer publishes at most one document, and it reports that there is
\* nothing to do only if it has published one or never can: a transient
\* failure does not end its work.
SkipsOnlyWhenSettled ==
  /\ published <= 1
  /\ pc = "idle" /\ status = "skipped" => published = 1 \/ ~retriable

\* However a call ends, its temporary file is gone, its descriptor released.
CleansUp ==
  pc = "idle" => ~fd /\ (temporary = NoFile \/ spoiled)

\* The checkpoint is a file that is replaced as a whole, by all findings.
Document == INSTANCE AtomicDocument WITH file <- target.cached, durable <- onDisk.synced

Atomicity == Document!Spec
=============================================================================
