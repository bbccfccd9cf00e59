--------------------------- MODULE AstCacheProofs ---------------------------
(***************************************************************************)
(* Proofs about AstCache for any files and texts: its types, the exactness *)
(* of hits, and that a run without failures leaves a usable cache.         *)
(***************************************************************************)
EXTENDS AstCache, TLAPS

(* What an entry says of a file that is not loose is true of its tree: in  *)
(* the list, and in the copy of it that the run will write back.           *)
ListIsHonest == \A f \in Files : list[f] # None /\ f \notin loose => json[f] = list[f]

EntriesAreHonest ==
    pc # "idle" =>
        \A f \in Files : entries[f] # None /\ f \notin loose => json[f] = entries[f]

(* A tree from the cache was entered for the text that was read, and it    *)
(* is still in its JSON file, and in the list until that is written.       *)
CachedAreEntered ==
    \A f \in Files :
        cached[f] # None =>
            /\ entries[f] = seen[f]
            /\ entries[f] # None
            /\ pc # "idle" => json[f] = cached[f]
            /\ pc \in {"parse", "save"} => list[f] = entries[f]

(* Every file that was parsed is to be saved, being saved or saved, unless *)
(* its save failed, and in only one of these.                              *)
SavesAreParsed ==
    /\ todo \cup writing \cup saved \subseteq Parsed
    /\ todo \cap writing = {} /\ todo \cap saved = {} /\ writing \cap saved = {}
    /\ pc \in {"load", "parse"} => todo \cup writing \cup saved = {}
    /\ pc = "load" => cached = Nothing /\ entries = Nothing
    /\ pc \in {"save", "list"} /\ clean => todo \cup writing \cup saved = Parsed
    /\ pc = "list" => todo \cup writing = {}

SavedAreThere ==
    pc # "idle" => writing \subseteq loose /\ \A f \in saved : json[f] = seen[f]

IInv ==
    /\ TypeOK
    /\ ListIsHonest /\ EntriesAreHonest
    /\ CachedAreEntered
    /\ SavesAreParsed /\ SavedAreThere
    /\ HitsAreExact /\ UsableNextTime

-----------------------------------------------------------------------------
LEMMA InitIInv == Init => IInv
  BY CacheAssumption DEF Init, IInv, TypeOK, Nothing, ListIsHonest, EntriesAreHonest,
     CachedAreEntered, SavesAreParsed, SavedAreThere, HitsAreExact, UsableNextTime, Parsed

(* Writing the list keeps the invariant: a saved file's entry is the text  *)
(* its JSON now holds, and an old entry stays as honest as it was.         *)
LEMMA ListWrittenKeeps ==
  ASSUME IInv, pc = "list", ListWritten, pc' = "idle",
         UNCHANGED <<source, json, run>>, clean' \in BOOLEAN, clean' => clean
  PROVE  IInv'
<1> USE CacheAssumption
<1> USE DEF run
<1>1. TypeOK'
  BY DEF IInv, TypeOK, ListWritten, Merged, SavesAreParsed, Parsed
<1>2. ListIsHonest'
  BY DEF IInv, TypeOK, ListWritten, Merged, ListIsHonest, EntriesAreHonest, SavedAreThere
<1>3. EntriesAreHonest'
  BY DEF EntriesAreHonest
<1>4. CachedAreEntered'
  BY DEF IInv, CachedAreEntered
<1>5. SavesAreParsed'
  BY DEF IInv, SavesAreParsed, Parsed
<1>6. SavedAreThere'
  BY DEF SavedAreThere
<1>7. HitsAreExact'
  <2> SUFFICES ASSUME NEW f \in Files, cached[f] # None, f \notin loose'
               PROVE  cached[f] = seen[f]
    BY DEF HitsAreExact
  <2>1. f \notin saved /\ entries[f] # None
    BY DEF IInv, SavesAreParsed, Parsed, CachedAreEntered
  <2>2. f \notin loose
    BY <2>1 DEF ListWritten, Merged
  <2> QED
    BY <2>2 DEF IInv, HitsAreExact
<1>8. UsableNextTime'
  <2> SUFFICES ASSUME clean, NEW f \in Files, seen[f] \in Parses
               PROVE  /\ list'[f] = seen[f]
                      /\ json[f] = IF cached[f] = None THEN seen[f] ELSE cached[f]
                      /\ f \in loose' => cached[f] # None
    BY DEF UsableNextTime
  <2>1. CASE cached[f] = None
    <3>1. f \in saved
      BY <2>1 DEF IInv, SavesAreParsed, Parsed
    <3> QED
      BY <2>1, <3>1 DEF IInv, SavedAreThere, ListWritten, Merged
  <2>2. CASE cached[f] # None
    <3>1. f \notin saved
      BY <2>2 DEF IInv, SavesAreParsed, Parsed
    <3> QED
      BY <2>2, <3>1 DEF IInv, CachedAreEntered, ListWritten, Merged
  <2> QED
    BY <2>1, <2>2
<1> QED
  BY <1>1, <1>2, <1>3, <1>4, <1>5, <1>6, <1>7, <1>8 DEF IInv

LEMMA StepIInv == IInv /\ [Next]_vars => IInv'
<1> SUFFICES ASSUME IInv, [Next]_vars PROVE IInv'
  OBVIOUS
<1> USE CacheAssumption
<1> USE DEF run, disk
<1>1. ASSUME NEW f \in Files, NEW text \in Texts \cup {None}, Edit(f, text)
      PROVE  IInv'
  BY <1>1 DEF IInv, Edit, TypeOK, ListIsHonest, EntriesAreHonest, CachedAreEntered,
     SavesAreParsed, SavedAreThere, HitsAreExact, UsableNextTime, Parsed
<1>2. ASSUME NEW forced \in BOOLEAN, Start(forced)
      PROVE  IInv'
  BY <1>2 DEF IInv, Start, TypeOK, Nothing, ListIsHonest, EntriesAreHonest,
     CachedAreEntered, SavesAreParsed, SavedAreThere, HitsAreExact, UsableNextTime, Parsed
<1>3. ASSUME NEW listRead \in BOOLEAN, NEW unreadable \in SUBSET Files,
             LoadCache(listRead, unreadable)
      PROVE  IInv'
  <2> USE <1>3
  <2> DEFINE loaded == IF listRead THEN list ELSE Nothing
  <2>1. loaded \in [Files -> Parses \cup {None}] /\ \A f \in Files : loaded[f] \in {list[f], None}
    BY DEF IInv, TypeOK, Nothing
  <2>2. CASE force
    BY <2>2 DEF IInv, LoadCache, TypeOK, Nothing, ListIsHonest, EntriesAreHonest,
       CachedAreEntered, SavesAreParsed, SavedAreThere, HitsAreExact, UsableNextTime, Parsed
  <2>3. CASE ~force
    <3>1. /\ entries' = loaded
          /\ cached' = [f \in Files |-> IF f \in Files \ unreadable /\ Answers(loaded, f)
                                        THEN json[f] ELSE None]
          /\ pc = "load" /\ pc' = "parse"
          /\ UNCHANGED <<source, disk, force, seen, todo, writing, saved, clean>>
      BY <2>3 DEF LoadCache
    <3> HIDE DEF loaded
    <3>2. TypeOK'
      BY <2>1, <3>1 DEF IInv, TypeOK
    <3>3. ListIsHonest' /\ EntriesAreHonest'
      BY <2>1, <3>1 DEF IInv, ListIsHonest, EntriesAreHonest
    <3>4. \A f \in Files : cached'[f] # None =>
              loaded[f] # None /\ loaded[f] = seen[f] /\ cached'[f] = json[f]
      BY <3>1 DEF Answers
    <3>5. CachedAreEntered'
      BY <2>1, <3>1, <3>4 DEF CachedAreEntered
    <3>6. SavesAreParsed' /\ SavedAreThere'
      BY <3>1 DEF IInv, SavesAreParsed, SavedAreThere
    <3>7. HitsAreExact'
      BY <2>1, <3>1, <3>4 DEF IInv, HitsAreExact, ListIsHonest
    <3>8. UsableNextTime'
      BY <3>1 DEF UsableNextTime
    <3> QED
      BY <3>2, <3>3, <3>5, <3>6, <3>7, <3>8 DEF IInv
  <2> QED
    BY <2>2, <2>3
<1>4. ASSUME Parse
      PROVE  IInv'
  <2> USE <1>4
  <2>1. TypeOK' /\ ListIsHonest' /\ EntriesAreHonest' /\ CachedAreEntered' /\ HitsAreExact'
    BY DEF IInv, Parse, TypeOK, ListIsHonest, EntriesAreHonest, CachedAreEntered,
       HitsAreExact, Parsed
  <2>2. SavesAreParsed' /\ SavedAreThere'
    BY DEF IInv, Parse, SavesAreParsed, SavedAreThere, Parsed
  <2>3. UsableNextTime'
    BY DEF IInv, Parse, UsableNextTime, CachedAreEntered, Parsed
  <2> QED
    BY <2>1, <2>2, <2>3 DEF IInv
<1>5. ASSUME NEW f \in Files, BeginSave(f)
      PROVE  IInv'
  <2> USE <1>5
  <2>0. f \in todo /\ cached[f] = None /\ f \notin saved
    BY DEF IInv, BeginSave, SavesAreParsed, Parsed
  <2>1. TypeOK'
    BY DEF IInv, BeginSave, TypeOK
  <2>2. ListIsHonest' /\ EntriesAreHonest' /\ HitsAreExact'
    BY DEF IInv, BeginSave, TypeOK, ListIsHonest, EntriesAreHonest, HitsAreExact
  <2>3. CachedAreEntered'
    BY <2>0 DEF IInv, BeginSave, TypeOK, CachedAreEntered
  <2>4. SavesAreParsed'
    BY DEF IInv, BeginSave, SavesAreParsed, Parsed
  <2>5. SavedAreThere' /\ UsableNextTime'
    BY <2>0 DEF IInv, BeginSave, TypeOK, SavedAreThere, UsableNextTime
  <2> QED
    BY <2>1, <2>2, <2>3, <2>4, <2>5 DEF IInv
<1>6. ASSUME NEW f \in Files, EndSave(f) \/ (\E whole \in BOOLEAN : FailSave(f, whole))
      PROVE  IInv'
  <2> USE <1>6
  <2>0. /\ f \in writing /\ cached[f] = None /\ f \notin saved /\ seen[f] \in Parses
        /\ f \in loose /\ pc = "save" /\ pc' = pc
    BY DEF IInv, EndSave, FailSave, SavesAreParsed, Parsed, SavedAreThere
  <2>1. \E tree \in {seen[f], None} : json' = [json EXCEPT ![f] = tree]
    BY DEF EndSave, FailSave
  <2>2. UNCHANGED <<source, list, force, seen, entries, cached, todo, loose>>
    BY DEF EndSave, FailSave
  <2>3. TypeOK'
    BY <2>0, <2>1, <2>2 DEF IInv, TypeOK, EndSave, FailSave
  <2>4. ListIsHonest' /\ EntriesAreHonest' /\ HitsAreExact'
    BY <2>0, <2>1, <2>2 DEF IInv, TypeOK, ListIsHonest, EntriesAreHonest, HitsAreExact
  <2>5. CachedAreEntered'
    BY <2>0, <2>1, <2>2 DEF IInv, TypeOK, CachedAreEntered
  <2>6. SavesAreParsed'
    BY <2>0 DEF IInv, EndSave, FailSave, SavesAreParsed, Parsed
  <2>7. SavedAreThere' /\ UsableNextTime'
    BY <2>0 DEF IInv, TypeOK, EndSave, FailSave, SavedAreThere, UsableNextTime
  <2> QED
    BY <2>3, <2>4, <2>5, <2>6, <2>7 DEF IInv
<1>7. ASSUME NEW f \in Files, FailToBegin(f)
      PROVE  IInv'
  BY <1>7 DEF IInv, FailToBegin, TypeOK, ListIsHonest, EntriesAreHonest, CachedAreEntered,
     SavesAreParsed, SavedAreThere, HitsAreExact, UsableNextTime, Parsed
<1>8. ASSUME NEW opened \in BOOLEAN, BeginList(opened)
      PROVE  IInv'
  <2> USE <1>8
  <2>1. TypeOK' /\ ListIsHonest' /\ EntriesAreHonest' /\ HitsAreExact'
    BY DEF IInv, BeginList, TypeOK, Nothing, ListIsHonest, EntriesAreHonest, HitsAreExact
  <2>2. CachedAreEntered'
    BY DEF IInv, BeginList, CachedAreEntered
  <2>3. SavesAreParsed' /\ SavedAreThere'
    BY DEF IInv, BeginList, TypeOK, SavesAreParsed, SavedAreThere, Parsed
  <2>4. UsableNextTime'
    BY DEF IInv, BeginList, TypeOK, UsableNextTime, SavesAreParsed, CachedAreEntered, Parsed
  <2> QED
    BY <2>1, <2>2, <2>3, <2>4 DEF IInv
<1>9. ASSUME EndList
      PROVE  IInv'
  BY <1>9, ListWrittenKeeps DEF EndList, IInv, TypeOK
<1>10. ASSUME NEW whole \in BOOLEAN, FailList(whole)
       PROVE  IInv'
  <2>1. CASE whole
    BY <1>10, <2>1, ListWrittenKeeps DEF FailList
  <2>2. CASE ~whole
    BY <1>10, <2>2 DEF IInv, FailList, TypeOK, ListIsHonest, EntriesAreHonest,
       CachedAreEntered, SavesAreParsed, SavedAreThere, HitsAreExact, UsableNextTime, Parsed
  <2> QED
    BY <2>1, <2>2
<1>11. ASSUME Die
       PROVE  IInv'
  BY <1>11 DEF IInv, Die, TypeOK, ListIsHonest, EntriesAreHonest, CachedAreEntered,
     SavesAreParsed, SavedAreThere, HitsAreExact, UsableNextTime, Parsed
<1>12. ASSUME UNCHANGED vars
       PROVE  IInv'
  BY <1>12 DEF vars, IInv, TypeOK, ListIsHonest, EntriesAreHonest, CachedAreEntered,
     SavesAreParsed, SavedAreThere, HitsAreExact, UsableNextTime, Parsed
<1> QED
  BY <1>1, <1>2, <1>3, <1>4, <1>5, <1>6, <1>7, <1>8, <1>9, <1>10, <1>11, <1>12 DEF Next

LEMMA IInvHolds == Spec => []IInv
  BY InitIInv, StepIInv, PTL DEF Spec

-----------------------------------------------------------------------------
(* The variables of the cache keep their types, and nothing but texts that *)
(* parse is ever entered or saved.                                         *)
THEOREM TypeCorrect == Spec => []TypeOK
<1>1. IInv => TypeOK
  BY DEF IInv
<1> QED
  BY <1>1, IInvHolds, PTL

(* A tree taken from the cache is that of the text read, except for a file *)
(* whose JSON an unfinished run has written.                               *)
THEOREM HitsExact == Spec => []HitsAreExact
<1>1. IInv => HitsAreExact
  BY DEF IInv
<1> QED
  BY <1>1, IInvHolds, PTL

(* A run without a failure of its own leaves every file that parses as a   *)
(* hit for the next run, whatever the runs before it left behind.          *)
THEOREM CleanRunIsUsable == Spec => []UsableNextTime
<1>1. IInv => UsableNextTime
  BY DEF IInv
<1> QED
  BY <1>1, IInvHolds, PTL

(* Whatever died or failed before, an entry of the list is true of the     *)
(* JSON file it speaks of, unless that was written after the list last was *)
(* (saveCache): the exactness of the hits of the next run rests on this.   *)
THEOREM ListStaysHonest == Spec => []ListIsHonest
<1>1. IInv => ListIsHonest
  BY DEF IInv
<1> QED
  BY <1>1, IInvHolds, PTL

=============================================================================
