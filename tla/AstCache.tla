------------------------------ MODULE AstCache ------------------------------
(***************************************************************************)
(* The cache of syntax trees that parseProjectAsFiles of                   *)
(* src/engine/parser/parser.ts keeps between runs: a list                  *)
(* (ast-cache-list.json) that says of which text the tree of each file     *)
(* was made, and one JSON file per source file, named after its path and   *)
(* not after its text, so that the tree of an edited file replaces the     *)
(* tree the list still speaks of.                                          *)
(*                                                                         *)
(* One run at a time works on the directory; every write may fail and the  *)
(* run may die between any two of them.  A text stands for its digest and  *)
(* for the tree parsed from it.  What cannot be loaded, whether missing,   *)
(* torn or unreadable, is None: loadCacheList and loadAstFromCache answer  *)
(* all three alike.                                                        *)
(***************************************************************************)

CONSTANTS Files,    \* the files of the project
          Texts,    \* the texts a file may have
          Parses,   \* the texts that have a tree; parsing the others gives null
          None      \* no text: a missing file, entry or tree

ASSUME CacheAssumption == Parses \subseteq Texts /\ None \notin Texts

VARIABLES source,   \* the project: the text of each file
          list,     \* ast-cache-list.json: the digest entered for each file
          json,     \* astcache/: the tree that the JSON file of each file holds
          pc,       \* where the run is: idle, load, parse, save or list
          force,    \* Config.incremental = 'force'
          seen,     \* the texts the run has read
          entries,  \* cacheList: the list as the run has loaded it
          cached,   \* cachedResults: the trees taken from the cache
          todo,     \* the trees still to be saved
          writing,  \* the saves under way
          saved,    \* validCacheInfos: the files whose trees were saved
          clean,    \* history: no write of the last run failed and it did not die
          loose     \* history: files whose JSON was written to and whose entry
                    \* was not renewed after that

disk == <<list, json, loose>>
run == <<force, seen, entries, cached, todo, writing, saved>>
vars == <<source, disk, pc, run, clean>>

Nothing == [f \in Files |-> None]

(* The list and the JSON files hold nothing but texts that parse.          *)
TypeOK ==
    /\ source \in [Files -> Texts \cup {None}]
    /\ list \in [Files -> Parses \cup {None}]
    /\ json \in [Files -> Parses \cup {None}]
    /\ pc \in {"idle", "load", "parse", "save", "list"}
    /\ force \in BOOLEAN
    /\ seen \in [Files -> Texts \cup {None}]
    /\ entries \in [Files -> Parses \cup {None}]
    /\ cached \in [Files -> Parses \cup {None}]
    /\ todo \subseteq Files
    /\ writing \subseteq Files
    /\ saved \subseteq Files
    /\ clean \in BOOLEAN
    /\ loose \subseteq Files

Init ==
    /\ source \in [Files -> Texts \cup {None}]
    /\ list = Nothing /\ json = Nothing
    /\ pc = "idle"
    /\ force = FALSE
    /\ seen = Nothing /\ entries = Nothing /\ cached = Nothing
    /\ todo = {} /\ writing = {} /\ saved = {}
    /\ clean = FALSE
    /\ loose = {}

-----------------------------------------------------------------------------
(* The user edits, creates or removes a file, at any time.                 *)
Edit(f, text) ==
    /\ source' = [source EXCEPT ![f] = text]
    /\ UNCHANGED <<disk, pc, run, clean>>

(* parseProjectAsFiles reads the files; those it cannot read or that are   *)
(* empty are left out.                                                     *)
Start(forced) ==
    /\ pc = "idle"
    /\ pc' = "load"
    /\ force' = forced
    /\ seen' = source
    /\ entries' = Nothing /\ cached' = Nothing
    /\ todo' = {} /\ writing' = {} /\ saved' = {}
    /\ clean' = TRUE
    /\ UNCHANGED <<source, disk>>

(* An entry answers for the text its digest was taken of, if its tree      *)
(* loads.                                                                  *)
Answers(loaded, f) == loaded[f] # None /\ loaded[f] = seen[f] /\ json[f] # None

(* loadCache, or nothing in force mode.  Nobody writes meanwhile, so the   *)
(* order of the reads does not matter; each of them may fail.              *)
LoadCache(listRead, unreadable) ==
    LET loaded == IF listRead THEN list ELSE Nothing
        hits == {f \in Files \ unreadable : Answers(loaded, f)}
    IN  /\ pc = "load"
        /\ pc' = "parse"
        /\ IF force
           THEN UNCHANGED <<entries, cached>>
           ELSE /\ entries' = loaded
                /\ cached' = [f \in Files |-> IF f \in hits THEN json[f] ELSE None]
        /\ UNCHANGED <<source, disk, force, seen, todo, writing, saved, clean>>

\* mutant: files whose parse gave null are saved too
ParsedOrNot == {f \in Files : cached[f] = None /\ seen[f] # None}

(* parsedResults with a tree.                                              *)
Parsed == {f \in Files : cached[f] = None /\ seen[f] \in Parses}

(* parseFilesConcurrently; saveCache then runs if there is what to save.   *)
Parse ==
    /\ pc = "parse"
    /\ pc' = IF Parsed = {} THEN "idle" ELSE "save"
    /\ todo' = Parsed
    /\ UNCHANGED <<source, disk, force, seen, entries, cached, writing, saved, clean>>

-----------------------------------------------------------------------------
(* saveCache saves several trees at a time.  writeFile truncates the file  *)
(* first.                                                                  *)
BeginSave(f) ==
    /\ pc = "save"
    /\ f \in todo
    /\ todo' = todo \ {f}
    /\ writing' = writing \cup {f}
    /\ json' = [json EXCEPT ![f] = None]
    /\ loose' = loose \cup {f}
    /\ UNCHANGED <<source, list, pc, force, seen, entries, cached, saved, clean>>

EndSave(f) ==
    /\ pc = "save"
    /\ f \in writing
    /\ writing' = writing \ {f}
    /\ saved' = saved \cup {f}
    /\ json' = [json EXCEPT ![f] = seen[f]]
    /\ UNCHANGED <<source, list, pc, force, seen, entries, cached, todo, clean, loose>>

(* A save that fails before it touches the file.                           *)
FailToBegin(f) ==
    /\ pc = "save"
    /\ f \in todo
    /\ todo' = todo \ {f}
    /\ clean' = FALSE
    /\ UNCHANGED <<source, disk, pc, force, seen, entries, cached, writing, saved>>

(* A save that fails later leaves a part of the tree, or all of it when    *)
(* only close failed.                                                      *)
FailSave(f, whole) ==
    /\ pc = "save"
    /\ f \in writing
    /\ writing' = writing \ {f}
    /\ json' = [json EXCEPT ![f] = IF whole THEN seen[f] ELSE None]
    /\ clean' = FALSE
    /\ UNCHANGED <<source, list, pc, force, seen, entries, cached, todo, saved, loose>>

\* mutant: an old entry wins over the new one
MergedOldFirst ==
    [f \in Files |-> IF f \in saved /\ entries[f] = None THEN seen[f] ELSE entries[f]]

\* mutant: the old entries are dropped
MergedNewOnly == [f \in Files |-> IF f \in saved THEN seen[f] ELSE None]

(* cacheListArray: the new entries, and the old ones of other files.       *)
Merged == [f \in Files |-> IF f \in saved THEN seen[f] ELSE entries[f]]

(* The list is written in place when all saves have ended and at least one *)
(* has succeeded; or the directory or the file cannot be opened.           *)
BeginList(opened) ==
    /\ pc = "save"
    /\ todo = {} /\ writing = {}
    /\ IF saved # {} /\ opened
       THEN pc' = "list" /\ list' = Nothing
       ELSE pc' = "idle" /\ UNCHANGED list
    /\ clean' = (clean /\ opened)
    /\ UNCHANGED <<source, json, loose, run>>

(* The whole list is on the disk.                                          *)
ListWritten ==
    /\ list' = Merged
    /\ loose' = {f \in loose \ saved : Merged[f] # None}

EndList ==
    /\ pc = "list"
    /\ pc' = "idle"
    /\ ListWritten
    /\ UNCHANGED <<source, json, run, clean>>

(* A failing write leaves a part of the list, or all of it when only close *)
(* failed; the error is logged.                                            *)
FailList(whole) ==
    /\ pc = "list"
    /\ pc' = "idle"
    /\ clean' = FALSE
    /\ IF whole THEN ListWritten ELSE UNCHANGED <<list, loose>>
    /\ UNCHANGED <<source, json, run>>

(* The process dies.                                                       *)
Die ==
    /\ pc # "idle"
    /\ pc' = "idle"
    /\ clean' = FALSE
    /\ UNCHANGED <<source, disk, run>>

Next ==
    \/ \E f \in Files, text \in Texts \cup {None} : Edit(f, text)
    \/ \E forced \in BOOLEAN : Start(forced)
    \/ \E listRead \in BOOLEAN, unreadable \in SUBSET Files : LoadCache(listRead, unreadable)
    \/ Parse
    \/ \E f \in Files : BeginSave(f) \/ EndSave(f) \/ FailToBegin(f)
    \/ \E f \in Files, whole \in BOOLEAN : FailSave(f, whole)
    \/ \E opened \in BOOLEAN : BeginList(opened)
    \/ EndList
    \/ \E whole \in BOOLEAN : FailList(whole)
    \/ Die

Spec == Init /\ [][Next]_vars

-----------------------------------------------------------------------------
(* A tree taken from the cache is the tree of the text that was read,      *)
(* whatever was edited, reverted, removed, killed and not written before,  *)
(* except for a file whose JSON was written by a run that did not get to   *)
(* the list: the list may then speak of an older text, and a file that     *)
(* returns to it is given the newer tree.                                  *)
HitsAreExact ==
    \A f \in Files : cached[f] # None /\ f \notin loose => cached[f] = seen[f]

(* A run that saw no failure of its own makes the cache usable for the     *)
(* next one (the comment on the force mode at parser.ts:1013): every file  *)
(* that parses and is not edited will be a hit, of the tree this run made  *)
(* or has itself taken from the cache, whatever earlier runs left behind.  *)
UsableNextTime ==
    pc = "idle" /\ clean =>
        \A f \in Files :
            seen[f] \in Parses =>
                /\ list[f] = seen[f]
                /\ json[f] = IF cached[f] = None THEN seen[f] ELSE cached[f]
                /\ f \in loose => cached[f] # None
=============================================================================
