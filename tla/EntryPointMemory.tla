-------------------------- MODULE EntryPointMemory --------------------------
(***************************************************************************)
(* What the interpretation of one entry point leaves behind for the next:  *)
(* the temporary symbol table of symbolInterpret (analyzer.ts), the memory *)
(* overlay that the entry-point executor binds over it for one attempt     *)
(* (entrypoint-executor.ts, analyzer-memory-overlay.ts), and the values    *)
(* that refer to each other by uuid only (value-ref-map.ts).               *)
(*                                                                         *)
(* An object is an index of heap; its uuid is a member of Units.  Two      *)
(* objects may have one uuid: an original and its copies.                  *)
(***************************************************************************)
EXTENDS Naturals, Sequences

CONSTANTS
  Units,          \* uuids
  Fields,         \* names of members
  None,           \* no member
  EntryPoints,
  Scan,           \* the objects that preprocessing left, one per uuid
  PackageRoot,    \* the uuid of topScope.context.packages
  Order,          \* analyzer.entryPoints
  Overloads,      \* how many overloads an entry point has
  SymbolOf,       \* the uuid of its entryPointSymVal
  ScopeOf,        \* the uuid of its scopeVal
  Languages,      \* the analyzers considered
  MaxObjects,     \* bound on the objects made
  MaxWrites       \* bound on the values made and the members set

\* Whose writes the members show (a history): an entry point, and whether it
\* was its rerun.
Authors == EntryPoints \X BOOLEAN

Objects == [unit : Units, rooted : BOOLEAN, members : [Fields -> Units \cup {None}],
            authors : SUBSET Authors]

Scanned == {Scan[i].unit : i \in DOMAIN Scan}

\* The original symbol table: the object registered under a uuid.
Original == [u \in Scanned |-> CHOOSE i \in DOMAIN Scan : Scan[i].unit = u]

ASSUME MemoryAssumption ==
  /\ None \notin Units
  /\ Scan \in Seq(Objects)
  /\ \A i \in DOMAIN Scan : Scan[i].authors = {}
  /\ \A i, j \in DOMAIN Scan : Scan[i].unit = Scan[j].unit => i = j
  /\ PackageRoot \in Scanned
  /\ Order \in Seq(EntryPoints)
  /\ Overloads \in [EntryPoints -> Nat]
  /\ SymbolOf \in [EntryPoints -> Scanned]
  /\ ScopeOf \in [EntryPoints -> Scanned]
  /\ Languages \subseteq {"java", "spring", "javascript"}
  /\ MaxObjects \in Nat
  /\ MaxWrites \in Nat

VARIABLES
  language,
  pc,             \* "next", "ready" (entry point open), "run", "rerun", "closed"
  todo,           \* the entry points to come
  current,        \* the entry point at hand
  overloadsLeft,  \* its overloads not attempted yet
  timeouts,       \* timeoutEntryPoints: the attempts to rerun
  heap,           \* the objects
  symbolMap,      \* tmpSymbolTableManager.symbolMap: uuid -> object
  copiedUnits,    \* copiedUnits of the temporary table: uuid -> object
  localSymbols,   \* localSymbolTable of the overlay: uuid -> object
  bound,          \* the overlay is the analyzer's symbol table
  symVal,         \* entryPoint.entryPointSymVal
  scopeVal,       \* entryPoint.scopeVal
  held,           \* the objects the interpreter has got hold of
  writes          \* values made and members set so far

control == <<language, pc, todo, current, overloadsLeft, timeouts, symVal, scopeVal>>
memory  == <<heap, symbolMap, copiedUnits, localSymbols, bound, held, writes>>
vars    == <<control, memory>>

Nothing == 0
NoSymbols == [u \in Units |-> Nothing]

\* Java and Spring work on a copy of the symbol and the scope of an entry
\* point, and rerun what timed out; the others do neither.
Copying == language \in {"java", "spring"}

Init ==
  /\ language \in Languages
  /\ pc = "next"
  /\ todo = Order
  /\ current = None
  /\ overloadsLeft = 0
  /\ timeouts = <<>>
  /\ heap = Scan
  /\ symbolMap = NoSymbols
  /\ copiedUnits = NoSymbols
  /\ localSymbols = NoSymbols
  /\ bound = FALSE
  /\ symVal = [e \in EntryPoints |-> Original[SymbolOf[e]]]
  /\ scopeVal = [e \in EntryPoints |-> Original[ScopeOf[e]]]
  /\ held = {}
  /\ writes = 0

-----------------------------------------------------------------------------
(* The two layers *)

\* What the layers know under a uuid: the overlay hides the table below it.
\* The overlay is empty while none is bound.
Registered(u) == IF localSymbols[u] # Nothing THEN localSymbols[u] ELSE symbolMap[u]

\* TemporarySymbolTableManager.get: an object without parent stands for an
\* original that has one, and is copied anew.
Outdated(u) ==
  /\ symbolMap[u] # Nothing
  /\ ~heap[symbolMap[u]].rooted
  /\ u \in Scanned
  /\ Scan[Original[u]].rooted

\* get of a uuid that one of the layers answers for.
Found(u) ==
  /\ Registered(u) # Nothing
  /\ localSymbols[u] = Nothing => ~Outdated(u)
  /\ held' = held \cup {Registered(u)}
  /\ UNCHANGED <<heap, symbolMap, copiedUnits, localSymbols, bound, writes>>

\* get of a uuid that only the original table knows: tmpTableCopyUnit, unless
\* copiedUnits already has a copy.
CopyOnAccess(u) ==
  /\ localSymbols[u] = Nothing
  /\ u \in Scanned
  /\ symbolMap[u] = Nothing \/ Outdated(u)
  /\ IF symbolMap[u] = Nothing /\ copiedUnits[u] # Nothing
     THEN /\ held' = held \cup {copiedUnits[u]}
          /\ UNCHANGED <<heap, symbolMap, copiedUnits>>
     ELSE /\ Len(heap) < MaxObjects
          /\ heap' = Append(heap, heap[Original[u]])
          /\ symbolMap' = [symbolMap EXCEPT ![u] = Len(heap')]
          /\ copiedUnits' = [copiedUnits EXCEPT ![u] = Len(heap')]
          /\ held' = held \cup {Len(heap')}
  /\ UNCHANGED <<localSymbols, bound, writes>>

\* mutant: writes go through the overlay to the table below
RegisterBelow(x, u) ==
  /\ symbolMap' = [symbolMap EXCEPT ![u] = x]
  /\ UNCHANGED localSymbols

\* Register writes to the overlay when there is one.
Register(x, u) ==
  IF bound
  THEN /\ localSymbols' = [localSymbols EXCEPT ![u] = x]
       /\ UNCHANGED symbolMap
  ELSE /\ symbolMap' = [symbolMap EXCEPT ![u] = x]
       /\ UNCHANGED localSymbols

-----------------------------------------------------------------------------
(* What interpreting does to the memory *)

\* Spring evaluates the arguments of an attempt before it binds an overlay.
Interpreting == pc \in {"run", "rerun"} \/ (pc = "ready" /\ language = "spring")

Author == <<current, pc = "rerun">>

\* A uuid is looked up because a file, function or parent names it, or a member.
Lookup(u) ==
  /\ Interpreting
  /\ u \in Scanned \/ \E x \in held, f \in Fields : heap[x].members[f] = u
  /\ Found(u) \/ CopyOnAccess(u)
  /\ UNCHANGED control

\* A constructor registers the new value.
Create(u, rooted) ==
  /\ Interpreting
  /\ Len(heap) < MaxObjects
  /\ writes < MaxWrites
  /\ writes' = writes + 1
  /\ heap' = Append(heap, [unit |-> u, rooted |-> rooted,
                           members |-> [f \in Fields |-> None], authors |-> {Author}])
  /\ Register(Len(heap'), u)
  /\ held' = held \cup {Len(heap')}
  /\ UNCHANGED <<control, copiedUnits, bound>>

\* The object o with member f set to a uuid, by the author a.
WithMember(o, f, u, a) ==
  [unit |-> o.unit, rooted |-> o.rooted, members |-> [o.members EXCEPT ![f] = u],
   authors |-> o.authors \cup {a}]

\* ValueRefMap.set: register the value, keep its uuid.
SetMember(x, f, y) ==
  /\ Interpreting
  /\ writes < MaxWrites
  /\ writes' = writes + 1
  /\ Register(y, heap[y].unit)
  /\ heap' = [heap EXCEPT ![x] = WithMember(@, f, heap[y].unit, Author)]
  /\ UNCHANGED <<control, copiedUnits, bound, held>>

-----------------------------------------------------------------------------
(* symbolInterpret and the executor *)

\* mutant: the scope is not copied
OpenScopeShared(e) ==
  LET symbol == heap[symVal[e]]
      x == Len(heap) + 1
      table == [NoSymbols EXCEPT ![symbol.unit] = x]
  IN /\ x <= MaxObjects
     /\ heap' = Append(heap, symbol)
     /\ symbolMap' = table
     /\ copiedUnits' = table
     /\ symVal' = [symVal EXCEPT ![e] = x]
     /\ held' = {x, scopeVal[e]}
     /\ UNCHANGED scopeVal

\* mutant: clear() empties the table only, so tmpTableCopyUnit finds the copy
\* that the entry point before left in copiedUnits
OpenCached(e) ==
  LET symbol == heap[symVal[e]]
      scope == heap[scopeVal[e]]
      cached == copiedUnits[symbol.unit] # Nothing
      x == IF cached THEN copiedUnits[symbol.unit] ELSE Len(heap) + 1
      y == IF cached THEN Len(heap) + 1 ELSE Len(heap) + 2
      table == [[NoSymbols EXCEPT ![symbol.unit] = x] EXCEPT ![scope.unit] = y]
  IN /\ y <= MaxObjects
     /\ heap' = IF cached THEN Append(heap, scope) ELSE Append(Append(heap, symbol), scope)
     /\ symbolMap' = table
     /\ copiedUnits' = table
     /\ symVal' = [symVal EXCEPT ![e] = x]
     /\ scopeVal' = [scopeVal EXCEPT ![e] = y]
     /\ held' = {x, y}

\* clear(), then tmpTableCopyUnit of the symbol and of the scope of e.
OpenCopied(e) ==
  LET symbol == heap[symVal[e]]
      scope == heap[scopeVal[e]]
      one == symbol.unit = scope.unit
      x == Len(heap) + 1
      y == IF one THEN x ELSE x + 1
      table == [[NoSymbols EXCEPT ![symbol.unit] = x] EXCEPT ![scope.unit] = y]
  IN /\ y <= MaxObjects
     /\ heap' = IF one THEN Append(heap, symbol) ELSE Append(Append(heap, symbol), scope)
     /\ symbolMap' = table
     /\ copiedUnits' = table
     /\ symVal' = [symVal EXCEPT ![e] = x]
     /\ scopeVal' = [scopeVal EXCEPT ![e] = y]
     /\ held' = {x, y}

Open(e) ==
  /\ IF Copying
     THEN OpenCopied(e)
     ELSE /\ symbolMap' = NoSymbols
          /\ copiedUnits' = NoSymbols
          /\ held' = {symVal[e], scopeVal[e]}
          /\ UNCHANGED <<heap, symVal, scopeVal>>
  /\ pc' = "ready"
  /\ current' = e
  /\ UNCHANGED <<language, timeouts, localSymbols, bound, writes>>

OpenNext ==
  /\ pc = "next"
  /\ overloadsLeft = 0
  /\ todo # <<>>
  /\ Open(Head(todo))
  /\ todo' = Tail(todo)
  /\ overloadsLeft' = IF Copying THEN Overloads[Head(todo)] ELSE 1

\* Spring opens the entry point again for each overload.
Reopen ==
  /\ pc = "next"
  /\ overloadsLeft > 0
  /\ Open(current)
  /\ UNCHANGED <<todo, overloadsLeft>>

\* No budget, unsupported, seen before or pruned: the entry point is left,
\* before it was opened or after.
SkipEntryPoint ==
  /\ pc = "next"
  /\ overloadsLeft = 0
  /\ todo # <<>>
  /\ todo' = Tail(todo)
  /\ UNCHANGED <<language, pc, current, overloadsLeft, timeouts, symVal, scopeVal, memory>>

SkipOverloads ==
  /\ pc = "ready" \/ (pc = "next" /\ overloadsLeft > 0)
  /\ pc' = "next"
  /\ overloadsLeft' = 0
  /\ UNCHANGED <<language, todo, current, timeouts, symVal, scopeVal, memory>>

\* mutant: the overlay registers the object after the clone
BindAhead(objects) ==
  /\ Len(heap) < MaxObjects
  /\ bound' = TRUE
  /\ heap' = Append(heap, heap[Original[PackageRoot]])
  /\ localSymbols' = [NoSymbols EXCEPT ![PackageRoot] = Len(heap') + 1]
  /\ held' = objects \cup {Len(heap')}

\* bindAnalyzerMemoryOverlay: an empty overlay with a clone of the package root.
Bind(objects) ==
  /\ Len(heap) < MaxObjects
  /\ bound' = TRUE
  /\ heap' = Append(heap, heap[Original[PackageRoot]])
  /\ localSymbols' = [NoSymbols EXCEPT ![PackageRoot] = Len(heap')]
  /\ held' = objects \cup {Len(heap')}

\* One of the values seen while evaluating arguments is an argument.
Attempt ==
  /\ pc = "ready"
  /\ overloadsLeft > 0
  /\ pc' = "run"
  /\ \E arg \in held : Bind({symVal[current], scopeVal[current], arg})
  /\ overloadsLeft' = overloadsLeft - 1
  /\ UNCHANGED <<language, todo, current, timeouts, symbolMap, copiedUnits,
                 symVal, scopeVal, writes>>

\* mutant: the rerun does not clear the temporary table
RerunUncleared ==
  /\ pc = "next"
  /\ overloadsLeft = 0
  /\ todo = <<>>
  /\ timeouts # <<>>
  /\ pc' = "rerun"
  /\ current' = Head(timeouts).entry
  /\ Bind({symVal[current'], scopeVal[current'], Head(timeouts).arg})
  /\ timeouts' = Tail(timeouts)
  /\ UNCHANGED <<language, todo, overloadsLeft, symbolMap, copiedUnits, symVal, scopeVal,
                 writes>>

\* The rerun clears the temporary table but keeps symbol, scope and argument.
Rerun ==
  /\ pc = "next"
  /\ overloadsLeft = 0
  /\ todo = <<>>
  /\ timeouts # <<>>
  /\ pc' = "rerun"
  /\ current' = Head(timeouts).entry
  /\ Bind({symVal[current'], scopeVal[current'], Head(timeouts).arg})
  /\ timeouts' = Tail(timeouts)
  /\ symbolMap' = NoSymbols
  /\ copiedUnits' = NoSymbols
  /\ UNCHANGED <<language, todo, overloadsLeft, symVal, scopeVal, writes>>

\* The rerun has no budget either.
SkipRerun ==
  /\ pc = "next"
  /\ overloadsLeft = 0
  /\ todo = <<>>
  /\ timeouts # <<>>
  /\ timeouts' = Tail(timeouts)
  /\ UNCHANGED <<language, pc, todo, current, overloadsLeft, symVal, scopeVal, memory>>

\* restoreAnalyzerMemoryOverlay and resetLocal, on every path.
Unbind ==
  /\ pc \in {"run", "rerun"}
  /\ bound' = FALSE
  /\ localSymbols' = NoSymbols

\* Java goes on with the next overload, everyone else with the next entry.
Leave ==
  /\ Unbind
  /\ IF pc = "run" /\ language = "java" /\ overloadsLeft > 0
     THEN /\ pc' = "ready"
          /\ held' = {symVal[current], scopeVal[current]}
     ELSE /\ pc' = "next"
          /\ held' = {}
  /\ UNCHANGED <<language, todo, current, overloadsLeft, symVal, scopeVal, heap,
                 symbolMap, copiedUnits, writes>>

Return == Leave /\ UNCHANGED timeouts

\* The attempt timed out: it is queued with its arguments (any value it holds;
\* Spring's are those seen before binding, a subset).
TimeOut ==
  /\ pc = "run"
  /\ Copying
  /\ \E arg \in held : timeouts' = Append(timeouts, [entry |-> current, arg |-> arg])
  /\ Leave

\* restoreSymbolTable empties the temporary table.
RestoreSymbolTable ==
  /\ pc' = "closed"
  /\ symbolMap' = NoSymbols
  /\ copiedUnits' = NoSymbols
  /\ held' = {}
  /\ UNCHANGED <<language, todo, current, overloadsLeft, timeouts, symVal, scopeVal,
                 heap, writes>>

\* A hook of a checker threw (the executor rethrows), or the preparation of an
\* attempt did: symbolInterpret ends.
Throw ==
  /\ Unbind \/ (pc = "ready" /\ UNCHANGED <<localSymbols, bound>>)
  /\ RestoreSymbolTable

Close ==
  /\ pc = "next"
  /\ overloadsLeft = 0
  /\ todo = <<>>
  /\ timeouts = <<>>
  /\ RestoreSymbolTable
  /\ UNCHANGED <<localSymbols, bound>>

Next ==
  \/ \E u \in Units : Lookup(u)
  \/ \E u \in Units, rooted \in BOOLEAN : Create(u, rooted)
  \/ \E x, y \in held, f \in Fields : SetMember(x, f, y)
  \/ OpenNext \/ Reopen \/ SkipEntryPoint \/ SkipOverloads \/ Attempt
  \/ Rerun \/ SkipRerun \/ Return \/ TimeOut \/ Throw \/ Close

Spec == Init /\ [][Next]_vars

-----------------------------------------------------------------------------
(* Properties *)

Object == 1 .. Len(heap)
Table  == [Units -> Object \cup {Nothing}]

TypeOK ==
  /\ language \in Languages
  /\ pc \in {"next", "ready", "run", "rerun", "closed"}
  /\ todo \in Seq(EntryPoints)
  /\ current \in EntryPoints \cup {None}
  /\ overloadsLeft \in Nat
  /\ timeouts \in Seq([entry : EntryPoints, arg : Object])
  /\ heap \in Seq(Objects)
  /\ symbolMap \in Table
  /\ copiedUnits \in Table
  /\ localSymbols \in Table
  /\ bound \in BOOLEAN
  /\ symVal \in [EntryPoints -> Object]
  /\ scopeVal \in [EntryPoints -> Object]
  /\ held \subseteq Object
  /\ writes \in Nat

\* Java and Spring never change an object of the original symbol table, so
\* every later copy shows what preprocessing left (analyzer.ts:288).
OriginalsArePristine == Copying => \A i \in DOMAIN Scan : heap[i] = Scan[i]

\* In Java and Spring an attempt only gets hold of objects that show what
\* preprocessing left and what its own entry point wrote.
OwnWritesOnly ==
  Copying => \A x \in held : heap[x].authors \subseteq {current} \X BOOLEAN

\* What the first attempt wrote before it timed out does not come back through
\* the temporary table in a rerun: the table was cleared.
RerunReadsAfresh ==
  pc = "rerun" => \A u \in Units : symbolMap[u] # Nothing =>
    heap[symbolMap[u]].authors \subseteq {<<current, TRUE>>}

\* An object that copiedUnits hands out is also in the temporary table.
CopiesAreRegistered ==
  \A u \in Units : copiedUnits[u] # Nothing => symbolMap[u] # Nothing

\* An object that shows nobody's writes shows what preprocessing left, however
\* often it was copied, from the original table or from a copy.
UnwrittenIsOriginal ==
  \A x \in Object : heap[x].authors = {} =>
    heap[x].unit \in Scanned /\ heap[x] = Scan[Original[heap[x].unit]]

\* While an overlay is bound the table below it changes only by copies of
\* originals made on access: what is registered stays in the overlay
\* (analyzer-memory-overlay.ts:195).
BaseGrowsByCopies ==
  [][bound /\ bound' => \A u \in Units : symbolMap'[u] # symbolMap[u] =>
       /\ u \in Scanned
       /\ symbolMap'[u] \notin Object
       /\ heap'[symbolMap'[u]] = heap[Original[u]]]_vars

\* Reading a member yields a value (value-ref-map.ts:26): the uuid it holds is
\* known to one of the layers or the original table.
MembersResolve ==
  Interpreting => \A x \in held, f \in Fields :
    LET u == heap[x].members[f]
    IN u # None => Registered(u) # Nothing \/ u \in Scanned
=============================================================================
