----------------------- MODULE EntryPointMemoryProofs -----------------------
(***************************************************************************)
(* Type correctness of the memory of the entry points, and what Java and   *)
(* Spring promise: the originals stay pristine and an attempt gets hold of *)
(* its own entry point's writes only.                                      *)
(*                                                                         *)
(* The invariant behind both is a partition: every object made after       *)
(* preprocessing has an owner, an entry point, and whatever refers to an   *)
(* object (held, the tables, symVal, scopeVal, the queued arguments) does  *)
(* so on behalf of its owner.                                              *)
(***************************************************************************)
EXTENDS EntryPointMemory, SequenceTheorems, TLAPS

\* Interpreting is of an entry point, and so are overloads to come; nothing
\* is ever removed from the heap.
Sane ==
  /\ TypeOK
  /\ Len(Scan) <= Len(heap)
  /\ pc \in {"ready", "run", "rerun"} \/ overloadsLeft > 0 => current \in EntryPoints

-----------------------------------------------------------------------------
(* The original table names objects that preprocessing left. *)
LEMMA OriginalIsScanned ==
  \A u \in Scanned : u \in Units /\ Original[u] \in 1 .. Len(Scan)
<1> SUFFICES ASSUME NEW u \in Scanned
             PROVE  u \in Units /\ Original[u] \in 1 .. Len(Scan)
  OBVIOUS
<1>1. Scan \in Seq(Objects) /\ DOMAIN Scan = 1 .. Len(Scan)
  BY MemoryAssumption
<1>2. PICK i \in DOMAIN Scan : Scan[i].unit = u
  BY DEF Scanned
<1>3. Original[u] = CHOOSE j \in DOMAIN Scan : Scan[j].unit = u
  BY DEF Original
<1>4. Original[u] \in DOMAIN Scan
  BY <1>2, <1>3
<1>5. Scan[i] \in Objects
  BY <1>1, <1>2
<1>6. u \in Units
  BY <1>2, <1>5 DEF Objects
<1> QED
  BY <1>1, <1>4, <1>6

(* Making an object leaves the others where they are. *)
LEMMA ObjectsGrow ==
  ASSUME NEW h \in Seq(Objects), NEW o \in Objects
  PROVE  /\ Append(h, o) \in Seq(Objects)
         /\ Len(Append(h, o)) = Len(h) + 1
         /\ \A i \in 1 .. Len(h) : Append(h, o)[i] = h[i]
         /\ Append(h, o)[Len(h) + 1] = o
  OBVIOUS

(* Setting a member keeps the object an object, and its former authors. *)
LEMMA ObjectsAreSet ==
  ASSUME NEW o \in Objects, NEW f \in Fields, NEW u \in Units, NEW a \in Authors
  PROVE  /\ WithMember(o, f, u, a) \in Objects
         /\ WithMember(o, f, u, a).authors = o.authors \cup {a}
<1>1. [o.members EXCEPT ![f] = u] \in [Fields -> Units \cup {None}]
  BY DEF Objects
<1> QED
  BY <1>1 DEF Objects, WithMember

-----------------------------------------------------------------------------
(* Type correctness *)

LEMMA NoSymbolsTyped == NoSymbols \in Table
  BY DEF NoSymbols, Nothing, Table

(* The objects only ever grow, so what named an object still does. *)
LEMMA NamesStayTyped ==
  ASSUME Sane, heap' \in Seq(Objects), Len(heap) <= Len(heap')
  PROVE  Object \subseteq Object' /\ Table \subseteq Table'
<1>1. Object \subseteq Object'
  BY DEF Sane, TypeOK, Object
<1> QED
  BY <1>1 DEF Table

LEMMA TableSetTyped ==
  ASSUME NEW table \in Table, NEW u \in Units, NEW x \in Object
  PROVE  [table EXCEPT ![u] = x] \in Table
  BY DEF Table

LEMMA HeapTyped ==
  ASSUME Sane, NEW x \in Object
  PROVE  heap[x] \in Objects /\ heap[x].unit \in Units
<1>1. heap[x] \in Objects
  BY DEF Sane, TypeOK, Object
<1> QED
  BY <1>1 DEF Objects

LEMMA SaneInit == Init => Sane
<1> SUFFICES ASSUME Init PROVE Sane
  OBVIOUS
<1> USE DEF Init, Object, Nothing
<1>1. Scan \in Seq(Objects) /\ Order \in Seq(EntryPoints)
  BY MemoryAssumption
<1>2. \A e \in EntryPoints : SymbolOf[e] \in Scanned /\ ScopeOf[e] \in Scanned
  BY MemoryAssumption
<1>3. symVal \in [EntryPoints -> Object] /\ scopeVal \in [EntryPoints -> Object]
  BY <1>2, OriginalIsScanned
<1>4. timeouts \in Seq([entry : EntryPoints, arg : Object])
  OBVIOUS
<1>5. TypeOK
  BY <1>1, <1>3, <1>4, NoSymbolsTyped DEF TypeOK
<1> QED
  BY <1>1, <1>5 DEF Sane

(* The types of the memory, for the steps that change nothing else. *)
MemoryOK ==
  /\ heap \in Seq(Objects)
  /\ Len(Scan) <= Len(heap)
  /\ symbolMap \in Table
  /\ copiedUnits \in Table
  /\ localSymbols \in Table
  /\ bound \in BOOLEAN
  /\ held \subseteq Object
  /\ writes \in Nat

LEMMA MemoryStep ==
  ASSUME Sane, MemoryOK', UNCHANGED control, Len(heap) <= Len(heap')
  PROVE  Sane'
<1> USE DEF control
<1>1. Object \subseteq Object'
  BY DEF Object, MemoryOK, Sane, TypeOK
<1>2. timeouts' \in Seq([entry : EntryPoints, arg : Object'])
  <2>1. [entry : EntryPoints, arg : Object] \subseteq [entry : EntryPoints, arg : Object']
    BY <1>1
  <2> QED
    BY <2>1, SeqMonotonic DEF Sane, TypeOK
<1>3. TypeOK'
  BY <1>1, <1>2 DEF Sane, TypeOK, MemoryOK
<1> QED
  BY <1>3 DEF Sane, MemoryOK

LEMMA LookupSane ==
  ASSUME Sane, NEW u \in Units, Lookup(u)
  PROVE  Sane'
<1>1. UNCHANGED control
  BY DEF Lookup
<1>2. CASE Found(u)
  <2>1. Registered(u) \in Object
    BY <1>2 DEF Found, Registered, Sane, TypeOK, Nothing, Table
  <2>2. MemoryOK'
    BY <1>2, <2>1 DEF Found, MemoryOK, Sane, TypeOK, Object, Table
  <2> QED
    BY <1>1, <1>2, <2>2, MemoryStep DEF Found, Sane, TypeOK
<1>3. CASE CopyOnAccess(u)
  <2>1. UNCHANGED <<localSymbols, bound, writes>> /\ u \in Scanned
    BY <1>3 DEF CopyOnAccess
  <2>2. CASE symbolMap[u] = Nothing /\ copiedUnits[u] # Nothing
    <3>1. copiedUnits[u] \in Object
      BY <2>2 DEF Sane, TypeOK, Nothing, Table
    <3>2. held' = held \cup {copiedUnits[u]} /\ UNCHANGED <<heap, symbolMap, copiedUnits>>
      BY <1>3, <2>2 DEF CopyOnAccess
    <3>3. Len(heap) <= Len(heap') /\ Object' = Object /\ Table' = Table
      BY <3>2 DEF Sane, TypeOK, Object, Table
    <3>4. MemoryOK'
      BY <2>1, <3>1, <3>2, <3>3 DEF MemoryOK, Sane, TypeOK
    <3> QED
      BY <1>1, <3>3, <3>4, MemoryStep
  <2>3. CASE ~(symbolMap[u] = Nothing /\ copiedUnits[u] # Nothing)
    <3>1. /\ heap' = Append(heap, heap[Original[u]])
          /\ symbolMap' = [symbolMap EXCEPT ![u] = Len(heap')]
          /\ copiedUnits' = [copiedUnits EXCEPT ![u] = Len(heap')]
          /\ held' = held \cup {Len(heap')}
      BY <1>3, <2>3 DEF CopyOnAccess
    <3>2. heap[Original[u]] \in Objects
      BY <2>1, OriginalIsScanned DEF Sane, TypeOK
    <3>3. heap' \in Seq(Objects) /\ Len(heap') = Len(heap) + 1
      BY <3>1, <3>2, ObjectsGrow DEF Sane, TypeOK
    <3>4. Object \subseteq Object' /\ Table \subseteq Table' /\ Len(heap') \in Object'
      BY <3>3, NamesStayTyped DEF Sane, TypeOK, Object
    <3>5. symbolMap' \in Table' /\ copiedUnits' \in Table'
      BY <3>1, <3>4 DEF Sane, TypeOK, Table
    <3>6. MemoryOK' /\ Len(heap) <= Len(heap')
      BY <2>1, <3>1, <3>3, <3>4, <3>5 DEF MemoryOK, Sane, TypeOK
    <3> QED
      BY <1>1, <3>6, MemoryStep
  <2> QED
    BY <2>2, <2>3
<1> QED
  BY <1>2, <1>3 DEF Lookup

(* What is registered is typed, in whichever layer it lands. *)
LEMMA RegisterSane ==
  ASSUME Sane, NEW x \in Object', NEW u \in Units, Register(x, u),
         heap' \in Seq(Objects), Len(heap) <= Len(heap')
  PROVE  symbolMap' \in Table' /\ localSymbols' \in Table'
<1>1. symbolMap \in Table' /\ localSymbols \in Table'
  BY NamesStayTyped DEF Sane, TypeOK
<1>2. [symbolMap EXCEPT ![u] = x] \in Table' /\ [localSymbols EXCEPT ![u] = x] \in Table'
  BY <1>1 DEF Table
<1> QED
  BY <1>1, <1>2 DEF Register

LEMMA AuthorTyped == Sane /\ Interpreting => Author \in Authors
<1> SUFFICES ASSUME Sane, Interpreting PROVE Author \in Authors
  OBVIOUS
<1>1. current \in EntryPoints
  BY DEF Sane, Interpreting
<1>2. (pc = "rerun") \in BOOLEAN
  OBVIOUS
<1> QED
  BY <1>1, <1>2, Zenon DEF Author, Authors

LEMMA CreateSane ==
  ASSUME Sane, NEW u \in Units, NEW rooted \in BOOLEAN, Create(u, rooted)
  PROVE  Sane'
<1> DEFINE o == [unit |-> u, rooted |-> rooted,
                 members |-> [f \in Fields |-> None], authors |-> {Author}]
<1>1. o \in Objects
  BY AuthorTyped DEF Create, Objects
<1>2. heap' = Append(heap, o) /\ Register(Len(heap'), u) /\ UNCHANGED control
  BY DEF Create
<1> HIDE DEF o
<1>3. heap' \in Seq(Objects) /\ Len(heap') = Len(heap) + 1
  BY <1>1, <1>2, ObjectsGrow DEF Sane, TypeOK
<1>4. Len(heap') \in Object' /\ Object \subseteq Object'
  BY <1>3 DEF Object, Sane, TypeOK
<1>5. symbolMap' \in Table' /\ localSymbols' \in Table'
  BY <1>2, <1>3, <1>4, RegisterSane DEF Sane, TypeOK
<1>6. copiedUnits' \in Table' /\ held' \subseteq Object'
  BY <1>4 DEF Create, Table, Sane, TypeOK
<1>7. MemoryOK' /\ Len(heap) <= Len(heap')
  BY <1>3, <1>5, <1>6 DEF Create, MemoryOK, Sane, TypeOK
<1> QED
  BY <1>2, <1>7, MemoryStep

LEMMA SetMemberSane ==
  ASSUME Sane, NEW x \in held, NEW y \in held, NEW f \in Fields, SetMember(x, f, y)
  PROVE  Sane'
<1>1. x \in Object /\ y \in Object /\ heap[x] \in Objects /\ heap[y].unit \in Units
  BY HeapTyped DEF Sane, TypeOK
<1>2. WithMember(heap[x], f, heap[y].unit, Author) \in Objects
  BY <1>1, AuthorTyped, ObjectsAreSet DEF SetMember
<1>3. heap' = [heap EXCEPT ![x] = WithMember(heap[x], f, heap[y].unit, Author)]
  BY DEF SetMember
<1>4. heap' \in Seq(Objects) /\ Len(heap') = Len(heap) /\ Object' = Object
  BY <1>1, <1>2, <1>3 DEF Sane, TypeOK, Object
<1>5. symbolMap' \in Table' /\ localSymbols' \in Table'
  BY <1>1, <1>4, RegisterSane DEF SetMember, Sane, TypeOK
<1>6. MemoryOK' /\ Len(heap) <= Len(heap')
  BY <1>4, <1>5 DEF SetMember, MemoryOK, Table, Sane, TypeOK
<1> QED
  BY <1>6, MemoryStep DEF SetMember

-----------------------------------------------------------------------------
(* The steps of symbolInterpret and of the executor *)

\* The control beside the names of objects.
ControlOK ==
  /\ language \in Languages
  /\ pc \in {"next", "ready", "run", "rerun", "closed"}
  /\ todo \in Seq(EntryPoints)
  /\ current \in EntryPoints \cup {None}
  /\ overloadsLeft \in Nat
  /\ pc \in {"ready", "run", "rerun"} \/ overloadsLeft > 0 => current \in EntryPoints

(* Names survive any step that only adds objects. *)
LEMMA NamesSurvive ==
  ASSUME Sane, heap' \in Seq(Objects), Len(heap) <= Len(heap')
  PROVE  /\ timeouts \in Seq([entry : EntryPoints, arg : Object'])
         /\ symVal \in [EntryPoints -> Object'] /\ scopeVal \in [EntryPoints -> Object']
<1>1. Object \subseteq Object'
  BY NamesStayTyped
<1>2. [entry : EntryPoints, arg : Object] \subseteq [entry : EntryPoints, arg : Object']
  BY <1>1
<1> QED
  BY <1>1, <1>2, SeqMonotonic DEF Sane, TypeOK

(* Opening leaves typed tables, symbol and scope. *)
LEMMA OpenTyped ==
  ASSUME Sane, NEW e \in EntryPoints, Open(e)
  PROVE  /\ MemoryOK' /\ Len(heap) <= Len(heap')
         /\ symVal' \in [EntryPoints -> Object'] /\ scopeVal' \in [EntryPoints -> Object']
<1>1. symVal[e] \in Object /\ scopeVal[e] \in Object
  BY DEF Sane, TypeOK
<1>2. UNCHANGED <<localSymbols, bound, writes>>
  BY DEF Open
<1>3. CASE Copying
  <2> DEFINE symbol == heap[symVal[e]]
             scope == heap[scopeVal[e]]
             one == symbol.unit = scope.unit
             x == Len(heap) + 1
             y == IF one THEN x ELSE x + 1
             table == [[NoSymbols EXCEPT ![symbol.unit] = x] EXCEPT ![scope.unit] = y]
  <2>1. /\ heap' = IF one THEN Append(heap, symbol) ELSE Append(Append(heap, symbol), scope)
        /\ symbolMap' = table /\ copiedUnits' = table
        /\ symVal' = [symVal EXCEPT ![e] = x] /\ scopeVal' = [scopeVal EXCEPT ![e] = y]
        /\ held' = {x, y}
    BY <1>3 DEF Open, OpenCopied
  <2>2. /\ symbol \in Objects /\ scope \in Objects
        /\ symbol.unit \in Units /\ scope.unit \in Units
    BY <1>1, HeapTyped
  <2>3. heap' \in Seq(Objects) /\ Len(heap') = y /\ x \in 1 .. y /\ y \in 1 .. y
    <3>1. CASE one
      BY <2>1, <2>2, <3>1, ObjectsGrow DEF Sane, TypeOK
    <3>2. CASE ~one
      <4>1. Append(heap, symbol) \in Seq(Objects) /\ Len(Append(heap, symbol)) = x
        BY <2>2, ObjectsGrow DEF Sane, TypeOK
      <4>2. heap' = Append(Append(heap, symbol), scope) /\ y = x + 1
        BY <2>1, <3>2
      <4>3. x \in Nat \ {0}
        BY DEF Sane, TypeOK
      <4> QED
        BY <2>2, <4>1, <4>2, <4>3, ObjectsGrow
    <3> QED
      BY <3>1, <3>2
  <2>4. Len(heap) <= Len(heap') /\ x \in Object' /\ y \in Object'
    BY <2>3 DEF Sane, TypeOK, Object
  <2> HIDE DEF x, y, one, symbol, scope
  <2>5. table \in Table'
    BY <2>2, <2>4 DEF NoSymbols, Nothing, Table
  <2>6. symVal' \in [EntryPoints -> Object'] /\ scopeVal' \in [EntryPoints -> Object']
    BY <2>1, <2>3, <2>4, NamesSurvive
  <2>7. localSymbols' \in Table'
    BY <1>2, <2>3, <2>4, NamesStayTyped DEF Sane, TypeOK
  <2>8. MemoryOK'
    BY <1>2, <2>1, <2>3, <2>4, <2>5, <2>7 DEF MemoryOK, Sane, TypeOK
  <2> QED
    BY <2>4, <2>6, <2>8
<1>4. CASE ~Copying
  <2>1. /\ UNCHANGED <<heap, symVal, scopeVal>> /\ held' = {symVal[e], scopeVal[e]}
        /\ symbolMap' = NoSymbols /\ copiedUnits' = NoSymbols
    BY <1>4 DEF Open
  <2>2. Object' = Object /\ Table' = Table /\ Len(heap) <= Len(heap')
    BY <2>1 DEF Object, Table, Sane, TypeOK
  <2>3. MemoryOK'
    BY <1>1, <1>2, <2>1, <2>2, NoSymbolsTyped DEF MemoryOK, Sane, TypeOK
  <2> QED
    BY <2>1, <2>2, <2>3 DEF Sane, TypeOK
<1> QED
  BY <1>3, <1>4

(* Binding an overlay leaves a typed memory, whatever base it keeps. *)
LEMMA BindTyped ==
  ASSUME Sane, NEW objects \in SUBSET Object, Bind(objects),
         symbolMap' \in {symbolMap, NoSymbols}, copiedUnits' \in {copiedUnits, NoSymbols},
         UNCHANGED writes
  PROVE  MemoryOK' /\ Len(heap) <= Len(heap')
<1>1. /\ heap' = Append(heap, heap[Original[PackageRoot]]) /\ bound' = TRUE
      /\ localSymbols' = [NoSymbols EXCEPT ![PackageRoot] = Len(heap')]
      /\ held' = objects \cup {Len(heap')}
  BY DEF Bind
<1>2. PackageRoot \in Units /\ Original[PackageRoot] \in 1 .. Len(Scan)
  BY MemoryAssumption, OriginalIsScanned
<1>3. heap[Original[PackageRoot]] \in Objects
  BY <1>2 DEF Sane, TypeOK
<1>4. heap' \in Seq(Objects) /\ Len(heap') = Len(heap) + 1
  BY <1>1, <1>3, ObjectsGrow DEF Sane, TypeOK
<1>5. Object \subseteq Object' /\ Table \subseteq Table' /\ Len(heap') \in Object'
  BY <1>4, NamesStayTyped DEF Sane, TypeOK, Object
<1>6. NoSymbols \in Table'
  BY <1>5, NoSymbolsTyped
<1>7. localSymbols' \in Table'
  BY <1>1, <1>2, <1>5, <1>6 DEF Table
<1>8. symbolMap' \in Table' /\ copiedUnits' \in Table'
  BY <1>5, <1>6 DEF Sane, TypeOK
<1> QED
  BY <1>1, <1>4, <1>5, <1>7, <1>8 DEF MemoryOK, Sane, TypeOK

LEMMA OpenSane ==
  ASSUME Sane, NEW e \in EntryPoints, Open(e), todo' \in Seq(EntryPoints),
         overloadsLeft' \in Nat
  PROVE  Sane'
<1>1. /\ MemoryOK' /\ Len(heap) <= Len(heap')
      /\ symVal' \in [EntryPoints -> Object'] /\ scopeVal' \in [EntryPoints -> Object']
  BY OpenTyped
<1>2. timeouts' \in Seq([entry : EntryPoints, arg : Object'])
  BY <1>1, NamesSurvive DEF Open, MemoryOK
<1>3. ControlOK'
  BY DEF Open, ControlOK, Sane, TypeOK
<1> QED
  BY <1>1, <1>2, <1>3 DEF Sane, TypeOK, ControlOK, MemoryOK

LEMMA LeaveSane ==
  ASSUME Sane, Leave, timeouts' \in Seq([entry : EntryPoints, arg : Object])
  PROVE  Sane'
<1>1. /\ UNCHANGED <<language, todo, current, overloadsLeft, symVal, scopeVal, heap,
                     symbolMap, copiedUnits, writes>>
      /\ bound' = FALSE /\ localSymbols' = NoSymbols
      /\ pc' \in {"ready", "next"} /\ pc \in {"run", "rerun"}
      /\ held' \in {{symVal[current], scopeVal[current]}, {}}
  BY DEF Leave, Unbind
<1>2. Object' = Object /\ Table' = Table /\ current \in EntryPoints
  BY <1>1 DEF Object, Table, Sane
<1>3. symVal[current] \in Object /\ scopeVal[current] \in Object
  BY <1>2 DEF Sane, TypeOK
<1>4. MemoryOK'
  BY <1>1, <1>2, <1>3, NoSymbolsTyped DEF MemoryOK, Sane, TypeOK
<1>5. ControlOK'
  BY <1>1 DEF ControlOK, Sane, TypeOK
<1> QED
  BY <1>1, <1>2, <1>4, <1>5 DEF Sane, TypeOK, ControlOK, MemoryOK

LEMMA SaneStep == Sane /\ [Next]_vars => Sane'
<1> SUFFICES ASSUME Sane, [Next]_vars PROVE Sane'
  OBVIOUS
<1>1. ASSUME NEW u \in Units, Lookup(u) PROVE Sane'
  BY <1>1, LookupSane
<1>2. ASSUME NEW u \in Units, NEW rooted \in BOOLEAN, Create(u, rooted) PROVE Sane'
  BY <1>2, CreateSane
<1>3. ASSUME NEW x \in held, NEW y \in held, NEW f \in Fields, SetMember(x, f, y) PROVE Sane'
  BY <1>3, SetMemberSane
<1>4. CASE OpenNext
  <2>1. Head(todo) \in EntryPoints /\ Tail(todo) \in Seq(EntryPoints)
    BY <1>4 DEF OpenNext, Sane, TypeOK
  <2>2. todo' \in Seq(EntryPoints) /\ Open(Head(todo))
    BY <1>4, <2>1 DEF OpenNext
  <2>3. overloadsLeft' \in Nat
    BY <1>4, <2>1, MemoryAssumption DEF OpenNext
  <2> QED
    BY <2>1, <2>2, <2>3, OpenSane
<1>5. CASE Reopen
  <2>1. current \in EntryPoints
    BY <1>5 DEF Reopen, Sane
  <2> QED
    BY <1>5, <2>1, OpenSane DEF Reopen, Sane, TypeOK
<1>6. CASE SkipEntryPoint
  BY <1>6 DEF SkipEntryPoint, Sane, TypeOK, memory, Object, Table
<1>7. CASE SkipOverloads
  BY <1>7 DEF SkipOverloads, Sane, TypeOK, memory, Object, Table
<1>8. CASE Attempt
  <2>1. PICK arg \in held : Bind({symVal[current], scopeVal[current], arg})
    BY <1>8 DEF Attempt
  <2>2. {symVal[current], scopeVal[current], arg} \in SUBSET Object
    BY <1>8 DEF Attempt, Sane, TypeOK
  <2>3. MemoryOK' /\ Len(heap) <= Len(heap')
    BY <1>8, <2>1, <2>2, BindTyped DEF Attempt
  <2>4. /\ timeouts' \in Seq([entry : EntryPoints, arg : Object'])
        /\ symVal' \in [EntryPoints -> Object'] /\ scopeVal' \in [EntryPoints -> Object']
    BY <1>8, <2>3, NamesSurvive DEF Attempt, MemoryOK
  <2>5. ControlOK'
    BY <1>8 DEF Attempt, ControlOK, Sane, TypeOK
  <2> QED
    BY <2>3, <2>4, <2>5 DEF Sane, TypeOK, ControlOK, MemoryOK
<1>9. CASE Rerun
  <2>1. /\ Head(timeouts).entry \in EntryPoints /\ Head(timeouts).arg \in Object
        /\ Tail(timeouts) \in Seq([entry : EntryPoints, arg : Object])
    <3>1. timeouts \in Seq([entry : EntryPoints, arg : Object]) /\ timeouts # <<>>
      BY <1>9 DEF Rerun, Sane, TypeOK
    <3>2. /\ Head(timeouts) \in [entry : EntryPoints, arg : Object]
          /\ Tail(timeouts) \in Seq([entry : EntryPoints, arg : Object])
      BY <3>1, HeadTailProperties
    <3> QED
      BY <3>2
  <2>2. {symVal[current'], scopeVal[current'], Head(timeouts).arg} \in SUBSET Object
    BY <1>9, <2>1 DEF Rerun, Sane, TypeOK
  <2>3. MemoryOK' /\ Len(heap) <= Len(heap')
    BY <1>9, <2>2, BindTyped DEF Rerun
  <2>4. Object \subseteq Object'
    BY <2>3, NamesStayTyped DEF MemoryOK
  <2>5. [entry : EntryPoints, arg : Object] \subseteq [entry : EntryPoints, arg : Object']
    BY <2>4
  <2>6. timeouts' \in Seq([entry : EntryPoints, arg : Object'])
    BY <1>9, <2>1, <2>5, SeqMonotonic DEF Rerun
  <2>7. symVal' \in [EntryPoints -> Object'] /\ scopeVal' \in [EntryPoints -> Object']
    BY <1>9, <2>4 DEF Rerun, Sane, TypeOK
  <2>8. ControlOK'
    BY <1>9, <2>1 DEF Rerun, ControlOK, Sane, TypeOK
  <2> QED
    BY <2>3, <2>6, <2>7, <2>8 DEF Sane, TypeOK, ControlOK, MemoryOK
<1>10. CASE SkipRerun
  <2>1. Tail(timeouts) \in Seq([entry : EntryPoints, arg : Object])
    BY <1>10 DEF SkipRerun, Sane, TypeOK
  <2> QED
    BY <1>10, <2>1 DEF SkipRerun, Sane, TypeOK, memory, Object, Table
<1>11. CASE Return
  BY <1>11, LeaveSane DEF Return, Sane, TypeOK
<1>12. CASE TimeOut
  <2>1. PICK arg \in held : timeouts' = Append(timeouts, [entry |-> current, arg |-> arg])
    BY <1>12 DEF TimeOut
  <2>2. [entry |-> current, arg |-> arg] \in [entry : EntryPoints, arg : Object]
    BY <1>12 DEF TimeOut, Sane, TypeOK
  <2>3. timeouts' \in Seq([entry : EntryPoints, arg : Object])
    BY <2>1, <2>2 DEF Sane, TypeOK
  <2> QED
    BY <1>12, <2>3, LeaveSane DEF TimeOut
<1>13. CASE RestoreSymbolTable /\ bound' \in BOOLEAN /\ localSymbols' \in Table
  <2>1. /\ UNCHANGED <<language, todo, current, overloadsLeft, timeouts, symVal, scopeVal,
                       heap, writes>>
        /\ pc' = "closed" /\ symbolMap' = NoSymbols /\ copiedUnits' = NoSymbols /\ held' = {}
    BY <1>13 DEF RestoreSymbolTable
  <2>2. Object' = Object /\ Table' = Table
    BY <2>1 DEF Object, Table
  <2>3. MemoryOK'
    BY <1>13, <2>1, <2>2, NoSymbolsTyped DEF MemoryOK, Sane, TypeOK
  <2>4. ControlOK'
    BY <2>1 DEF ControlOK, Sane, TypeOK
  <2> QED
    BY <2>1, <2>2, <2>3, <2>4 DEF Sane, TypeOK, ControlOK, MemoryOK
<1>14. CASE Throw
  <2>1. RestoreSymbolTable
    BY <1>14 DEF Throw
  <2>2. bound' \in BOOLEAN /\ localSymbols' \in Table
    BY <1>14, NoSymbolsTyped DEF Throw, Unbind, Sane, TypeOK
  <2> QED
    BY <1>13, <2>1, <2>2
<1>15. CASE Close
  BY <1>13, <1>15 DEF Close, Sane, TypeOK
<1>16. CASE UNCHANGED vars
  BY <1>16 DEF vars, control, memory, Sane, TypeOK, Object, Table
<1> QED
  BY <1>1, <1>2, <1>3, <1>4, <1>5, <1>6, <1>7, <1>8, <1>9, <1>10, <1>11, <1>12, <1>14,
     <1>15, <1>16 DEF Next

(* The types hold for any units, members, entry points, overloads and bounds, *)
(* so no name ever leads to an object that was not made (the heap of          *)
(* analyzer.ts and analyzer-memory-overlay.ts as modelled).                   *)
THEOREM TypeCorrect == Spec => []TypeOK
<1>1. Sane => TypeOK
  BY DEF Sane
<1> QED
  BY <1>1, SaneInit, SaneStep, PTL DEF Spec

-----------------------------------------------------------------------------
(* The partition of the objects among the entry points *)

\* Only an attempt binds an overlay, and unbinding empties it.
Layered ==
  /\ bound => pc \in {"run", "rerun"}
  /\ ~bound => localSymbols = NoSymbols

Owners == [Nat -> EntryPoints \cup {None}]

\* The object x was made after preprocessing, for the entry point e.
Of(owner, x, e) == x > Len(Scan) /\ owner[x] = e

Authored(owner) ==
  \A x \in Object : x > Len(Scan) => heap[x].authors \subseteq {owner[x]} \X BOOLEAN

HeldOwned(owner) == \A x \in held : Of(owner, x, current)

TablesOwned(owner) ==
  \A u \in Units : \A x \in {symbolMap[u], copiedUnits[u], localSymbols[u]} \ {Nothing} :
    Of(owner, x, current)

EntriesOwned(owner) ==
  \A e \in EntryPoints : \A x \in {symVal[e], scopeVal[e]} : x > Len(Scan) => owner[x] = e

OpenedOwned(owner) ==
  pc \in {"ready", "run", "rerun"} =>
    \A x \in {symVal[current], scopeVal[current]} : Of(owner, x, current)

QueueOwned(owner) ==
  \A i \in 1 .. Len(timeouts) :
    LET e == timeouts[i].entry
    IN \A x \in {timeouts[i].arg, symVal[e], scopeVal[e]} : Of(owner, x, e)

Owned(owner) ==
  /\ Authored(owner)
  /\ HeldOwned(owner)
  /\ TablesOwned(owner)
  /\ EntriesOwned(owner)
  /\ OpenedOwned(owner)
  /\ QueueOwned(owner)

Partitioned == OriginalsArePristine /\ (Copying => \E owner \in Owners : Owned(owner))

Isolated == Sane /\ Layered /\ Partitioned

LEMMA QueueTyped ==
  Sane => \A i \in 1 .. Len(timeouts) :
    LET e == timeouts[i].entry
    IN  /\ e \in EntryPoints
        /\ timeouts[i].arg \in Object /\ symVal[e] \in Object /\ scopeVal[e] \in Object
<1> SUFFICES ASSUME Sane, NEW i \in 1 .. Len(timeouts)
             PROVE  LET e == timeouts[i].entry
                    IN  /\ e \in EntryPoints
                        /\ timeouts[i].arg \in Object
                        /\ symVal[e] \in Object /\ scopeVal[e] \in Object
  OBVIOUS
<1>1. timeouts \in Seq([entry : EntryPoints, arg : Object])
  BY DEF Sane, TypeOK
<1>2. timeouts[i] \in [entry : EntryPoints, arg : Object]
  BY <1>1, ElementOfSeq
<1> QED
  BY <1>2 DEF Sane, TypeOK

(* Objects not made yet may be given to anyone. *)
LEMMA OwnersExtend ==
  ASSUME Sane, NEW owner \in Owners, Owned(owner), NEW e \in EntryPoints \cup {None}
  PROVE  \E o \in Owners : Owned(o) /\ \A x \in Nat : x > Len(heap) => o[x] = e
<1> DEFINE o == [x \in Nat |-> IF x > Len(heap) THEN e ELSE owner[x]]
<1>1. o \in Owners
  BY DEF Owners
<1>2. \A x \in Nat : x > Len(heap) => o[x] = e
  OBVIOUS
<1>3. \A x \in Object : o[x] = owner[x]
  BY DEF Object, Sane, TypeOK
<1> HIDE DEF o
<1>4. \A x \in Object, f \in EntryPoints \cup {None} : Of(owner, x, f) => Of(o, x, f)
  BY <1>3 DEF Of
<1>5. Authored(o)
  BY <1>3 DEF Owned, Authored
<1>6. HeldOwned(o)
  BY <1>4 DEF Owned, HeldOwned, Sane, TypeOK
<1>7. TablesOwned(o)
  BY <1>4 DEF Owned, TablesOwned, Sane, TypeOK, Table
<1>8. EntriesOwned(o)
  BY <1>3 DEF Owned, EntriesOwned, Sane, TypeOK
<1>9. OpenedOwned(o)
  BY <1>4 DEF Owned, OpenedOwned, Sane, TypeOK
<1>10. QueueOwned(o)
  BY <1>4, QueueTyped DEF Owned, QueueOwned
<1>11. Owned(o)
  BY <1>5, <1>6, <1>7, <1>8, <1>9, <1>10 DEF Owned
<1> QED
  BY <1>1, <1>2, <1>11

LEMMA IsolatedInit == Init => Isolated
<1> SUFFICES ASSUME Init PROVE Layered /\ Partitioned
  BY SaneInit DEF Isolated
<1>1. Layered
  BY DEF Init, Layered
<1>2. OriginalsArePristine
  BY DEF Init, OriginalsArePristine
<1> DEFINE o == [x \in Nat |-> None]
<1>3. o \in Owners
  BY DEF Owners
<1>4. \A e \in EntryPoints : symVal[e] <= Len(Scan) /\ scopeVal[e] <= Len(Scan)
  <2>1. \A e \in EntryPoints : SymbolOf[e] \in Scanned /\ ScopeOf[e] \in Scanned
    BY MemoryAssumption
  <2> QED
    BY <2>1, OriginalIsScanned DEF Init
<1> HIDE DEF o
<1>5. Len(Scan) \in Nat
  BY MemoryAssumption
<1>6. Authored(o)
  BY <1>5 DEF Init, Authored, Object
<1>7. HeldOwned(o) /\ TablesOwned(o) /\ OpenedOwned(o) /\ QueueOwned(o)
  <2>1. HeldOwned(o) /\ OpenedOwned(o)
    BY DEF Init, HeldOwned, OpenedOwned
  <2>2. TablesOwned(o)
    BY DEF Init, TablesOwned, NoSymbols
  <2>3. QueueOwned(o)
    BY DEF Init, QueueOwned
  <2> QED
    BY <2>1, <2>2, <2>3
<1>8. EntriesOwned(o)
  <2>1. \A e \in EntryPoints : symVal[e] \in Nat /\ scopeVal[e] \in Nat
    BY SaneInit DEF Sane, TypeOK, Object
  <2> QED
    BY <1>4, <1>5, <2>1 DEF EntriesOwned
<1> QED
  BY <1>1, <1>2, <1>3, <1>6, <1>7, <1>8 DEF Partitioned, Owned

\* What a step starts from, and the owner it gives to what it makes.
Split(owner) == /\ Sane /\ Layered /\ OriginalsArePristine /\ Copying
                /\ owner \in Owners /\ Owned(owner)
MadeFor(owner, e) == \A x \in Nat : x > Len(heap) => owner[x] = e

(* A new object with its owner's writes only keeps every object so. *)
LEMMA AppendAuthored ==
  ASSUME NEW owner, Split(owner), NEW o \in Objects, heap' = Append(heap, o),
         language' = language, o.authors \subseteq {owner[Len(heap) + 1]} \X BOOLEAN
  PROVE  /\ Authored(owner)' /\ OriginalsArePristine' /\ Len(heap') = Len(heap) + 1
         /\ Len(heap') \in Nat /\ Len(heap') > Len(Scan) /\ Len(heap') > Len(heap)
<1>1. heap \in Seq(Objects) /\ Len(Scan) <= Len(heap) /\ Len(Scan) \in Nat
  BY MemoryAssumption DEF Split, Sane, TypeOK
<1>2. /\ Len(heap') = Len(heap) + 1
      /\ \A i \in 1 .. Len(heap) : heap'[i] = heap[i]
      /\ heap'[Len(heap) + 1] = o
  BY <1>1, ObjectsGrow
<1>3. Authored(owner)'
  <2> SUFFICES ASSUME NEW x \in 1 .. Len(heap'), x > Len(Scan)
               PROVE  heap'[x].authors \subseteq {owner[x]} \X BOOLEAN
    BY DEF Authored, Object
  <2>1. CASE x \in 1 .. Len(heap)
    BY <1>2, <2>1 DEF Split, Owned, Authored, Object
  <2>2. CASE x = Len(heap) + 1
    BY <1>2, <2>2
  <2> QED
    BY <1>1, <1>2, <2>1, <2>2
<1>4. OriginalsArePristine'
  BY <1>1, <1>2, MemoryAssumption DEF Split, OriginalsArePristine, Copying
<1> QED
  BY <1>1, <1>2, <1>3, <1>4

(* A copy of an original shows nobody's writes. *)
LEMMA OriginalsHaveNoAuthors ==
  ASSUME NEW owner, Split(owner), NEW i \in 1 .. Len(Scan)
  PROVE  heap[i] \in Objects /\ heap[i].authors = {}
<1>1. Scan \in Seq(Objects) /\ \A j \in DOMAIN Scan : Scan[j].authors = {}
  BY MemoryAssumption
<1>2. heap[i] = Scan[i]
  BY <1>1 DEF Split, OriginalsArePristine
<1> QED
  BY <1>1, <1>2

LEMMA AuthorIsCurrent == Author \in {current} \X BOOLEAN
<1>1. (pc = "rerun") \in BOOLEAN
  OBVIOUS
<1> QED
  BY <1>1, Zenon DEF Author

LEMMA LookupOwned ==
  ASSUME NEW owner, Split(owner), MadeFor(owner, current'), NEW u \in Units, Lookup(u)
  PROVE  OriginalsArePristine' /\ Owned(owner)'
<1>1. UNCHANGED control
  BY DEF Lookup
<1>2. CASE Found(u)
  <2>1. UNCHANGED <<heap, symbolMap, copiedUnits, localSymbols>>
    BY <1>2 DEF Found
  <2>2. Of(owner, Registered(u), current)
    BY <1>2 DEF Found, Registered, Split, Owned, TablesOwned
  <2>3. HeldOwned(owner)'
    BY <1>1, <1>2, <2>2 DEF Found, Split, Owned, HeldOwned, Of, control
  <2>4. OriginalsArePristine'
    BY <1>1, <2>1 DEF Split, OriginalsArePristine, Copying, control
  <2>5. Authored(owner)' /\ TablesOwned(owner)' /\ EntriesOwned(owner)'
    BY <1>1, <2>1 DEF Split, Owned, Authored, Object, TablesOwned, EntriesOwned, Of, control
  <2>6. OpenedOwned(owner)' /\ QueueOwned(owner)'
    BY <1>1 DEF Split, Owned, OpenedOwned, QueueOwned, Of, control
  <2> QED
    BY <2>3, <2>4, <2>5, <2>6 DEF Owned
<1>3. CASE CopyOnAccess(u)
  <2>1. UNCHANGED localSymbols /\ u \in Scanned
    BY <1>3 DEF CopyOnAccess
  <2>2. EntriesOwned(owner)' /\ OpenedOwned(owner)' /\ QueueOwned(owner)'
    BY <1>1 DEF Split, Owned, EntriesOwned, OpenedOwned, QueueOwned, Of, control
  <2>3. CASE symbolMap[u] = Nothing /\ copiedUnits[u] # Nothing
    <3>1. /\ held' = held \cup {copiedUnits[u]}
          /\ UNCHANGED <<heap, symbolMap, copiedUnits, localSymbols>>
      BY <1>3, <2>3 DEF CopyOnAccess
    <3>2. Of(owner, copiedUnits[u], current)
      BY <2>3 DEF Split, Owned, TablesOwned
    <3>3. HeldOwned(owner)'
      BY <1>1, <3>1, <3>2 DEF Split, Owned, HeldOwned, Of, control
    <3>4. OriginalsArePristine'
      BY <1>1, <3>1 DEF Split, OriginalsArePristine, Copying, control
    <3>5. Authored(owner)' /\ TablesOwned(owner)'
      BY <1>1, <3>1 DEF Split, Owned, Authored, Object, TablesOwned, Of, control
    <3> QED
      BY <2>2, <3>3, <3>4, <3>5 DEF Owned
  <2>4. CASE ~(symbolMap[u] = Nothing /\ copiedUnits[u] # Nothing)
    <3>1. /\ heap' = Append(heap, heap[Original[u]])
          /\ symbolMap' = [symbolMap EXCEPT ![u] = Len(heap')]
          /\ copiedUnits' = [copiedUnits EXCEPT ![u] = Len(heap')]
          /\ held' = held \cup {Len(heap')}
      BY <1>3, <2>4 DEF CopyOnAccess
    <3>2. heap[Original[u]] \in Objects /\ heap[Original[u]].authors = {}
      BY <2>1, OriginalIsScanned, OriginalsHaveNoAuthors
    <3>3. /\ Authored(owner)' /\ OriginalsArePristine'
          /\ Len(heap') \in Nat /\ Len(heap') > Len(Scan) /\ Len(heap') > Len(heap)
      BY <1>1, <3>1, <3>2, AppendAuthored DEF control
    <3>4. Of(owner, Len(heap'), current)
      BY <1>1, <3>3 DEF MadeFor, Of, control
    <3>5. HeldOwned(owner)'
      BY <1>1, <3>1, <3>4 DEF Split, Owned, HeldOwned, Of, control
    <3>6. TablesOwned(owner)'
      BY <1>1, <2>1, <3>1, <3>4 DEF Split, Owned, TablesOwned, Of, control, Sane, TypeOK, Table
    <3> QED
      BY <2>2, <3>3, <3>5, <3>6 DEF Owned
  <2> QED
    BY <2>3, <2>4
<1> QED
  BY <1>2, <1>3 DEF Lookup

LEMMA RegisterOwned ==
  ASSUME NEW owner, Split(owner), NEW x, Of(owner, x, current), NEW u \in Units, Register(x, u),
         UNCHANGED <<control, copiedUnits>>
  PROVE  TablesOwned(owner)'
<1>1. /\ symbolMap' \in {symbolMap, [symbolMap EXCEPT ![u] = x]}
      /\ localSymbols' \in {localSymbols, [localSymbols EXCEPT ![u] = x]}
  BY DEF Register
<1>2. \A v \in Units : /\ symbolMap'[v] \in {symbolMap[v], x}
                       /\ localSymbols'[v] \in {localSymbols[v], x}
  BY <1>1 DEF Split, Sane, TypeOK, Table
<1> QED
  BY <1>2 DEF Split, Owned, TablesOwned, Of, control

LEMMA CreateOwned ==
  ASSUME NEW owner, Split(owner), MadeFor(owner, current'),
         NEW u \in Units, NEW rooted \in BOOLEAN, Create(u, rooted)
  PROVE  OriginalsArePristine' /\ Owned(owner)'
<1> DEFINE o == [unit |-> u, rooted |-> rooted,
                 members |-> [f \in Fields |-> None], authors |-> {Author}]
<1>1. o \in Objects /\ o.authors = {Author}
  BY AuthorTyped DEF Create, Objects, Split
<1>2. /\ heap' = Append(heap, o) /\ held' = held \cup {Len(heap')}
      /\ Register(Len(heap'), u) /\ UNCHANGED <<control, copiedUnits>>
  BY DEF Create
<1> HIDE DEF o
<1>3. owner[Len(heap) + 1] = current /\ language' = language /\ current' = current
  BY <1>2 DEF MadeFor, control, Split, Sane, TypeOK
<1>4. /\ Authored(owner)' /\ OriginalsArePristine'
      /\ Len(heap') \in Nat /\ Len(heap') > Len(Scan) /\ Len(heap') > Len(heap)
  BY <1>1, <1>2, <1>3, AuthorIsCurrent, AppendAuthored
<1>5. Of(owner, Len(heap'), current)
  BY <1>3, <1>4 DEF MadeFor, Of
<1>6. TablesOwned(owner)'
  BY <1>2, <1>5, RegisterOwned
<1>7. HeldOwned(owner)'
  BY <1>2, <1>3, <1>5 DEF Split, Owned, HeldOwned, Of
<1>8. EntriesOwned(owner)' /\ OpenedOwned(owner)' /\ QueueOwned(owner)'
  <2>1. UNCHANGED <<pc, current, timeouts, symVal, scopeVal>>
    BY <1>2 DEF control
  <2> QED
    BY <2>1 DEF Split, Owned, EntriesOwned, OpenedOwned, QueueOwned, Of
<1> QED
  BY <1>4, <1>6, <1>7, <1>8 DEF Owned

LEMMA SetMemberOwned ==
  ASSUME NEW owner, Split(owner), NEW x \in held, NEW y \in held, NEW f \in Fields,
         SetMember(x, f, y)
  PROVE  OriginalsArePristine' /\ Owned(owner)'
<1>1. x \in Object /\ heap[x] \in Objects /\ heap[y].unit \in Units
  BY HeapTyped DEF Split, Sane, TypeOK
<1>2. Of(owner, x, current) /\ Of(owner, y, current)
  BY DEF Split, Owned, HeldOwned
<1>3. /\ heap' = [heap EXCEPT ![x] = WithMember(heap[x], f, heap[y].unit, Author)]
      /\ Register(y, heap[y].unit) /\ UNCHANGED <<control, copiedUnits, held>>
  BY DEF SetMember
<1>4. WithMember(heap[x], f, heap[y].unit, Author).authors = heap[x].authors \cup {Author}
  BY <1>1, AuthorTyped, ObjectsAreSet DEF SetMember, Split
<1>5. /\ Len(heap') = Len(heap) /\ \A i \in Object : i # x => heap'[i] = heap[i]
      /\ heap'[x].authors = heap[x].authors \cup {Author}
  <2> DEFINE o == WithMember(heap[x], f, heap[y].unit, Author)
  <2>1. o \in Objects
    BY <1>1, AuthorTyped, ObjectsAreSet DEF SetMember, Split
  <2>2. heap \in Seq(Objects) /\ x \in 1 .. Len(heap) /\ heap' = [heap EXCEPT ![x] = o]
    BY <1>1, <1>3 DEF Split, Sane, TypeOK, Object
  <2>3. o.authors = heap[x].authors \cup {Author}
    BY <1>4
  <2> HIDE DEF o
  <2> QED
    BY <2>1, <2>2, <2>3 DEF Object
<1>6. Authored(owner)'
  <2> SUFFICES ASSUME NEW i \in Object, i > Len(Scan)
               PROVE  heap'[i].authors \subseteq {owner[i]} \X BOOLEAN
    BY <1>5 DEF Authored, Object
  <2>1. heap[i].authors \subseteq {owner[i]} \X BOOLEAN
    BY DEF Split, Owned, Authored
  <2>2. CASE i = x
    BY <1>2, <1>5, <2>1, <2>2, AuthorIsCurrent DEF Of
  <2> QED
    BY <1>5, <2>1, <2>2
<1>7. OriginalsArePristine'
  <2>1. x \notin 1 .. Len(Scan)
    BY <1>2 DEF Of
  <2>2. 1 .. Len(Scan) \subseteq Object /\ DOMAIN Scan = 1 .. Len(Scan)
    BY MemoryAssumption DEF Split, Sane, TypeOK, Object
  <2> QED
    BY <1>3, <1>5, <2>1, <2>2 DEF Split, OriginalsArePristine, Copying, control
<1>8. TablesOwned(owner)'
  BY <1>1, <1>2, <1>3, RegisterOwned
<1>9. /\ HeldOwned(owner)' /\ EntriesOwned(owner)' /\ OpenedOwned(owner)'
      /\ QueueOwned(owner)'
  <2>1. UNCHANGED <<held, pc, current, timeouts, symVal, scopeVal>>
    BY <1>3 DEF control
  <2>2. HeldOwned(owner)' /\ EntriesOwned(owner)'
    BY <2>1 DEF Split, Owned, HeldOwned, EntriesOwned, Of
  <2>3. OpenedOwned(owner)' /\ QueueOwned(owner)'
    BY <2>1 DEF Split, Owned, OpenedOwned, QueueOwned, Of
  <2> QED
    BY <2>2, <2>3
<1> QED
  BY <1>6, <1>7, <1>8, <1>9 DEF Owned

LEMMA OpenOwned ==
  ASSUME NEW owner, NEW e \in EntryPoints, Split(owner), MadeFor(owner, e), pc = "next", Open(e)
  PROVE  OriginalsArePristine' /\ Owned(owner)'
<1> DEFINE symbol == heap[symVal[e]]
           scope == heap[scopeVal[e]]
           one == symbol.unit = scope.unit
           x == Len(heap) + 1
           y == IF one THEN x ELSE x + 1
           table == [[NoSymbols EXCEPT ![symbol.unit] = x] EXCEPT ![scope.unit] = y]
<1>1. /\ heap' = IF one THEN Append(heap, symbol) ELSE Append(Append(heap, symbol), scope)
      /\ symbolMap' = table /\ copiedUnits' = table
      /\ symVal' = [symVal EXCEPT ![e] = x] /\ scopeVal' = [scopeVal EXCEPT ![e] = y]
      /\ held' = {x, y}
  BY DEF Open, OpenCopied, Split
<1>2. UNCHANGED <<language, timeouts, localSymbols>> /\ pc' = "ready" /\ current' = e
  BY DEF Open
<1>3. /\ heap \in Seq(Objects) /\ Len(heap) \in Nat
      /\ Len(Scan) \in Nat /\ Len(Scan) <= Len(heap)
      /\ symbol \in Objects /\ scope \in Objects /\ symbol.unit \in Units /\ scope.unit \in Units
  BY MemoryAssumption, HeapTyped DEF Split, Sane, TypeOK
<1>4. symbol.authors \subseteq {e} \X BOOLEAN /\ scope.authors \subseteq {e} \X BOOLEAN
  <2>1. ASSUME NEW z \in {symVal[e], scopeVal[e]}
        PROVE  heap[z].authors \subseteq {e} \X BOOLEAN
    <3>1. z \in Object /\ z \in Nat
      BY DEF Split, Sane, TypeOK, Object
    <3>2. CASE z > Len(Scan)
      BY <3>1, <3>2 DEF Split, Owned, EntriesOwned, Authored
    <3>3. CASE z <= Len(Scan)
      BY <1>3, <3>1, <3>3, OriginalsHaveNoAuthors DEF Object
    <3> QED
      BY <1>3, <3>1, <3>2, <3>3
  <2> QED
    BY <2>1
<1>5. /\ \A i \in 1 .. Len(heap) : heap'[i] = heap[i]
      /\ \A i \in 1 .. Len(heap') : i <= Len(heap) \/ heap'[i] \in {symbol, scope}
  <2>1. CASE one
    BY <1>1, <1>3, <2>1, ObjectsGrow
  <2>2. CASE ~one
    <3> DEFINE h == Append(heap, symbol)
    <3>1. /\ h \in Seq(Objects) /\ Len(h) = Len(heap) + 1 /\ h[Len(heap) + 1] = symbol
          /\ \A i \in 1 .. Len(heap) : h[i] = heap[i]
      BY <1>3, ObjectsGrow
    <3>2. heap' = Append(h, scope)
      BY <1>1, <2>2
    <3> HIDE DEF h
    <3>3. /\ Len(heap') = Len(h) + 1 /\ heap'[Len(h) + 1] = scope
          /\ \A i \in 1 .. Len(h) : heap'[i] = h[i]
      BY <1>3, <3>1, <3>2, ObjectsGrow
    <3> QED
      BY <1>3, <3>1, <3>3
  <2> QED
    BY <2>1, <2>2
<1>6. Of(owner, x, e) /\ Of(owner, y, e)
  BY <1>3 DEF MadeFor, Of
<1>7. localSymbols' = NoSymbols
  BY <1>2 DEF Split, Layered
<1>8. \A u \in Units : table[u] \in {Nothing, x, y}
  BY <1>3 DEF NoSymbols
<1>9. Len(heap') \in Nat
  BY OpenTyped DEF Split, MemoryOK
<1> HIDE DEF table, x, y, symbol, scope, one
<1>10. Authored(owner)'
  <2> SUFFICES ASSUME NEW i \in 1 .. Len(heap'), i > Len(Scan)
               PROVE  heap'[i].authors \subseteq {owner[i]} \X BOOLEAN
    BY DEF Authored, Object
  <2>1. CASE i <= Len(heap)
    BY <1>3, <1>5, <2>1 DEF Split, Owned, Authored, Object
  <2>2. CASE i > Len(heap)
    BY <1>3, <1>4, <1>5, <1>9, <2>2 DEF MadeFor
  <2> QED
    BY <1>3, <2>1, <2>2
<1>11. OriginalsArePristine'
  <2>1. DOMAIN Scan = 1 .. Len(Scan)
    BY MemoryAssumption
  <2> QED
    BY <1>2, <1>3, <1>5, <2>1 DEF Split, OriginalsArePristine, Copying
<1>12. PICK a, b :
         /\ symVal' = [symVal EXCEPT ![e] = a] /\ scopeVal' = [scopeVal EXCEPT ![e] = b]
         /\ held' = {a, b} /\ Of(owner, a, e) /\ Of(owner, b, e)
         /\ \A u \in Units : symbolMap'[u] \in {Nothing, a, b} /\ copiedUnits'[u] \in {Nothing, a, b}
  BY <1>1, <1>6, <1>8
<1>13. HeldOwned(owner)' /\ TablesOwned(owner)'
  BY <1>2, <1>7, <1>12 DEF HeldOwned, TablesOwned, NoSymbols, Of
<1>14. \A f \in EntryPoints : /\ symVal'[f] = (IF f = e THEN a ELSE symVal[f])
                               /\ scopeVal'[f] = (IF f = e THEN b ELSE scopeVal[f])
  <2>1. symVal \in [EntryPoints -> Object] /\ scopeVal \in [EntryPoints -> Object]
    BY DEF Split, Sane, TypeOK
  <2> QED
    BY <1>12, <2>1
<1>15. EntriesOwned(owner)' /\ OpenedOwned(owner)'
  <2>1. ASSUME NEW f \in EntryPoints, NEW z \in {symVal'[f], scopeVal'[f]}, z > Len(Scan)
        PROVE  owner[z] = f
    BY <1>12, <1>14, <2>1 DEF Split, Owned, EntriesOwned, Of
  <2>2. EntriesOwned(owner)'
    BY <2>1 DEF EntriesOwned
  <2>3. symVal'[e] = a /\ scopeVal'[e] = b
    BY <1>14
  <2>4. OpenedOwned(owner)'
    BY <1>2, <1>12, <2>3 DEF OpenedOwned, Of
  <2> QED
    BY <2>2, <2>4
<1>16. QueueOwned(owner)'
  <2> SUFFICES ASSUME NEW i \in 1 .. Len(timeouts)
               PROVE  LET f == timeouts[i].entry
                      IN \A z \in {timeouts[i].arg, symVal'[f], scopeVal'[f]} : Of(owner, z, f)
    BY <1>2 DEF QueueOwned, Of
  <2> QED
    BY <1>12, <1>14, QueueTyped DEF Split, Owned, QueueOwned
<1> QED
  BY <1>10, <1>11, <1>13, <1>15, <1>16 DEF Owned

LEMMA BindOwned ==
  ASSUME NEW owner, Split(owner), NEW e \in EntryPoints, MadeFor(owner, e),
         current' = e, language' = language,
         NEW objects, \A x \in objects : Of(owner, x, e), Bind(objects),
         \A u \in Units : \A x \in {symbolMap'[u], copiedUnits'[u]} \ {Nothing} : Of(owner, x, e)
  PROVE  OriginalsArePristine' /\ Authored(owner)' /\ HeldOwned(owner)' /\ TablesOwned(owner)'
<1>1. /\ heap' = Append(heap, heap[Original[PackageRoot]])
      /\ localSymbols' = [NoSymbols EXCEPT ![PackageRoot] = Len(heap')]
      /\ held' = objects \cup {Len(heap')}
  BY DEF Bind
<1>2. PackageRoot \in Units /\ Original[PackageRoot] \in 1 .. Len(Scan)
  BY MemoryAssumption, OriginalIsScanned
<1>3. /\ heap[Original[PackageRoot]] \in Objects
      /\ heap[Original[PackageRoot]].authors = {}
  BY <1>2, OriginalsHaveNoAuthors
<1>4. /\ Authored(owner)' /\ OriginalsArePristine'
      /\ Len(heap') \in Nat /\ Len(heap') > Len(Scan) /\ Len(heap') > Len(heap)
  BY <1>1, <1>3, AppendAuthored
<1>5. Of(owner, Len(heap'), e)
  BY <1>4 DEF MadeFor, Of
<1>6. HeldOwned(owner)'
  BY <1>1, <1>5 DEF HeldOwned, Of
<1>7. \A u \in Units : localSymbols'[u] \in {Nothing, Len(heap')}
  BY <1>1 DEF NoSymbols
<1>8. TablesOwned(owner)'
  BY <1>5, <1>7 DEF TablesOwned, Nothing, Of
<1> QED
  BY <1>4, <1>6, <1>8

LEMMA AttemptOwned ==
  ASSUME NEW owner, Split(owner), MadeFor(owner, current'), Attempt
  PROVE  OriginalsArePristine' /\ Owned(owner)'
<1>1. PICK arg \in held : Bind({symVal[current], scopeVal[current], arg})
  BY DEF Attempt
<1>2. /\ UNCHANGED <<language, current, timeouts, symbolMap, copiedUnits, symVal, scopeVal>>
      /\ pc = "ready" /\ pc' = "run" /\ current \in EntryPoints
  BY DEF Attempt, Split, Sane
<1>3. \A x \in {symVal[current], scopeVal[current], arg} : Of(owner, x, current)
  BY <1>2 DEF Split, Owned, HeldOwned, OpenedOwned
<1>4. \A u \in Units : \A x \in {symbolMap'[u], copiedUnits'[u]} \ {Nothing} : Of(owner, x, current)
  BY <1>2 DEF Split, Owned, TablesOwned
<1>5. OriginalsArePristine' /\ Authored(owner)' /\ HeldOwned(owner)' /\ TablesOwned(owner)'
  BY <1>1, <1>2, <1>3, <1>4, BindOwned
<1>6. EntriesOwned(owner)' /\ OpenedOwned(owner)'
  BY <1>2 DEF Split, Owned, EntriesOwned, OpenedOwned, Of
<1>7. QueueOwned(owner)'
  BY <1>2 DEF Split, Owned, QueueOwned, Of
<1> QED
  BY <1>5, <1>6, <1>7 DEF Owned

(* The first queued attempt, and those behind it, are owned too. *)
LEMMA TailOwned ==
  ASSUME NEW owner, Split(owner), timeouts # <<>>, timeouts' = Tail(timeouts),
         UNCHANGED <<symVal, scopeVal>>
  PROVE  /\ Head(timeouts).entry \in EntryPoints
         /\ \A x \in {Head(timeouts).arg, symVal[Head(timeouts).entry],
                      scopeVal[Head(timeouts).entry]} : Of(owner, x, Head(timeouts).entry)
         /\ QueueOwned(owner)'
<1>1. timeouts \in Seq([entry : EntryPoints, arg : Object])
  BY DEF Split, Sane, TypeOK
<1>2. /\ Len(timeouts) \in Nat \ {0} /\ Head(timeouts) = timeouts[1]
      /\ Len(Tail(timeouts)) = Len(timeouts) - 1
      /\ \A i \in 1 .. Len(Tail(timeouts)) : Tail(timeouts)[i] = timeouts[i + 1]
  BY <1>1
<1>3. QueueOwned(owner)
  BY DEF Split, Owned
<1>4. QueueOwned(owner)'
  <2> SUFFICES ASSUME NEW i \in 1 .. Len(Tail(timeouts))
               PROVE  LET e == Tail(timeouts)[i].entry
                      IN \A x \in {Tail(timeouts)[i].arg, symVal[e], scopeVal[e]} :
                           x > Len(Scan) /\ owner[x] = e
    BY DEF QueueOwned, Of
  <2>1. i + 1 \in 1 .. Len(timeouts) /\ Tail(timeouts)[i] = timeouts[i + 1]
    BY <1>2
  <2> QED
    BY <1>3, <2>1 DEF QueueOwned, Of
<1> QED
  BY <1>2, <1>3, <1>4, QueueTyped DEF QueueOwned, Split

LEMMA RerunOwned ==
  ASSUME NEW owner, Split(owner), MadeFor(owner, current'), Rerun
  PROVE  OriginalsArePristine' /\ Owned(owner)'
<1> DEFINE e == Head(timeouts).entry
           a == Head(timeouts).arg
<1>1. /\ current' = e /\ Bind({symVal[current'], scopeVal[current'], a})
      /\ symbolMap' = NoSymbols /\ copiedUnits' = NoSymbols
      /\ UNCHANGED <<language, symVal, scopeVal>> /\ pc' = "rerun"
      /\ timeouts # <<>> /\ timeouts' = Tail(timeouts)
  BY DEF Rerun
<1>2. /\ e \in EntryPoints /\ QueueOwned(owner)'
      /\ \A x \in {a, symVal[e], scopeVal[e]} : Of(owner, x, e)
  BY <1>1, TailOwned
<1> HIDE DEF e, a
<1>3. Bind({symVal[e], scopeVal[e], a})
  BY <1>1
<1>4. \A u \in Units : \A x \in {symbolMap'[u], copiedUnits'[u]} \ {Nothing} : Of(owner, x, e)
  BY <1>1 DEF NoSymbols
<1>5. OriginalsArePristine' /\ Authored(owner)' /\ HeldOwned(owner)' /\ TablesOwned(owner)'
  BY <1>1, <1>2, <1>3, <1>4, BindOwned
<1>6. EntriesOwned(owner)'
  BY <1>1 DEF Split, Owned, EntriesOwned, Of
<1>7. OpenedOwned(owner)'
  BY <1>1, <1>2 DEF OpenedOwned, Of
<1> QED
  BY <1>2, <1>5, <1>6, <1>7 DEF Owned

LEMMA LeaveOwned ==
  ASSUME NEW owner, Split(owner), Leave, QueueOwned(owner)'
  PROVE  OriginalsArePristine' /\ Owned(owner)'
<1>1. /\ UNCHANGED <<language, current, symVal, scopeVal, heap, symbolMap, copiedUnits>>
      /\ localSymbols' = NoSymbols /\ pc \in {"run", "rerun"}
      /\ held' \in {{symVal[current], scopeVal[current]}, {}}
  BY DEF Leave, Unbind
<1>2. OriginalsArePristine' /\ Authored(owner)'
  BY <1>1 DEF Split, Owned, OriginalsArePristine, Copying, Authored, Object
<1>3. HeldOwned(owner)' /\ OpenedOwned(owner)' /\ EntriesOwned(owner)'
  BY <1>1 DEF Split, Owned, HeldOwned, OpenedOwned, EntriesOwned, Of
<1>4. TablesOwned(owner)'
  BY <1>1 DEF Split, Owned, TablesOwned, NoSymbols, Of
<1> QED
  BY <1>2, <1>3, <1>4 DEF Owned

(* The language never changes, and the overlay is bound by attempts only. *)
LEMMA LanguageStays == [Next]_vars => language' = language
  BY DEF Next, Lookup, Create, SetMember, OpenNext, Reopen, Open, SkipEntryPoint, SkipOverloads,
         Attempt, Rerun, SkipRerun, Return, TimeOut, Leave, Throw, Close, RestoreSymbolTable,
         control, vars

LEMMA LayeredStep == Layered /\ [Next]_vars => Layered'
<1> SUFFICES ASSUME Layered, [Next]_vars PROVE Layered'
  OBVIOUS
<1>1. ASSUME NEW u \in Units, Lookup(u) PROVE Layered'
  BY <1>1 DEF Layered, Lookup, Found, CopyOnAccess, control
<1>2. ASSUME NEW u \in Units, NEW rooted \in BOOLEAN, Create(u, rooted) PROVE Layered'
  BY <1>2 DEF Layered, Create, Register, control
<1>3. ASSUME NEW x \in held, NEW y \in held, NEW f \in Fields, SetMember(x, f, y)
      PROVE  Layered'
  BY <1>3 DEF Layered, SetMember, Register, control
<1>4. CASE OpenNext \/ Reopen
  BY <1>4 DEF Layered, OpenNext, Reopen, Open
<1>5. CASE SkipEntryPoint \/ SkipOverloads \/ SkipRerun
  BY <1>5 DEF Layered, SkipEntryPoint, SkipOverloads, SkipRerun, memory
<1>6. CASE Attempt \/ Rerun
  BY <1>6 DEF Layered, Attempt, Rerun, Bind
<1>7. CASE Return \/ TimeOut
  BY <1>7 DEF Layered, Return, TimeOut, Leave, Unbind
<1>8. CASE Throw \/ Close
  BY <1>8 DEF Layered, Throw, Close, Unbind, RestoreSymbolTable
<1>9. CASE UNCHANGED vars
  BY <1>9 DEF Layered, vars, control, memory
<1> QED
  BY <1>1, <1>2, <1>3, <1>4, <1>5, <1>6, <1>7, <1>8, <1>9 DEF Next

(* Steps that only change the control or drop what is held. *)
LEMMA QuietOwned ==
  ASSUME NEW owner, Split(owner), QueueOwned(owner)', held' \subseteq held,
         UNCHANGED <<language, current, heap, symVal, scopeVal>>,
         pc' \in {pc, "next", "closed"},
         symbolMap' \in {symbolMap, NoSymbols}, copiedUnits' \in {copiedUnits, NoSymbols},
         localSymbols' \in {localSymbols, NoSymbols}
  PROVE  OriginalsArePristine' /\ Owned(owner)'
<1>1. OriginalsArePristine' /\ Authored(owner)'
  BY DEF Split, Owned, OriginalsArePristine, Copying, Authored, Object
<1>2. HeldOwned(owner)' /\ OpenedOwned(owner)' /\ EntriesOwned(owner)'
  BY DEF Split, Owned, HeldOwned, OpenedOwned, EntriesOwned, Of
<1>3. \A u \in Units : /\ symbolMap'[u] \in {symbolMap[u], Nothing}
                       /\ copiedUnits'[u] \in {copiedUnits[u], Nothing}
                       /\ localSymbols'[u] \in {localSymbols[u], Nothing}
  BY DEF NoSymbols
<1>4. TablesOwned(owner)'
  BY <1>3 DEF Split, Owned, TablesOwned, Nothing, Of
<1> QED
  BY <1>1, <1>2, <1>4 DEF Owned

LEMMA IsolatedStep == Isolated /\ [Next]_vars => Isolated'
<1> SUFFICES ASSUME Isolated, [Next]_vars PROVE Partitioned'
  BY SaneStep, LayeredStep DEF Isolated
<1>1. CASE ~Copying
  BY <1>1, LanguageStays DEF Partitioned, OriginalsArePristine, Copying
<1>2. CASE Copying
  <2>1. current' \in EntryPoints \cup {None}
    BY SaneStep DEF Isolated, Sane, TypeOK
  <2>2. PICK owner \in Owners : Owned(owner) /\ MadeFor(owner, current')
    BY <1>2, <2>1, OwnersExtend DEF Isolated, Partitioned, MadeFor
  <2>3. Split(owner)
    BY <1>2, <2>2 DEF Split, Isolated, Partitioned
  <2>4. QueueOwned(owner)
    BY <2>2 DEF Owned
  <2> SUFFICES OriginalsArePristine' /\ Owned(owner)'
    BY DEF Partitioned
  <2>5. ASSUME NEW u \in Units, Lookup(u) PROVE OriginalsArePristine' /\ Owned(owner)'
    BY <2>2, <2>3, <2>5, LookupOwned
  <2>6. ASSUME NEW u \in Units, NEW rooted \in BOOLEAN, Create(u, rooted)
        PROVE  OriginalsArePristine' /\ Owned(owner)'
    BY <2>2, <2>3, <2>6, CreateOwned
  <2>7. ASSUME NEW x \in held, NEW y \in held, NEW f \in Fields, SetMember(x, f, y)
        PROVE  OriginalsArePristine' /\ Owned(owner)'
    BY <2>3, <2>7, SetMemberOwned
  <2>8. CASE OpenNext
    <3>1. Head(todo) \in EntryPoints /\ pc = "next" /\ Open(Head(todo)) /\ current' = Head(todo)
      BY <2>8 DEF OpenNext, Open, Isolated, Sane, TypeOK
    <3> QED
      BY <2>2, <2>3, <3>1, OpenOwned
  <2>9. CASE Reopen
    <3>1. current \in EntryPoints /\ pc = "next" /\ Open(current) /\ current' = current
      BY <2>9 DEF Reopen, Open, Isolated, Sane, TypeOK
    <3> QED
      BY <2>2, <2>3, <3>1, OpenOwned
  <2>10. CASE SkipEntryPoint \/ SkipOverloads
    <3>1. /\ UNCHANGED <<language, current, heap, symVal, scopeVal, timeouts, held, symbolMap,
                         copiedUnits, localSymbols>>
          /\ pc' \in {pc, "next", "closed"}
      BY <2>10 DEF SkipEntryPoint, SkipOverloads, memory
    <3>2. QueueOwned(owner)'
      BY <2>4, <3>1 DEF QueueOwned, Of
    <3> QED
      BY <2>3, <3>1, <3>2, QuietOwned
  <2>11. CASE Attempt
    BY <2>2, <2>3, <2>11, AttemptOwned
  <2>12. CASE Rerun
    BY <2>2, <2>3, <2>12, RerunOwned
  <2>13. CASE SkipRerun
    <3>1. /\ UNCHANGED <<language, pc, current, heap, symVal, scopeVal, held, symbolMap,
                         copiedUnits, localSymbols>>
          /\ timeouts # <<>> /\ timeouts' = Tail(timeouts)
      BY <2>13 DEF SkipRerun, memory
    <3>2. QueueOwned(owner)'
      BY <2>3, <3>1, TailOwned
    <3> QED
      BY <2>3, <3>1, <3>2, QuietOwned
  <2>14. CASE Return
    <3>1. QueueOwned(owner)'
      BY <2>4, <2>14 DEF Return, Leave, QueueOwned, Of
    <3> QED
      BY <2>3, <2>14, <3>1, LeaveOwned DEF Return
  <2>15. CASE TimeOut
    <3>1. PICK arg \in held : timeouts' = Append(timeouts, [entry |-> current, arg |-> arg])
      BY <2>15 DEF TimeOut
    <3>2. UNCHANGED <<symVal, scopeVal>> /\ Leave /\ pc = "run"
      BY <2>15 DEF TimeOut, Leave
    <3>3. \A x \in {arg, symVal[current], scopeVal[current]} : Of(owner, x, current)
      BY <2>2, <3>2 DEF Owned, HeldOwned, OpenedOwned
    <3>4. timeouts \in Seq([entry : EntryPoints, arg : Object])
      BY DEF Isolated, Sane, TypeOK
    <3>5. /\ Len(timeouts') = Len(timeouts) + 1 /\ Len(timeouts) \in Nat
          /\ \A i \in 1 .. Len(timeouts) : timeouts'[i] = timeouts[i]
          /\ timeouts'[Len(timeouts) + 1].entry = current
          /\ timeouts'[Len(timeouts) + 1].arg = arg
      BY <3>1, <3>4
    <3>6. QueueOwned(owner)'
      <4> SUFFICES ASSUME NEW i \in 1 .. Len(timeouts')
                   PROVE  LET e == timeouts'[i].entry
                          IN \A x \in {timeouts'[i].arg, symVal[e], scopeVal[e]} :
                               x > Len(Scan) /\ owner[x] = e
        BY <3>2 DEF QueueOwned, Of
      <4>1. CASE i \in 1 .. Len(timeouts)
        BY <2>4, <3>5, <4>1 DEF QueueOwned, Of
      <4>2. CASE i = Len(timeouts) + 1
        BY <3>3, <3>5, <4>2 DEF Of
      <4> QED
        BY <3>5, <4>1, <4>2
    <3> QED
      BY <2>3, <3>2, <3>6, LeaveOwned
  <2>16. CASE Throw \/ Close
    <3>1. /\ UNCHANGED <<language, current, heap, symVal, scopeVal, timeouts>>
          /\ pc' = "closed" /\ held' = {} /\ symbolMap' = NoSymbols /\ copiedUnits' = NoSymbols
          /\ localSymbols' \in {localSymbols, NoSymbols}
      BY <2>16 DEF Throw, Close, RestoreSymbolTable, Unbind
    <3>2. QueueOwned(owner)'
      BY <2>4, <3>1 DEF QueueOwned, Of
    <3> QED
      BY <2>3, <3>1, <3>2, QuietOwned
  <2>17. CASE UNCHANGED vars
    <3>1. UNCHANGED <<language, pc, current, heap, symVal, scopeVal, timeouts, held, symbolMap,
                      copiedUnits, localSymbols>>
      BY <2>17 DEF vars, control, memory
    <3>2. QueueOwned(owner)'
      BY <2>4, <3>1 DEF QueueOwned, Of
    <3> QED
      BY <2>3, <3>1, <3>2, QuietOwned
  <2> QED
    BY <2>5, <2>6, <2>7, <2>8, <2>9, <2>10, <2>11, <2>12, <2>13, <2>14, <2>15, <2>16, <2>17
    DEF Next
<1> QED
  BY <1>1, <1>2

(* For any number of entry points, overloads and values, Java and Spring    *)
(* never change an object that preprocessing left: every copy that          *)
(* tmpTableCopyUnit (analyzer.ts:324) makes later starts from the same one. *)
THEOREM OriginalsStayPristine == Spec => []OriginalsArePristine
<1>1. Isolated => OriginalsArePristine
  BY DEF Isolated, Partitioned
<1> QED
  BY <1>1, IsolatedInit, IsolatedStep, PTL DEF Spec

(* In Java and Spring no attempt, first or rerun, gets hold of an object that *)
(* shows another entry point's writes: neither through the temporary table,   *)
(* nor the overlay, nor the symbol, scope and arguments it keeps.             *)
THEOREM WritesAreOwn == Spec => []OwnWritesOnly
<1>1. Isolated => OwnWritesOnly
  <2> SUFFICES ASSUME Isolated, Copying, NEW x \in held
               PROVE  heap[x].authors \subseteq {current} \X BOOLEAN
    BY DEF OwnWritesOnly
  <2>1. PICK owner \in Owners : Owned(owner)
    BY DEF Isolated, Partitioned
  <2>2. x \in Object /\ Of(owner, x, current)
    BY <2>1 DEF Owned, HeldOwned, Isolated, Sane, TypeOK
  <2> QED
    BY <2>1, <2>2 DEF Owned, Authored, Of
<1> QED
  BY <1>1, IsolatedInit, IsolatedStep, PTL DEF Spec

-----------------------------------------------------------------------------
(* The temporary table and its copies *)

(* copiedUnits never hands out a copy that the temporary table does not know, *)
(* whatever registers, deletes or copies again (analyzer.ts:324-415).         *)
THEOREM CopiesStayRegistered == Spec => []CopiesAreRegistered
<1>1. Init => CopiesAreRegistered
  BY DEF Init, CopiesAreRegistered, NoSymbols
<1>2. Sane /\ CopiesAreRegistered /\ [Next]_vars => CopiesAreRegistered'
  <2> SUFFICES ASSUME Sane, CopiesAreRegistered, [Next]_vars PROVE CopiesAreRegistered'
    OBVIOUS
  <2> USE DEF Nothing
  <2>1. /\ symbolMap \in [Units -> Nat] /\ copiedUnits \in [Units -> Nat]
        /\ Len(heap) \in Nat /\ \A x \in held : x \in Nat /\ x # 0
    BY DEF Sane, TypeOK, Table, Object
  <2>2. ASSUME NEW u \in Units, Lookup(u) PROVE CopiesAreRegistered'
    <3>1. CASE Found(u) \/ (symbolMap[u] = Nothing /\ copiedUnits[u] # Nothing)
      BY <2>2, <3>1 DEF Lookup, Found, CopyOnAccess, CopiesAreRegistered
    <3>2. CASE ~Found(u) /\ ~(symbolMap[u] = Nothing /\ copiedUnits[u] # Nothing)
      <4>1. /\ heap' = Append(heap, heap[Original[u]]) /\ u \in Scanned
            /\ symbolMap' = [symbolMap EXCEPT ![u] = Len(heap')]
            /\ copiedUnits' = [copiedUnits EXCEPT ![u] = Len(heap')]
        BY <2>2, <3>2 DEF Lookup, CopyOnAccess
      <4>2. Len(heap') # 0
        BY <4>1, OriginalIsScanned, ObjectsGrow DEF Sane, TypeOK
      <4> QED
        BY <2>1, <4>1, <4>2 DEF CopiesAreRegistered
    <3> QED
      BY <3>1, <3>2
  <2>3. ASSUME NEW u \in Units, NEW x, x # 0, Register(x, u), UNCHANGED copiedUnits
        PROVE  CopiesAreRegistered'
    BY <2>1, <2>3 DEF Register, CopiesAreRegistered
  <2>4. ASSUME NEW u \in Units, NEW rooted \in BOOLEAN, Create(u, rooted)
        PROVE  CopiesAreRegistered'
    <3>1. Len(heap') # 0
      BY <2>1, <2>4, AuthorTyped, ObjectsGrow DEF Create, Objects, Sane, TypeOK
    <3> QED
      BY <2>3, <2>4, <3>1 DEF Create
  <2>5. ASSUME NEW x \in held, NEW y \in held, NEW f \in Fields, SetMember(x, f, y)
        PROVE  CopiesAreRegistered'
    <3>1. heap[y].unit \in Units /\ y # 0
      BY <2>1, HeapTyped DEF Sane, TypeOK
    <3> QED
      BY <2>3, <2>5, <3>1 DEF SetMember
  <2>6. CASE OpenNext \/ Reopen
    BY <2>6 DEF OpenNext, Reopen, Open, OpenCopied, NoSymbols, CopiesAreRegistered
  <2>7. CASE Rerun \/ Throw \/ Close
    BY <2>7 DEF Rerun, Throw, Close, RestoreSymbolTable, NoSymbols, CopiesAreRegistered
  <2>8. CASE UNCHANGED <<symbolMap, copiedUnits>>
    BY <2>8 DEF CopiesAreRegistered
  <2> QED
    BY <2>2, <2>4, <2>5, <2>6, <2>7, <2>8
    DEF Next, SkipEntryPoint, SkipOverloads, SkipRerun, Attempt, Return, TimeOut, Leave,
        vars, memory
<1> QED
  BY <1>1, <1>2, SaneInit, SaneStep, PTL DEF Spec

(* While an overlay is bound nothing is registered in the temporary table but *)
(* copies of originals that get makes (analyzer-memory-overlay.ts:218-229).   *)
THEOREM BaseOnlyCopies == Spec => BaseGrowsByCopies
<1>1. ASSUME Sane, Layered, [Next]_vars, bound, bound', NEW u \in Units,
             symbolMap'[u] # symbolMap[u]
      PROVE  /\ u \in Scanned
             /\ symbolMap'[u] \notin Object
             /\ heap'[symbolMap'[u]] = heap[Original[u]]
  <2>1. pc \in {"run", "rerun"}
    BY <1>1 DEF Layered
  <2>2. PICK v \in Units : Lookup(v) /\ CopyOnAccess(v)
    BY <1>1, <2>1
    DEF Next, Lookup, Found, Create, SetMember, Register, OpenNext, Reopen, SkipEntryPoint,
        SkipOverloads, Attempt, Rerun, SkipRerun, Return, TimeOut, Leave, Unbind, Throw,
        Close, vars, memory
  <2>3. /\ symbolMap' = [symbolMap EXCEPT ![v] = Len(heap')]
        /\ heap' = Append(heap, heap[Original[v]]) /\ v \in Scanned
    BY <1>1, <2>2 DEF CopyOnAccess
  <2>4. u = v
    BY <1>1, <2>3 DEF Sane, TypeOK, Table
  <2>5. heap[Original[v]] \in Objects
    BY <1>1, <2>3, OriginalIsScanned DEF Sane, TypeOK
  <2>6. symbolMap'[u] = Len(heap') /\ Len(heap') = Len(heap) + 1
        /\ heap'[Len(heap) + 1] = heap[Original[v]]
    BY <1>1, <2>3, <2>4, <2>5, ObjectsGrow DEF Sane, TypeOK, Table
  <2> QED
    BY <1>1, <2>3, <2>4, <2>6 DEF Object, Sane, TypeOK
<1>2. Sane /\ Layered /\ [Next]_vars =>
        [bound /\ bound' => \A u \in Units : symbolMap'[u] # symbolMap[u] =>
           /\ u \in Scanned
           /\ symbolMap'[u] \notin Object
           /\ heap'[symbolMap'[u]] = heap[Original[u]]]_vars
  BY <1>1
<1>3. Isolated => Sane /\ Layered
  BY DEF Isolated
<1> QED
  BY <1>2, <1>3, IsolatedInit, IsolatedStep, PTL DEF Spec, BaseGrowsByCopies

-----------------------------------------------------------------------------
(* What a rerun reads through the temporary table *)

\* Only Java and Spring rerun, and a rerun registers in an overlay.
Fresh ==
  /\ pc = "rerun" \/ timeouts # <<>> => Copying
  /\ pc = "rerun" => bound
  /\ RerunReadsAfresh

(* Interpreting in a rerun keeps the temporary table free of older writes. *)
LEMMA FreshWhileInterpreting ==
  ASSUME Isolated, Fresh, [Next]_vars, pc = "rerun", UNCHANGED control
  PROVE  Fresh'
<1> USE DEF Nothing
<1>1. /\ Copying /\ Copying' /\ bound /\ pc' = "rerun" /\ current' = current
      /\ Author = <<current, TRUE>>
  BY DEF Fresh, Copying, control, Author
<1>2. /\ Sane /\ OriginalsArePristine /\ heap \in Seq(Objects) /\ Len(heap) \in Nat
      /\ symbolMap \in [Units -> Object \cup {0}]
  BY DEF Isolated, Partitioned, Sane, TypeOK, Table
<1>3. \A u \in Units : symbolMap[u] # 0 =>
        symbolMap[u] \in 1 .. Len(heap) /\ heap[symbolMap[u]].authors \subseteq {<<current, TRUE>>}
  BY <1>1, <1>2 DEF Fresh, RerunReadsAfresh, Object
<1> DEFINE Clean == bound' /\ \A u \in Units : symbolMap'[u] # 0 =>
                      heap'[symbolMap'[u]].authors \subseteq {<<current, TRUE>>}
<1>4. SUFFICES Clean
  BY <1>1 DEF Fresh, RerunReadsAfresh
<1>5. ASSUME NEW u \in Units, Lookup(u) PROVE Clean
  <2>1. CASE UNCHANGED <<heap, symbolMap>>
    BY <1>1, <1>3, <1>5, <2>1 DEF Lookup, Found, CopyOnAccess
  <2>2. CASE ~UNCHANGED <<heap, symbolMap>>
    <3>1. /\ heap' = Append(heap, heap[Original[u]]) /\ u \in Scanned
          /\ symbolMap' = [symbolMap EXCEPT ![u] = Len(heap')] /\ bound' = bound
      BY <1>5, <2>2 DEF Lookup, Found, CopyOnAccess
    <3>2. heap[Original[u]] \in Objects /\ heap[Original[u]].authors = {}
      <4>1. Original[u] \in 1 .. Len(Scan) /\ Scan \in Seq(Objects)
            /\ \A i \in DOMAIN Scan : Scan[i].authors = {}
        BY <3>1, OriginalIsScanned, MemoryAssumption
      <4> QED
        BY <1>1, <1>2, <4>1 DEF OriginalsArePristine
    <3>3. /\ Len(heap') = Len(heap) + 1 /\ heap'[Len(heap) + 1].authors = {}
          /\ \A i \in 1 .. Len(heap) : heap'[i] = heap[i]
      BY <1>2, <3>1, <3>2, ObjectsGrow
    <3>4. \A v \in Units : symbolMap'[v] = IF v = u THEN Len(heap) + 1 ELSE symbolMap[v]
      BY <1>2, <3>1, <3>3
    <3> QED
      BY <1>1, <1>3, <3>1, <3>3, <3>4
  <2> QED
    BY <2>1, <2>2
<1>6. ASSUME NEW u \in Units, NEW rooted \in BOOLEAN, Create(u, rooted) PROVE Clean
  <2> DEFINE o == [unit |-> u, rooted |-> rooted,
                   members |-> [f \in Fields |-> None], authors |-> {Author}]
  <2>1. o \in Objects /\ heap' = Append(heap, o)
    BY <1>2, <1>6, AuthorTyped DEF Create, Objects
  <2>2. symbolMap' = symbolMap /\ bound' = bound
    BY <1>1, <1>6 DEF Create, Register
  <2> HIDE DEF o
  <2>3. \A i \in 1 .. Len(heap) : heap'[i] = heap[i]
    BY <1>2, <2>1, ObjectsGrow
  <2> QED
    BY <1>1, <1>3, <2>2, <2>3
<1>7. ASSUME NEW x \in held, NEW y \in held, NEW f \in Fields, SetMember(x, f, y) PROVE Clean
  <2> DEFINE o == WithMember(heap[x], f, heap[y].unit, Author)
  <2>1. heap' = [heap EXCEPT ![x] = o] /\ symbolMap' = symbolMap /\ bound' = bound
    BY <1>1, <1>7 DEF SetMember, Register
  <2>2. o.authors = heap[x].authors \cup {<<current, TRUE>>}
    <3>1. x \in Object /\ y \in Object /\ heap[x] \in Objects /\ heap[y].unit \in Units
      BY <1>2, HeapTyped DEF Sane, TypeOK
    <3>2. Author \in Authors
      BY <1>2, <1>7, AuthorTyped DEF SetMember
    <3>3. o.authors = heap[x].authors \cup {Author}
      BY <3>1, <3>2, ObjectsAreSet
    <3> QED
      BY <1>1, <3>3
  <2> HIDE DEF o
  <2>3. \A i \in 1 .. Len(heap) : heap'[i] = IF i = x THEN o ELSE heap[i]
    BY <1>2, <2>1
  <2> QED
    BY <1>1, <1>3, <2>1, <2>2, <2>3
<1>8. CASE UNCHANGED memory
  BY <1>1, <1>3, <1>8 DEF memory
<1> QED
  BY <1>1, <1>5, <1>6, <1>7, <1>8
  DEF Next, OpenNext, Reopen, Open, SkipEntryPoint, SkipOverloads, Attempt, Rerun, SkipRerun,
      Return, TimeOut, Leave, Throw, Close, RestoreSymbolTable, control, vars

(* A rerun never reads, through the temporary table, what the attempt that    *)
(* timed out wrote: the table is cleared before it (java-analyzer.ts:3959).   *)
THEOREM RerunsReadAfresh == Spec => []RerunReadsAfresh
<1>1. Init => Fresh
  BY DEF Init, Fresh, RerunReadsAfresh
<1>2. Isolated /\ Fresh /\ [Next]_vars => Fresh'
  <2> SUFFICES ASSUME Isolated, Fresh, [Next]_vars PROVE Fresh'
    OBVIOUS
  <2>1. language' = language /\ timeouts \in Seq([entry : EntryPoints, arg : Object])
    BY LanguageStays DEF Isolated, Sane, TypeOK
  <2>2. CASE Rerun
    BY <2>1, <2>2 DEF Rerun, Bind, Fresh, RerunReadsAfresh, Copying, NoSymbols
  <2>3. CASE pc' # "rerun" /\ ~SkipRerun /\ ~TimeOut /\ timeouts' = timeouts
    BY <2>1, <2>3 DEF Fresh, RerunReadsAfresh, Copying
  <2>4. CASE TimeOut
    BY <2>1, <2>4 DEF TimeOut, Leave, Fresh, RerunReadsAfresh, Copying
  <2>5. CASE SkipRerun
    BY <2>1, <2>5 DEF SkipRerun, Fresh, RerunReadsAfresh, Copying
  <2>6. CASE pc = "rerun" /\ UNCHANGED control
    BY <2>6, FreshWhileInterpreting
  <2> QED
    BY <2>2, <2>3, <2>4, <2>5, <2>6
    DEF Next, Lookup, Create, SetMember, OpenNext, Reopen, Open, SkipEntryPoint, SkipOverloads,
        Attempt, Return, Leave, Throw, Close, RestoreSymbolTable, control, vars
<1>3. Fresh => RerunReadsAfresh
  BY DEF Fresh
<1> QED
  BY <1>1, <1>2, <1>3, IsolatedInit, IsolatedStep, PTL DEF Spec

-----------------------------------------------------------------------------
(* What an unwritten object shows *)

\* What a step may do to the heap: an object keeps its uuid and is as it was
\* unless it is signed; a new one is signed or a copy of an old one.
HeapStep ==
  /\ Len(heap) <= Len(heap')
  /\ \A x \in Object : heap'[x] = heap[x] \/ heap'[x].authors # {}
  /\ \A x \in Object' \ Object :
       heap'[x].authors # {} \/ \E y \in Object : heap'[x] = heap[y]

LEMMA AppendIsHeapStep ==
  ASSUME Sane, NEW o \in Objects, heap' = Append(heap, o),
         o.authors # {} \/ \E y \in Object : o = heap[y]
  PROVE  HeapStep
<1>1. /\ Len(heap') = Len(heap) + 1 /\ Len(heap) \in Nat
      /\ \A i \in Object : heap'[i] = heap[i]
      /\ heap'[Len(heap) + 1] = o
  BY ObjectsGrow DEF Sane, TypeOK, Object
<1>2. Object' \ Object = {Len(heap) + 1}
  BY <1>1 DEF Object
<1>3. Len(heap) <= Len(heap')
  BY <1>1
<1>4. heap'[Len(heap) + 1].authors # {} \/ \E y \in Object : heap'[Len(heap) + 1] = heap[y]
  BY <1>1
<1> QED
  BY <1>1, <1>2, <1>3, <1>4 DEF HeapStep

LEMMA SameHeapIsHeapStep ==
  ASSUME Sane, UNCHANGED heap
  PROVE  HeapStep
BY DEF Sane, TypeOK, Object, HeapStep

LEMMA OpenIsHeapStep ==
  ASSUME Sane, NEW e \in EntryPoints, Open(e)
  PROVE  HeapStep
<1>1. CASE Copying
  <2> DEFINE symbol == heap[symVal[e]]
             scope  == heap[scopeVal[e]]
  <2>1. /\ symVal[e] \in Object /\ scopeVal[e] \in Object
        /\ symbol \in Objects /\ scope \in Objects
    BY HeapTyped DEF Sane, TypeOK
  <2>2. \/ heap' = Append(heap, symbol)
        \/ heap' = Append(Append(heap, symbol), scope)
    BY <1>1 DEF Open, OpenCopied
  <2>3. CASE heap' = Append(heap, symbol)
    BY <2>1, <2>3, AppendIsHeapStep
  <2>4. CASE heap' = Append(Append(heap, symbol), scope)
    <3> HIDE DEF symbol, scope
    <3> DEFINE h == Append(heap, symbol)
    <3>1. /\ h \in Seq(Objects) /\ Len(h) = Len(heap) + 1 /\ Len(heap) \in Nat
          /\ \A i \in 1 .. Len(heap) : h[i] = heap[i]
          /\ h[Len(heap) + 1] = symbol
      BY <2>1, ObjectsGrow DEF Sane, TypeOK
    <3> HIDE DEF h
    <3>2. /\ Len(heap') = Len(h) + 1
          /\ \A i \in 1 .. Len(h) : heap'[i] = h[i]
          /\ heap'[Len(h) + 1] = scope
      BY <2>1, <2>4, <3>1, ObjectsGrow DEF h
    <3>3. Object' \ Object = {Len(heap) + 1, Len(heap) + 2}
      BY <3>1, <3>2 DEF Object
    <3>4. /\ \A i \in Object : heap'[i] = heap[i]
          /\ heap'[Len(heap) + 1] = symbol /\ heap'[Len(heap) + 2] = scope
      BY <3>1, <3>2 DEF Object
    <3> QED
      BY <2>1, <3>1, <3>2, <3>3, <3>4 DEF HeapStep, symbol, scope
  <2> QED
    BY <2>2, <2>3, <2>4
<1>2. CASE ~Copying
  BY <1>2, SameHeapIsHeapStep DEF Open
<1> QED
  BY <1>1, <1>2

LEMMA OriginalIsObject ==
  ASSUME Sane, NEW u \in Scanned
  PROVE  Original[u] \in Object /\ heap[Original[u]] \in Objects
<1>1. Original[u] \in Object
  BY OriginalIsScanned DEF Sane, TypeOK, Object
<1> QED
  BY <1>1, HeapTyped

LEMMA EveryStepIsHeapStep ==
  ASSUME Sane, [Next]_vars
  PROVE  HeapStep
<1>1. ASSUME NEW u \in Units, Lookup(u) PROVE HeapStep
  <2>1. CASE UNCHANGED heap
    BY <2>1, SameHeapIsHeapStep
  <2>2. CASE ~UNCHANGED heap
    <3>1. heap' = Append(heap, heap[Original[u]]) /\ u \in Scanned
      BY <1>1, <2>2 DEF Lookup, Found, CopyOnAccess
    <3> QED
      BY <3>1, OriginalIsObject, AppendIsHeapStep
  <2> QED
    BY <2>1, <2>2
<1>2. ASSUME NEW u \in Units, NEW rooted \in BOOLEAN, Create(u, rooted) PROVE HeapStep
  <2> DEFINE o == [unit |-> u, rooted |-> rooted, members |-> [f \in Fields |-> None],
                   authors |-> {Author}]
  <2>1. heap' = Append(heap, o) /\ Author \in Authors
    BY <1>2, AuthorTyped DEF Create
  <2>2. o \in Objects /\ o.authors # {}
    BY <2>1 DEF Objects
  <2> QED
    BY <2>1, <2>2, AppendIsHeapStep
<1>3. ASSUME NEW x \in held, NEW y \in held, NEW f \in Fields, SetMember(x, f, y) PROVE HeapStep
  <2>1. heap' = [heap EXCEPT ![x] = WithMember(heap[x], f, heap[y].unit, Author)]
    BY <1>3 DEF SetMember
  <2>2. /\ heap \in Seq(Objects) /\ x \in Object
        /\ DOMAIN heap = 1 .. Len(heap) /\ Len(heap) \in Nat
    BY DEF Sane, TypeOK
  <2>3. Author \in Authors /\ heap[x] \in Objects /\ heap[y].unit \in Units
    BY <1>3, <2>2, AuthorTyped, HeapTyped DEF SetMember, Sane, TypeOK
  <2>4. WithMember(heap[x], f, heap[y].unit, Author).authors # {}
    <3>1. Author \in WithMember(heap[x], f, heap[y].unit, Author).authors
      BY <2>3 DEF WithMember
    <3> QED
      BY <3>1
  <2>5. Len(heap') = Len(heap)
    BY <2>1, <2>2
  <2> QED
    BY <2>1, <2>2, <2>4, <2>5 DEF HeapStep, Object
<1>4. CASE OpenNext
  <2>1. Head(todo) \in EntryPoints
    BY <1>4 DEF OpenNext, Sane, TypeOK
  <2> QED
    BY <1>4, <2>1, OpenIsHeapStep DEF OpenNext
<1>5. CASE Reopen
  <2>1. current \in EntryPoints
    BY <1>5 DEF Reopen, Sane
  <2> QED
    BY <1>5, <2>1, OpenIsHeapStep DEF Reopen
<1>6. CASE Attempt \/ Rerun
  <2>1. heap' = Append(heap, heap[Original[PackageRoot]])
    BY <1>6 DEF Attempt, Rerun, Bind
  <2> QED
    BY <2>1, MemoryAssumption, OriginalIsObject, AppendIsHeapStep
<1>7. CASE SkipEntryPoint \/ SkipOverloads \/ SkipRerun \/ Return \/ TimeOut \/ Throw \/ Close
           \/ UNCHANGED vars
  <2>1. UNCHANGED heap
    BY <1>7 DEF SkipEntryPoint, SkipOverloads, SkipRerun, Return, TimeOut, Leave, Throw, Close,
                RestoreSymbolTable, memory, vars
  <2> QED
    BY <2>1, SameHeapIsHeapStep
<1> QED
  BY <1>1, <1>2, <1>3, <1>4, <1>5, <1>6, <1>7 DEF Next

(* Under any interleaving of attempts, copies and reruns, in every language,  *)
(* an object without a recorded author equals the object that preprocessing   *)
(* left under its uuid: with WritesAreOwn, what an attempt of Java or Spring  *)
(* reads is the result of preprocessing or its own entry point's work         *)
(* (analyzer.ts:288-350).                                                     *)
THEOREM UnwrittenShowsOriginal == Spec => []UnwrittenIsOriginal
<1>1. Init => UnwrittenIsOriginal
  <2> SUFFICES ASSUME Init, NEW x \in Object
               PROVE  heap[x].unit \in Scanned /\ heap[x] = Scan[Original[heap[x].unit]]
    BY DEF UnwrittenIsOriginal
  <2>1. heap = Scan /\ x \in DOMAIN Scan /\ DOMAIN Scan = 1 .. Len(Scan)
    BY MemoryAssumption DEF Init, Object
  <2>2. Scan[x].unit \in Scanned
    BY <2>1 DEF Scanned
  <2>3. Original[Scan[x].unit] = CHOOSE i \in DOMAIN Scan : Scan[i].unit = Scan[x].unit
    BY <2>2 DEF Original
  <2>4. Original[Scan[x].unit] = x
    <3>1. \A i, j \in DOMAIN Scan : Scan[i].unit = Scan[j].unit => i = j
      BY MemoryAssumption
    <3> QED
      BY <2>1, <2>3, <3>1
  <2> QED
    BY <2>1, <2>2, <2>4
<1>2. Sane /\ UnwrittenIsOriginal /\ [Next]_vars => UnwrittenIsOriginal'
  <2> SUFFICES ASSUME Sane, UnwrittenIsOriginal, [Next]_vars,
                      NEW x \in Object', heap'[x].authors = {}
               PROVE  /\ heap'[x].unit \in Scanned
                      /\ heap'[x] = Scan[Original[heap'[x].unit]]
    BY DEF UnwrittenIsOriginal
  <2>1. HeapStep
    BY EveryStepIsHeapStep
  <2>2. \E y \in Object : heap'[x] = heap[y]
    BY <2>1 DEF HeapStep
  <2> QED
    BY <2>2 DEF UnwrittenIsOriginal
<1> QED
  BY <1>1, <1>2, SaneInit, SaneStep, PTL DEF Spec
=============================================================================
