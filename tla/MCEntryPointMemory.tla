-------------------------- MODULE MCEntryPointMemory -------------------------
(* Instances of EntryPointMemory for TLC. *)
EXTENDS EntryPointMemory

CONSTANTS method, class, packages, fresh, body, first, second

MCUnits == {method, class, packages, fresh}

Unlinked == [f \in {body} |-> None]

\* The class has a parent and refers to its method, the package root has none.
MCScan ==
  << [unit |-> method, rooted |-> TRUE, members |-> Unlinked, authors |-> {}],
     [unit |-> class, rooted |-> TRUE, members |-> [f \in {body} |-> method], authors |-> {}],
     [unit |-> packages, rooted |-> FALSE, members |-> Unlinked, authors |-> {}] >>

InOrder == <<first, second>>
TwoAndOne == [e \in {first, second} |-> IF e = first THEN 2 ELSE 1]
OneEach == [e \in {first, second} |-> 1]
Symbols == [e \in {first, second} |-> method]
Classes == [e \in {first, second} |-> class]
=============================================================================
