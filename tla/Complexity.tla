----------------------------- MODULE Complexity -----------------------------
(***************************************************************************)
(* The complexity of an operation (complexity/complexity.go), in the       *)
(* integers of the machine.  A field is [kind, on, name, sub], a fragment, *)
(* inline or spread, is [kind, sub]; sub is a sequence of both.            *)
(***************************************************************************)
EXTENDS Integers, SequencesExt

CONSTANTS
    MaxInt,        \* maxInt
    PossibleTypes, \* the objects of each interface, as GetPossibleTypes
    Custom,        \* es.Complexity of some <<object, field>>: from the children's to its own
    SelectionSets, \* what an operation may select, and what is selected below that
    Nesting        \* how deep each of them is

VARIABLE operation \* the selection set whose complexity is asked for

Ints == -(MaxInt + 1)..MaxInt

\* Documents are finite, and one selection may always be left out.
ASSUME ComplexityAssumption ==
    /\ MaxInt \in Nat \ {0}
    /\ \A f \in Range(Custom) : f \in [Ints -> Ints]
    /\ {} \notin Range(PossibleTypes)
    /\ Nesting \in [SelectionSets -> Nat]
    /\ \A set \in SelectionSets :
          /\ set \in Seq(Range(set))
          /\ \A i \in DOMAIN set :
                /\ set[i].sub \in SelectionSets /\ Nesting[set[i].sub] < Nesting[set]
                /\ RemoveAt(set, i) \in SelectionSets

\* Arithmetic of int.
Wrap(n) == ((n + MaxInt + 1) % (2 * (MaxInt + 1))) - (MaxInt + 1)

\* Mutation: a sum may wrap.
PlainAdd(a, b) == Wrap(a + b)

SafeAdd(a, b) ==
    CASE a < 0 /\ b < 0 -> 1
      [] a < 0 /\ b >= 0 -> b
      [] b < 0 /\ a >= 0 -> a
      [] OTHER -> IF Wrap(a + b) < a THEN MaxInt ELSE Wrap(a + b)

\* Mutation: a custom complexity may be less than that of the children.
IsTrusted(object, field, child) == <<object, field>> \in DOMAIN Custom

IsCustom(object, field, child) ==
    <<object, field>> \in DOMAIN Custom /\ Custom[<<object, field>>][child] >= child

FieldComplexity(object, field, child) ==
    IF IsCustom(object, field, child) THEN Custom[<<object, field>>][child] ELSE SafeAdd(1, child)

InterfaceFieldComplexity(interface, field, child) ==
    LET costs == {FieldComplexity(t, field, child) : t \in PossibleTypes[interface]} \cup {0}
    IN  CHOOSE c \in costs : \A d \in costs : c >= d

SelectionComplexity(s, child) ==
    IF s.kind = "fragment" THEN child
    ELSE IF s.on \in DOMAIN PossibleTypes
    THEN InterfaceFieldComplexity(s.on, s.name, child)
    ELSE FieldComplexity(s.on, s.name, child)

\* The loop over the selections.
Total(costs) ==
    LET sum[n \in 0..Len(costs)] == IF n = 0 THEN 0 ELSE SafeAdd(sum[n - 1], costs[n])
    IN  sum[Len(costs)]

SelectionSetComplexity[set \in SelectionSets] ==
    Total([i \in DOMAIN set |-> SelectionComplexity(set[i], SelectionSetComplexity[set[i].sub])])

\* Calculate has no state: a behaviour is the question alone.
ComplexityInit == operation \in SelectionSets
---------------------------------------------------------------------------
(* Properties *)

\* Taking a selection away from a selection set of an operation never raises its cost,
\* and it costs no less than any set right below it.  So no sum ever wraps, and no
\* custom complexity hides what is below it, at any depth
\* (complexity.go:23-52, 68-74, 87-104).
CostsGrow ==
    /\ SelectionSetComplexity[operation] \in 0..MaxInt
    /\ \A i \in DOMAIN operation :
        /\ SelectionSetComplexity[RemoveAt(operation, i)] <= SelectionSetComplexity[operation]
        /\ SelectionSetComplexity[operation[i].sub] <= SelectionSetComplexity[operation]
=============================================================================
