--------------------------- MODULE SelectionTree ---------------------------
(***************************************************************************)
(* The positions of one response of generated code: fields and list        *)
(* elements, as a tree, with what may happen at each.  A list of scalars   *)
(* is a leaf.                                                              *)
(***************************************************************************)
EXTENDS Naturals

CONSTANTS
    Nodes,    \* positions
    Root,     \* the data of the response
    Parent,   \* the object or list a position is in
    Kind,     \* what is there if it is not null: an object, a list, a leaf
    NonNull,  \* positions declared with !
    Outcomes  \* what may happen at a position

Fields == {n \in Nodes \ {Root} : Kind[Parent[n]] = "object"}
Elements == {n \in Nodes \ {Root} : Kind[Parent[n]] = "list"}
KidsOf(n) == {k \in Nodes \ {Root} : Parent[k] = n}

\* ok: a value.  nil: no value.  typedNil: a nil pointer in an interface.
\* error: an error of the resolver, its middleware or its arguments.  reported:
\* an error that was added to the response before returning nothing, as a
\* directive of the query does.  panic: of a resolver, or of a value of no
\* type the interface has.
AllOutcomes == {"ok", "nil", "typedNil", "error", "reported", "panic"}

Failed(o) == o \notin {"ok", "none"}

\* The positions are a finite tree: of any of them some have none of the others below
\* them, and some none right above.
ASSUME SelectionAssumption ==
    /\ Root \in Nodes
    /\ Parent \in [Nodes \ {Root} -> Nodes]
    /\ Kind \in [Nodes -> {"object", "list", "leaf"}]
    /\ \A n \in Nodes \ {Root} : Kind[Parent[n]] # "leaf" /\ Parent[n] # n
    /\ \A S \in (SUBSET Nodes) \ {{}} :
          /\ \E n \in S : KidsOf(n) \cap S = {}
          /\ \E n \in S : n = Root \/ Parent[n] \notin S
    /\ NonNull \subseteq Nodes
    /\ Outcomes \in [Nodes -> SUBSET AllOutcomes]
    /\ Outcomes[Root] = {"ok"}
    /\ \A n \in Nodes : "typedNil" \in Outcomes[n] => Kind[n] = "object"
=============================================================================
