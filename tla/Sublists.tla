------------------------------ MODULE Sublists ------------------------------
(***************************************************************************)
(* What it means that a sequence is made of some elements of another, in   *)
(* its order, said by counting: the n-th of the one is at the n-th of the  *)
(* places chosen in the other.                                             *)
(***************************************************************************)
EXTENDS Naturals, Sequences, FiniteSets

\* How many of places come up to i.
Rank(places, i) == Cardinality({j \in places : j <= i})

\* part has what whole has at places, and nothing else, in the order of whole.
Follows(part, whole, places) ==
    /\ Len(part) = Cardinality(places)
    /\ \A i \in places : part[Rank(places, i)] = whole[i]

\* The part that does.
Sublist(whole, places) ==
    [n \in 1..Cardinality(places) |-> whole[CHOOSE i \in places : Rank(places, i) = n]]
=============================================================================
