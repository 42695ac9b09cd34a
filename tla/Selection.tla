------------------------------ MODULE Selection ------------------------------
(***************************************************************************)
(* What a response promises, whatever its execution: every reachable       *)
(* position is resolved, in any order, and then the answer follows from    *)
(* the outcomes alone.  A null climbs from a field that must not be null   *)
(* to its object, and every cause of a null is one error.                  *)
(***************************************************************************)
EXTENDS SelectionTree

VARIABLES
    outcome,  \* what happened at each position, "none" before
    answer    \* the response, if any: the positions that are null, the errors of each

\* What is null, of what was resolved.
Null[n \in Nodes] ==
    \/ Failed(outcome[n])
    \/ Kind[n] = "object" /\ \E k \in KidsOf(n) : k \in NonNull /\ Null[k]

Nulls == {n \in Nodes : outcome[n] # "none" /\ Null[n]}

\* A nil pointer in an interface is the one cause without an error.
Errors ==
    [n \in Nodes |->
        IF outcome[n] \in {"error", "reported", "panic"}
           \/ (outcome[n] = "nil" /\ n \in NonNull) THEN 1 ELSE 0]

Reachable(n) == n = Root \/ outcome[Parent[n]] = "ok"

Init == outcome = [n \in Nodes |-> "none"] /\ answer = {}

Resolve(n) ==
    /\ outcome[n] = "none" /\ Reachable(n)
    /\ \E o \in Outcomes[n] : outcome' = [outcome EXCEPT ![n] = o]
    /\ UNCHANGED answer

Answer ==
    /\ answer = {}
    /\ \A n \in Nodes : outcome[n] = "none" => ~Reachable(n)
    /\ answer' = {[nulls |-> Nulls, errors |-> Errors]}
    /\ UNCHANGED outcome

Spec == Init /\ [][Answer \/ \E n \in Nodes : Resolve(n)]_<<outcome, answer>>
=============================================================================
