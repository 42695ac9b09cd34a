---------------------------- MODULE MCOperation ----------------------------
(***************************************************************************)
(* An operation for TLC: extensions, files, documents and costs.           *)
(***************************************************************************)
EXTENDS Operation, TLC

MCHooks ==
    "limit" :> {"mutator"} @@ "auth" :> {"operation"}
    @@ "log" :> {"operation", "response"}
    @@ "apollo" :> {"response", "field"} @@ "debug" :> {"response"}
MCExts == DOMAIN MCHooks

MCMaps ==
    {"0" :> <<"a">> @@ "1" :> <<"b", "c">>, "0" :> <<"a", "b">> @@ "1" :> <<"b", "c">>,
     "0" :> <<"a", "b", "c">>, "0" :> <<>> @@ "1" :> <<"a">>}

UpTo(S, n) == UNION {[1..i -> S] : i \in 0..n}

\* Operations on a User, who is a Node; field x is a Node again.
Leaf(name, on) == [kind |-> "field", key |-> name, on |-> on, include |-> TRUE, sub |-> <<>>]
Inline(type, sub) == [kind |-> "inline", type |-> type, include |-> TRUE, sub |-> sub]
Spread(name) == [kind |-> "spread", name |-> name, include |-> TRUE]
Below == {<<Leaf("p", "Node"), Spread("G")>>,
          <<Inline("User", <<Leaf("q", "User")>>), Leaf("y", "Node"), Leaf("p", "Node")>>}
Deep(on) == {[Leaf("x", on) EXCEPT !.sub = sub] : sub \in Below}
Short(on) == CHOOSE s \in Deep(on) : Len(s.sub) = 2
Long(on) == CHOOSE s \in Deep(on) : Len(s.sub) = 3
MCFragments ==
    "F" :> [type |-> "User", sub |-> <<Short("User"), Spread("G")>>]
    @@ "G" :> [type |-> "Node", sub |-> <<Leaf("y", "Node"), Leaf("z", "Node")>>]
    @@ "H" :> [type |-> "Bot", sub |-> <<Leaf("z", "Bot")>>]
Bodies(on) == {<<Short(on)>>, <<Leaf("y", on), Long(on)>>, <<Spread("F"), Long(on)>>}
Shown ==
    Deep("Node") \cup {Leaf("y", "Node")} \cup {Spread(name) : name \in DOMAIN MCFragments}
    \cup UNION {{Inline(type, sub) : sub \in Bodies(type)} : type \in {"Node", "User", "Bot"}}
Hidden == {[s EXCEPT !.include = FALSE] : s \in Shown \ {Spread("H")}}
MCOperations == UpTo(Shown \cup Hidden, 2) \cup [1..3 -> Shown]
Types == {"Node", "User", "Bot"}
MCSelections ==
    Shown \cup Hidden \cup UNION {Deep(on) : on \in Types}
    \cup {Leaf(name, on) : name \in {"y", "z", "p", "q"}, on \in Types}
    \cup UNION {Range(sub) : sub \in Below}
RECURSIVE DepthOf(_)
DepthOf(s) == Max({0} \cup {DepthOf(t) + 1 : t \in Range(Body(s).sub)})
MCDepth == [s \in MCSelections |-> DepthOf(s)]
MCResults ==
    [k \in {"x", "y", "z", "p", "q"} |->
        IF k = "x" THEN {{"Node", "User"}, {"Node", "Bot"}} ELSE {}]

\* Costs of an int of four bits; some custom ones wrap, are less than what is below
\* them, or negative.
MCPossibleTypes == "Node" :> {"User", "Bot"}
MCCustom ==
    <<"User", "x">> :> [child \in Ints |-> Wrap(3 * child)] @@ <<"Bot", "x">> :> [child \in Ints |-> 4]
    @@ <<"User", "y">> :> [child \in Ints |-> -2]
Costly(on, name, sub) == [kind |-> "field", on |-> on, name |-> name, sub |-> sub]
Costs1 ==
    {Costly(on, name, <<>>) : on \in {"Node", "User", "Bot"}, name \in {"x", "y"}}
Costs2 ==
    Costs1
    \cup {Costly(on, "x", sub) : on \in {"Node", "User"}, sub \in UpTo(Costs1, 2)}
    \cup {Costly("Bot", "x", sub) : sub \in UpTo(Costs1, 1)}
    \cup {[kind |-> "fragment", sub |-> sub] : sub \in UpTo(Costs1, 1)}
MCSelectionSets == UpTo(Costs2, 2)
MCNesting ==
    [set \in MCSelectionSets |->
        IF set = <<>> THEN 0 ELSE IF \A i \in DOMAIN set : set[i].sub = <<>> THEN 1 ELSE 2]

\* What a part that stands still starts from makes no difference.
MCInit ==
    /\ moving \in {"responses", "uploads", "fields", "cost"}
    /\ IF moving = "uploads" THEN TRUE
       ELSE uploadsMap = "0" :> <<>> @@ "1" :> <<"a">> /\ large = FALSE
    /\ IF moving = "responses" THEN TRUE ELSE kind = "query" /\ once = TRUE
    /\ IF moving = "fields" THEN TRUE ELSE selections = <<>>
    /\ IF moving = "cost" THEN TRUE ELSE operation = <<>>
    /\ OperationInit
MCSpec ==
    /\ MCInit /\ [][OperationNext]_operationVars
    /\ WF_vars(Respond) /\ WF_vars(Close)
=============================================================================
