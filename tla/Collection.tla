----------------------------- MODULE Collection -----------------------------
(***************************************************************************)
(* The fields that an object's selection set has: CollectFields of         *)
(* graphql/executable_schema.go.  The generated code of an object calls it *)
(* with what it was given, and gives to the object of each field what was  *)
(* collected for that.  A selection is a field [kind, key, on, include,    *)
(* sub], an inline fragment [kind, type, include, sub] or a spread [kind,  *)
(* name, include]; "on" is the type the field is selected on, "include"    *)
(* what @skip and @include leave of it.                                    *)
(***************************************************************************)
EXTENDS Naturals, SequencesExt

CONSTANTS
    Fragments,  \* the fragments of the document: [type, sub]
    Selections, \* what is selected anywhere in the document
    Depth,      \* how deep that nests, through fragments too
    Operations, \* the selection sets of its operations
    Root,       \* the types of the object an operation starts with, its ...Implementors
    Results     \* those of the objects that the field with a key may have

VARIABLES
    satisfies,  \* the types of the object whose fields are executed
    selections, \* what its function was called with
    specified   \* what the GraphQL specification says is selected of it

collectionVars == <<satisfies, selections, specified>>

Body(s) == IF s.kind = "spread" THEN Fragments[s.name] ELSE s

\* Documents are finite and fragments have no cycles, which validation sees to; an
\* object's ...Implementors have itself.
ASSUME CollectionAssumption ==
    /\ Depth \in [Selections -> Nat]
    /\ Operations \subseteq Seq(Selections)
    /\ {} \notin {Root} \cup UNION Range(Results)
    /\ \A s \in Selections :
          /\ s.kind \in {"field", "inline", "spread"}
          /\ s.include \in BOOLEAN
          /\ s.kind = "spread" => s.name \in DOMAIN Fragments
          /\ s.kind = "field" => s.key \in DOMAIN Results
          /\ Body(s).sub \in Seq({t \in Selections : Depth[t] < Depth[s]})
---------------------------------------------------------------------------
Fields == {s \in Selections : s.kind = "field"}
CollectedField ==
    [key : {s.key : s \in Fields}, on : {s.on : s \in Fields}, selections : Seq(Selections)]

\* What the loop has so far: fields, and all fragments visited, also those whose type
\* did not apply.
Collections == [fields : Seq(CollectedField), visited : SUBSET DOMAIN Fragments]

\* getOrCreateAndAppendField
Same(f, g) == f.key = g.key /\ f.on = g.on

\* Mutation: fields of a fragment are put behind those that are there.
AppendAlways(fields, new, more) == Append(fields, [new EXCEPT !.selections = @ \o more])

GetOrAppend(fields, new, more) ==
    IF \E i \in DOMAIN fields : Same(fields[i], new)
    THEN LET i == CHOOSE i \in DOMAIN fields : Same(fields[i], new) IN
         [fields EXCEPT ![i].selections = @ \o more]
    ELSE Append(fields, [new EXCEPT !.selections = @ \o more])

Collected(s) == [key |-> s.key, on |-> s.on, selections |-> <<>>]

\* A field of a fragment brings its selections along and gets them appended, so it
\* has them twice when it is new.
Join(fields, children) ==
    LET join[n \in 0..Len(children)] ==
          IF n = 0 THEN fields
          ELSE GetOrAppend(join[n - 1], children[n], children[n].selections)
    IN  join[Len(children)]

\* One selection after another, each by collect.
CollectInto(set, visited, collect) ==
    LET steps == [n \in DOMAIN set |-> collect[set[n]]]
        loop[n \in 0..Len(set)] ==
          IF n = 0 THEN [fields |-> <<>>, visited |-> visited] ELSE steps[n][loop[n - 1]]
    IN  loop[Len(set)]

Visit(s, visited) == IF s.kind = "spread" THEN visited \cup {s.name} ELSE visited

\* What one selection adds to what the loop has.
Collect(types) ==
    LET collect[s \in Selections] == [c \in Collections |->
          IF ~s.include \/ (s.kind = "spread" /\ s.name \in c.visited) THEN c
          ELSE IF s.kind = "field" THEN [c EXCEPT !.fields = GetOrAppend(@, Collected(s), s.sub)]
          ELSE IF Body(s).type \notin types THEN [c EXCEPT !.visited = Visit(s, @)]
          ELSE LET inner == CollectInto(Body(s).sub, Visit(s, c.visited), collect)
               IN  [fields |-> Join(c.fields, inner.fields), visited |-> inner.visited]]
    IN  collect

CollectFields(set, types) == CollectInto(set, {}, Collect(types)).fields

---------------------------------------------------------------------------
(* What the GraphQL specification asks for *)

\* What g makes of the elements of seq, one behind the other.
FlatMap(seq, g) == FlattenSeq([n \in DOMAIN seq |-> g[seq[n]]])

\* Every field that is selected of an object of these types, once for each selection.
Flat(set, types) ==
    LET flat[s \in Selections] ==
          IF ~s.include THEN <<>>
          ELSE IF s.kind = "field" THEN <<[Collected(s) EXCEPT !.selections = s.sub]>>
          ELSE IF Body(s).type \in types THEN FlatMap(Body(s).sub, flat) ELSE <<>>
    IN  FlatMap(set, flat)

\* What is selected below those that are the same field as f.
Merged(fields, f) ==
    FlattenSeq([n \in DOMAIN fields |-> IF Same(fields[n], f) THEN fields[n].selections ELSE <<>>])
---------------------------------------------------------------------------
CollectionInit == satisfies = Root /\ selections \in Operations /\ specified = selections

\* The function of a field's object is called with what was collected for the field.
Descend ==
    \E f \in Range(CollectFields(selections, satisfies)) : \E types \in Results[f.key] :
        /\ satisfies' = types
        /\ selections' = f.selections
        /\ specified' = Merged(Flat(specified, satisfies), f)

CollectionSpec == CollectionInit /\ [][Descend]_collectionVars
---------------------------------------------------------------------------
(* Properties *)

CollectionTypeOK ==
    /\ satisfies = Root \/ satisfies \in UNION Range(Results)
    /\ selections \in Seq(Selections)
    /\ specified \in Seq(Selections)

Before(seq, x, y) == \E i \in DOMAIN seq : seq[i] = x /\ \A j \in 1..i : seq[j] # y

\* The same elements, first met in the same order.
SameOrder(q, r) ==
    /\ Range(q) = Range(r)
    /\ \A x, y \in Range(q) : Before(q, x, y) <=> Before(r, x, y)

Ids(fields) == [n \in DOMAIN fields |-> <<fields[n].key, fields[n].on>>]

\* Wherever an execution gets to, the fields that are collected are those the GraphQL
\* specification asks for, once each, in order, and with all that is selected below
\* them, for any nesting of fragments that are skipped, spread again or do not apply.
\* A key that is selected on the object and on an interface counts as two fields, and
\* each comes with what is selected below it (executable_schema.go:19-82, 99-110).
FieldsAsSpecified ==
    LET fields == CollectFields(selections, satisfies)
        flat == Flat(specified, satisfies)
    IN  /\ \A i, j \in DOMAIN fields : Same(fields[i], fields[j]) => i = j
        /\ SameOrder(Ids(fields), Ids(flat))
        /\ \A f \in Range(fields) : SameOrder(f.selections, Merged(flat, f))
=============================================================================
