--------------------------- MODULE MCHttpService ---------------------------
(***************************************************************************)
(* HttpService for TLC: a query, a mutation, an invalid text and one that  *)
(* does not parse, and the requests worth telling apart.                   *)
(***************************************************************************)
EXTENDS HttpService, TLC

CONSTANTS query, mutation, invalid, broken, r1, r2, r3

Fine(v, t, a) == [via |-> v, body |-> "fine", query |-> t, apq |-> a,
                  op |-> TRUE, vars |-> TRUE, light |-> TRUE]

PlainShapes ==
    {Fine(v, t, "none") : v \in {"get", "post"}, t \in {query, mutation, invalid}}
    \cup {Fine("form", broken, "none")}
    \cup {[Fine("post", query, "none") EXCEPT !.op = FALSE],
          [Fine("post", query, "none") EXCEPT !.vars = FALSE],
          [Fine("form", query, "none") EXCEPT !.light = FALSE],
          [Fine("get", query, "none") EXCEPT !.body = "bad"],
          [Fine("form", query, "none") EXCEPT !.body = "bad"],
          [Fine("form", query, "none") EXCEPT !.body = "tooLarge"]}
    \cup {Fine(v, query, "none") : v \in {"options", "head", "none"}}

PersistedShapes ==
    {Fine("post", NoText, t) : t \in {query, mutation}}
    \cup {Fine("post", t, t) : t \in {query, mutation, invalid}}
    \cup {Fine("post", mutation, query), Fine("post", query, "malformed"),
          Fine("get", query, "none")}

AllShapes == PlainShapes \cup PersistedShapes

Symmetry == Permutations(Reqs)
=============================================================================
