---------------------------- MODULE HttpService ----------------------------
(***************************************************************************)
(* Concurrent HTTP requests through graphql/handler/server.go, the http    *)
(* transports, the executor and the extensions it is given by default, and *)
(* a complexity limit.  Requests share the query cache and the cache of    *)
(* persisted queries, nothing else; each access to a cache is a step.      *)
(* What a request says is a record: the properties tell no more apart.     *)
(***************************************************************************)
EXTENDS FiniteSets, Naturals

CONSTANTS
    Reqs,      \* the requests that arrive
    Shapes,    \* what a request may be, see Shape
    Texts,     \* query strings
    Parsed,    \* those the parser accepts
    Valid,     \* those the validator accepts as well
    ReadOnly,  \* valid ones whose operation is a query, not a mutation
    QuerySize, \* the size of the query cache
    ApqSize,   \* the size of the cache of persisted queries
    Graceful   \* whether the error presenter accepts any error: the default
               \* one accepts only a gqlerror.Error

NoText == "noText"

\* via: the transport that supports the request, "none" if no one does.
\* body: whether its variables, extensions or body can be decoded, or exceed
\* the size set for multipart forms.
\* query: the text sent.  apq: "none", "malformed", or the text whose hash is
\* sent, a hash being as good as the text it is made from.  op: whether the
\* operation named is in the text.  vars: whether the variables fit.  light:
\* whether the complexity is within the limit.
Shape ==
    [via : {"get", "post", "form", "options", "head", "none"},
     body : {"fine", "bad", "tooLarge"},
     query : Texts \cup {NoText}, apq : Texts \cup {"none", "malformed"},
     op : BOOLEAN, vars : BOOLEAN, light : BOOLEAN]

ASSUME ShapesAssumption ==
    /\ Shapes \subseteq {s \in Shape : s.query = NoText => s.apq # "none"}
    /\ Texts \cap {NoText, "none", "malformed"} = {}
    /\ ReadOnly \subseteq Valid /\ Valid \subseteq Parsed /\ Parsed \subseteq Texts
    /\ QuerySize \in Nat \ {0} /\ ApqSize \in Nat \ {0}
    /\ Graceful \in BOOLEAN

VARIABLES
    pc,          \* where each request is
    shape,       \* what each request says
    text,        \* params.Query of each request, after the mutators
    answer,      \* the response of each request
    queryCache,  \* Executor.queryCache, a set of entries
    apqCache,    \* AutomaticPersistedQuery.Cache
    crashed      \* a panic got past every recover

vars == <<pc, shape, text, answer, queryCache, apqCache, crashed>>

Entry == [key : Texts, value : Texts]
Unasked == [via |-> "none", body |-> "fine", query |-> NoText, apq |-> "none",
            op |-> FALSE, vars |-> FALSE, light |-> FALSE]
Pending == [status |-> 0, body |-> "none"]
Answers == [status : {0, 200, 400, 405, 406, 422}, body : {"none", "data", "errors"}]
Pcs == {"idle", "mutate", "lookup", "parse", "check", "exec", "done"}

TypeOK ==
    /\ pc \in [Reqs -> Pcs]
    /\ shape \in [Reqs -> Shapes \cup {Unasked}]
    /\ text \in [Reqs -> Texts \cup {NoText}]
    /\ answer \in [Reqs -> Answers]
    /\ queryCache \subseteq Entry /\ apqCache \subseteq Entry
    /\ crashed \in BOOLEAN
    /\ \A r \in Reqs : pc[r] \notin {"idle", "done"} => shape[r] \in Shapes
    /\ \A r \in Reqs : pc[r] \in {"lookup", "parse", "check", "exec"} => text[r] \in Texts

Init ==
    /\ pc = [r \in Reqs |-> "idle"]
    /\ shape = [r \in Reqs |-> Unasked]
    /\ text = [r \in Reqs |-> NoText]
    /\ answer = [r \in Reqs |-> Pending]
    /\ queryCache = {} /\ apqCache = {} /\ crashed = FALSE

---------------------------------------------------------------------------
(* Caches and answers *)

\* What a cache of some size may be after adding an entry: the library evicts
\* the entry used least recently, here any other.
Added(cache, size, e) ==
    LET rest == {x \in cache : x.key # e.key}
    IN  IF Cardinality(rest) < size THEN {rest \cup {e}}
        ELSE {(rest \ {x}) \cup {e} : x \in rest}

Found(cache, k) == {x \in cache : x.key = k}

Reply(r, status, body) ==
    /\ pc' = [pc EXCEPT ![r] = "done"]
    /\ answer' = [answer EXCEPT ![r] = [status |-> status, body |-> body]]

Goto(r, l) == pc' = [pc EXCEPT ![r] = l] /\ answer' = answer

\* statusFor(): errors of the protocol kind are the client's fault.
StatusFor(kind) == IF kind = "protocol" THEN 422 ELSE 200

\* DispatchError and writeJson.
Refuse(r, kind) == Reply(r, StatusFor(kind), "errors")

\* The deferred recover of Handler() presents the recovered error; the default
\* presenter panics on it, and nothing recovers that.
Panic(r) ==
    IF Graceful THEN Reply(r, 422, "errors") /\ crashed' = crashed
    ELSE crashed' = TRUE /\ UNCHANGED <<pc, answer>>

---------------------------------------------------------------------------
(* One action per stretch of code between two accesses to a cache *)

\* Options.Do()
OptionsDo(r, s) == Reply(r, IF s.via = "head" THEN 405 ELSE 200, "none")

\* GET.Do() until it asks for the operation context.
GetDo(r, s) == IF s.body = "fine" THEN Goto(r, "mutate") ELSE Reply(r, 400, "errors")

\* POST.Do() until it asks for the operation context.
PostDo(r, s) == IF s.body = "fine" THEN Goto(r, "mutate") ELSE Reply(r, 400, "errors")

\* MultipartForm.Do() until it asks for the operation context.
FormDo(r, s) ==
    CASE s.body = "tooLarge" -> Reply(r, 200, "errors")
      [] s.body = "bad" -> Reply(r, 422, "errors")
      [] OTHER -> Goto(r, "mutate")

\* Handler(), getTransport() and the first part of Do().
Receive(r, s) ==
    /\ pc[r] = "idle"
    /\ shape' = [shape EXCEPT ![r] = s]
    /\ \/ s.via = "none" /\ Reply(r, 400, "errors")
       \/ s.via \in {"options", "head"} /\ OptionsDo(r, s)
       \/ s.via = "get" /\ GetDo(r, s)
       \/ s.via = "post" /\ PostDo(r, s)
       \/ s.via = "form" /\ FormDo(r, s)
    /\ UNCHANGED <<text, queryCache, apqCache, crashed>>

\* computeQueryHash(rawParams.Query) = extension.Sha256
Accepts(s) == s.apq = s.query

\* MutateOperationParameters() of automatic persisted queries.  The context
\* has no operation in it: CreateOperationContext discards the one it makes,
\* so the last statement panics whenever it is reached.
Mutate(r) ==
    LET s == shape[r] IN
    /\ pc[r] = "mutate"
    /\ \/ /\ s.apq = "none"
          /\ text' = [text EXCEPT ![r] = s.query]
          /\ Goto(r, "lookup") /\ UNCHANGED <<apqCache, crashed>>
       \/ /\ \/ s.apq = "malformed"
             \/ s.apq \in Texts /\ s.query = NoText /\ Found(apqCache, s.apq) = {}
             \/ s.apq \in Texts /\ s.query # NoText /\ ~Accepts(s)
          /\ Refuse(r, "user") /\ UNCHANGED <<text, apqCache, crashed>>
       \/ /\ s.apq \in Texts /\ s.query = NoText
          /\ \E e \in Found(apqCache, s.apq) : text' = [text EXCEPT ![r] = e.value]
          /\ Panic(r) /\ UNCHANGED apqCache
       \/ /\ s.apq \in Texts /\ s.query # NoText /\ Accepts(s)
          /\ apqCache' \in Added(apqCache, ApqSize, [key |-> s.apq, value |-> s.query])
          /\ Panic(r) /\ UNCHANGED text
    /\ UNCHANGED <<shape, queryCache>>

\* parseQuery(): the query cache is asked.
Lookup(r) ==
    /\ pc[r] = "lookup"
    /\ IF Found(queryCache, text[r]) = {} THEN Goto(r, "parse") ELSE Goto(r, "check")
    /\ UNCHANGED <<shape, text, queryCache, apqCache, crashed>>

\* Mutation: what parses is cached, and then validated.
CachedBeforeValidation(t) == t \in Parsed

\* The condition under which parseQuery() reaches queryCache.Add.
Cached(t) == t \in Parsed /\ t \in Valid

\* parseQuery() after a miss: parse, validate, add.
Parse(r) ==
    /\ pc[r] = "parse"
    /\ IF Cached(text[r])
       THEN queryCache' \in Added(queryCache, QuerySize, [key |-> text[r], value |-> text[r]])
       ELSE UNCHANGED queryCache
    /\ IF text[r] \in Valid THEN Goto(r, "check") ELSE Refuse(r, "protocol")
    /\ UNCHANGED <<shape, text, apqCache, crashed>>

\* Mutation: a GET may run a mutation.
AllowedAnything(s, t) == TRUE

\* GET.Do() runs nothing but queries.
Allowed(s, t) == s.via # "get" \/ t \in ReadOnly

\* The rest of CreateOperationContext, MutateOperationContext() of the
\* complexity limit, and the check of GET.
Check(r) ==
    LET s == shape[r] IN
    /\ pc[r] = "check"
    /\ CASE ~s.op -> Refuse(r, "user")
         [] s.op /\ ~s.vars -> Refuse(r, "protocol")
         [] s.op /\ s.vars /\ ~s.light -> Refuse(r, "user")
         [] s.op /\ s.vars /\ s.light /\ ~Allowed(s, text[r]) -> Reply(r, 406, "errors")
         [] OTHER -> Goto(r, "exec")
    /\ UNCHANGED <<shape, text, queryCache, apqCache, crashed>>

\* DispatchOperation and the first response; a panic of middleware or of the
\* marshalling of the response reaches Handler().
Exec(r) ==
    /\ pc[r] = "exec"
    /\ \/ Reply(r, 200, "data") /\ crashed' = crashed
       \/ Panic(r)
    /\ UNCHANGED <<shape, text, queryCache, apqCache>>

Next ==
    /\ ~crashed
    /\ \E r \in Reqs :
          \/ \E s \in Shapes : Receive(r, s)
          \/ Mutate(r) \/ Lookup(r) \/ Parse(r) \/ Check(r) \/ Exec(r)

Spec == Init /\ [][Next]_vars

---------------------------------------------------------------------------
(* Properties *)

\* Nothing reaches the resolvers that was not validated, whatever path it took
\* through the caches, nor a mutation by GET (executor.go:40-87, http_get.go:63).
OnlyValidatedRuns ==
    \A r \in Reqs : pc[r] = "exec" =>
        /\ text[r] \in Valid
        /\ shape[r].via = "get" => text[r] \in ReadOnly

\* The request leaves its text to the cache of persisted queries.
ByHash(s) == s.apq \in Texts /\ s.query = NoText

\* The caches cannot be observed, but by asking for a text by its hash: two
\* requests that say the same and do not panic when they run are answered
\* alike, in whatever order they ran and whatever others cached or evicted
\* (executor.go:161-191, apq.go:54-97).
SameRequestSameAnswer ==
    \A r, q \in Reqs :
        /\ pc[r] = "done" /\ pc[q] = "done"
        /\ shape[r] = shape[q] /\ ~ByHash(shape[r])
        => \/ answer[r] = answer[q]
           \/ \E p \in {r, q} : shape[p].op /\ shape[p].vars /\ shape[p].light
                                /\ text[p] \in Valid /\ answer[p].status = 422

\* A panic ends in a message to the user (docs/content/reference/errors.md).
PanicsAreGraceful == ~crashed
=============================================================================
