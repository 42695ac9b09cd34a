----------------------------- MODULE Responses -----------------------------
(***************************************************************************)
(* One operation between the transport and the generated code: the         *)
(* extensions a server uses (graphql/executor/extensions.go), the dispatch *)
(* of the operation and of errors (executor.go), the handler the generated *)
(* Exec returns (codegen/generated!.gotpl), and the tracers among the      *)
(* extensions.  The transport asks the handler for responses until it gets *)
(* none, as websocket.go does, or once, as the http transports do.         *)
(***************************************************************************)
EXTENDS Naturals, Sequences, SequencesExt, Sublists

CONSTANTS
    Exts,      \* the extensions there are
    Hooks,     \* the hooks each implements
    Tracers,   \* those that register "tracing", as apollotracing does
    Lookers,   \* those that look into the response, as the debug tracer does
    MaxExts,   \* how many a server uses
    Selected,  \* the root fields of the operation
    MaxEvents  \* how many events a subscription may have

ASSUME ResponsesAssumption ==
    /\ Hooks \in [Exts -> SUBSET {"operation", "response", "field", "mutator"}]
    /\ Tracers \cup Lookers \subseteq {e \in Exts : "response" \in Hooks[e]}
    /\ MaxExts \in Nat /\ MaxEvents \in Nat

Kinds == {"query", "mutation", "subscription", "unsupported", "invalid"}

VARIABLES
    exts,      \* Executor.extensions
    kind,      \* the operation; "invalid" is refused before it is dispatched
    once,      \* whether the transport asks for one response only
    pc,        \* where the call of the transport is
    handler,   \* what the operation middleware returned
    entered,   \* the interceptors the current call went into
    context,   \* the response context of the current response
    dispatch,  \* errors of the response context of Exec
    first,     \* first of Exec, or oneshot of OneShot, is still set
    done,      \* root fields executed for the current response
    raised,    \* errors that resolvers, or the dispatch, raised for it
    stream,    \* the channel of a subscription
    closed,    \* it is closed
    events,    \* how many events were ever sent to it
    buf,       \* the buffer whose bytes every Response.Data of a stream is
    delivered  \* the responses the transport wrote

chain == <<exts, kind, once>>
call == <<pc, handler, entered, context, dispatch, first, done, raised, buf>>
resolver == <<stream, closed, events>>
vars == <<chain, call, resolver, delivered>>

Fresh == [errors |-> 0, tracing |-> FALSE, traced |-> {}]
Contexts == [errors : Nat, tracing : BOOLEAN, traced : SUBSET Selected]

\* setup: Use() is still called.  dispatch: in the operation middleware.  ready:
\* the transport may call the handler.  in: the response middleware is called.
\* run: the fields of a query or mutation.  out, none: a response, or nil, comes
\* back through the middleware.  over: the transport is done.
Pcs == {"setup", "dispatch", "ready", "in", "run", "out", "none", "over", "panicked"}
Handlers == {"none", "refusal", "failure", "wrapped"}
Answer == [data : Seq(1..MaxEvents) \cup {"fields", "null"}, errors : Nat,
           tracing : BOOLEAN, traced : SUBSET Selected,
           through : Seq(Exts), raised : Nat, by : Handlers]

TypeOK ==
    /\ exts \in Seq(Exts) /\ Len(exts) <= MaxExts
    /\ kind \in Kinds /\ once \in BOOLEAN
    /\ pc \in Pcs /\ handler \in Handlers
    /\ entered \in Seq(Exts)
    /\ context \in Contexts /\ dispatch \in Nat
    /\ first \in BOOLEAN /\ done \subseteq Selected /\ raised \in Nat
    /\ stream \in Seq(1..MaxEvents) /\ closed \in BOOLEAN /\ events \in 0..MaxEvents
    /\ buf \in Seq(1..MaxEvents)
    /\ delivered \in Seq(Answer)
    /\ pc = "run" => kind \in {"query", "mutation"} /\ ~first

Init ==
    /\ exts = <<>> /\ kind \in Kinds /\ once \in BOOLEAN
    /\ pc = "setup" /\ handler = "none" /\ entered = <<>>
    /\ context = Fresh /\ dispatch = 0
    /\ first = TRUE /\ done = {} /\ raised = 0
    /\ stream = <<>> /\ closed = FALSE /\ events = 0 /\ buf = <<>>
    /\ delivered = <<>>

---------------------------------------------------------------------------
(* The middleware of processExtensions() *)

Implements(e, hook) == hook \in Hooks[e]

\* Mutation: the loop goes forwards, so the first extension is innermost.
MiddlewareForwards(hook) == Reverse(SelectSeq(exts, LAMBDA e : Implements(e, hook)))

\* The loop goes backwards and wraps what it has, the previous middleware: wrapped[i]
\* is the middleware when it has come to i.
Middleware(hook) ==
    LET wrapped[i \in 1..Len(exts) + 1] ==
            IF i > Len(exts) THEN <<>>
            ELSE IF Implements(exts[i], hook) THEN <<exts[i]>> \o wrapped[i + 1]
            ELSE wrapped[i + 1]
    IN  wrapped[1]

\* The next interceptor the call goes into.
NextIn(hook) == Middleware(hook)[Len(entered) + 1]
AllEntered(hook) == Len(entered) = Len(Middleware(hook))

\* Executor.Use()
Use(e) ==
    /\ pc = "setup" /\ Len(exts) < MaxExts /\ Hooks[e] # {}
    /\ exts' = Append(exts, e)
    /\ UNCHANGED <<kind, once, call, resolver, delivered>>

---------------------------------------------------------------------------
(* Dispatch *)

\* An operation that CreateOperationContext refuses goes to DispatchError,
\* where the response middleware is called at once.
Begin ==
    /\ pc = "setup"
    /\ IF kind = "invalid"
       THEN /\ pc' = "in" /\ handler' = "wrapped" /\ raised' = 1
            /\ context' = [Fresh EXCEPT !.errors = 1]
       ELSE pc' = "dispatch" /\ UNCHANGED <<handler, raised, context>>
    /\ UNCHANGED <<chain, entered, dispatch, first, done, buf, resolver, delivered>>

\* An operation interceptor calls next, or answers itself.
InterceptOperation ==
    /\ pc = "dispatch" /\ ~AllEntered("operation")
    /\ \/ entered' = Append(entered, NextIn("operation")) /\ UNCHANGED <<pc, handler, raised>>
       \/ pc' = "ready" /\ handler' = "refusal" /\ raised' = 1 /\ entered' = <<>>
    /\ UNCHANGED <<chain, context, dispatch, first, done, buf, resolver, delivered>>

\* Mutation: Exec's errors are not looked at.
FailedNever(errors) == FALSE

\* GetErrors(tmpResponseContext) != nil
Failed(errors) == errors > 0

\* The innermost handler: Exec, which calls the resolver of a subscription.
Exec ==
    /\ pc = "dispatch" /\ AllEntered("operation")
    /\ dispatch' \in IF kind = "subscription" THEN {0, 1} ELSE {0}
    /\ closed' = (dispatch' > 0)
    /\ handler' = IF Failed(dispatch') THEN "failure" ELSE "wrapped"
    /\ raised' = dispatch' /\ pc' = "ready" /\ entered' = <<>>
    /\ UNCHANGED <<chain, context, first, done, buf, stream, events, delivered>>

---------------------------------------------------------------------------
(* Responses *)

\* The transport calls the handler.  That of OneShot does not go through the
\* response middleware; any other gets a response context of its own.
Call ==
    /\ pc = "ready"
    /\ IF handler = "wrapped"
       THEN /\ pc' = "in" /\ context' = Fresh
            /\ raised' = 0 /\ UNCHANGED first
       ELSE /\ pc' = IF first THEN "out" ELSE "none"
            /\ context' = [Fresh EXCEPT !.errors = raised]
            /\ first' = FALSE /\ UNCHANGED raised
    /\ UNCHANGED <<chain, handler, entered, dispatch, done, buf, resolver, delivered>>

\* A response interceptor calls next, after a tracer has registered its
\* extension; a key that is registered already makes it panic.
InterceptResponse ==
    /\ pc = "in" /\ ~AllEntered("response")
    /\ LET e == NextIn("response") IN
       IF e \in Tracers /\ context.tracing
       THEN pc' = "panicked" /\ UNCHANGED <<entered, context>>
       ELSE /\ entered' = Append(entered, e)
            /\ context' = [context EXCEPT !.tracing = @ \/ e \in Tracers]
            /\ UNCHANGED pc
    /\ UNCHANGED <<chain, handler, dispatch, first, done, raised, buf, resolver, delivered>>

\* Mutation: the closure of Exec does not clear first.
FirstStays == TRUE

FirstAfter == FALSE

\* The innermost handler of a query or mutation: nil after the first time.  What
\* is not dispatched has its one response at once.
Execute ==
    /\ pc = "in" /\ AllEntered("response") /\ kind # "subscription"
    /\ IF kind = "invalid" THEN pc' = "out" /\ UNCHANGED <<first, done, context, raised>>
       ELSE IF ~first THEN pc' = "none" /\ UNCHANGED <<first, done, context, raised>>
       ELSE IF kind = "unsupported"
       THEN /\ pc' = "out" /\ first' = FALSE /\ UNCHANGED done
            /\ context' = [context EXCEPT !.errors = 1] /\ raised' = 1
       ELSE pc' = "run" /\ first' = FirstAfter /\ done' = {} /\ UNCHANGED <<context, raised>>
    /\ UNCHANGED <<chain, handler, entered, dispatch, buf, resolver, delivered>>

\* Mutation: the list of resolvers is replaced.
TracedLast(f) == IF context.tracing THEN {f} ELSE {}

\* What a tracer has listed after f: its field interceptor finds the extension
\* that its response interceptor registered in the same context.
Traced(f) == IF context.tracing THEN context.traced \cup {f} ELSE {}

\* The resolver of a root field, with the field middleware around it; fields
\* finish in any order and add to the context under its mutexes.
RunField(f) ==
    /\ pc = "run" /\ f \notin done
    /\ done' = done \cup {f}
    /\ \E n \in {0, 1} :
          /\ raised' = raised + n
          /\ context' = [context EXCEPT !.errors = @ + n, !.traced = Traced(f)]
    /\ UNCHANGED <<chain, pc, handler, entered, dispatch, first, buf, resolver, delivered>>

\* data.MarshalGQL(&buf), once all fields are done.
Marshal ==
    /\ pc = "run" /\ done = Selected
    /\ pc' = "out"
    /\ UNCHANGED <<chain, handler, entered, context, dispatch, first, done, raised, buf>>
    /\ UNCHANGED <<resolver, delivered>>

\* Mutation: the buffer keeps the event before.
NotReset == buf

\* buf.Reset()
Reset == <<>>

\* The innermost handler of a subscription waits for its channel.  The fields of
\* an event run in the context of the dispatch: what they raise goes there.
NextEvent ==
    /\ pc = "in" /\ AllEntered("response") /\ kind = "subscription"
    /\ \/ /\ stream # <<>>
          /\ buf' = Append(Reset, Head(stream))
          /\ stream' = Tail(stream) /\ pc' = "out"
          /\ dispatch' \in {dispatch, dispatch + 1}
       \/ /\ stream = <<>> /\ closed
          /\ buf' = Reset /\ pc' = "none" /\ UNCHANGED <<stream, dispatch>>
    /\ UNCHANGED <<chain, handler, entered, context, first, done, raised>>
    /\ UNCHANGED <<closed, events, delivered>>

\* Data of the response the handler made.
Data == CASE kind = "subscription" /\ handler = "wrapped" -> buf
          [] kind \in {"query", "mutation"} /\ handler = "wrapped" -> "fields"
          [] OTHER -> "null"

\* Mutation: GetErrors of the wrong context.
ErrorsOfDispatch == dispatch

ErrorsOf == context.errors

\* Back through the middleware, which is a step as interceptors only look; the
\* transport writes the response before it calls the handler again.
Deliver ==
    /\ pc = "out"
    /\ delivered' = Append(delivered,
            [data |-> Data, errors |-> ErrorsOf, tracing |-> context.tracing,
             traced |-> context.traced, through |-> entered, raised |-> raised,
             by |-> handler])
    /\ pc' = IF once \/ kind = "invalid" THEN "over" ELSE "ready"
    /\ entered' = <<>>
    /\ UNCHANGED <<chain, handler, context, dispatch, first, done, raised, buf, resolver>>

\* nil comes back through the middleware.
Finish ==
    /\ pc = "none"
    /\ pc' = IF \E i \in DOMAIN entered : entered[i] \in Lookers THEN "panicked" ELSE "over"
    /\ UNCHANGED <<chain, handler, entered, context, dispatch, first, done, raised, buf>>
    /\ UNCHANGED <<resolver, delivered>>

\* External: the resolver of a subscription.
Produce ==
    /\ handler = "wrapped" /\ kind = "subscription" /\ ~closed /\ events < MaxEvents
    /\ events' = events + 1 /\ stream' = Append(stream, events')
    /\ UNCHANGED <<chain, call, closed, delivered>>

Close ==
    /\ handler = "wrapped" /\ kind = "subscription" /\ ~closed
    /\ closed' = TRUE
    /\ UNCHANGED <<chain, call, stream, events, delivered>>

Respond ==
    \/ Begin \/ InterceptOperation \/ Exec \/ Call \/ InterceptResponse \/ Execute
    \/ (\E f \in Selected : RunField(f)) \/ Marshal \/ NextEvent \/ Deliver \/ Finish

Next == (\E e \in Exts : Use(e)) \/ Respond \/ Produce \/ Close

Spec == Init /\ [][Next]_vars

\* The goroutine of the operation goes on, and a subscription ends some time.
FairSpec == Spec /\ WF_vars(Respond) /\ WF_vars(Close)
---------------------------------------------------------------------------
(* Properties *)

\* A response went through every response interceptor the server uses, first
\* used outermost, whatever other hooks lie between; only answers in place of the
\* operation did not (extensions.go:66-95, executor.go:97-118).
ResponsesNest ==
    \A i \in DOMAIN delivered :
        LET r == delivered[i] IN
        IF r.by = "wrapped"
        THEN Follows(r.through, exts, {j \in DOMAIN exts : "response" \in Hooks[exts[j]]})
        ELSE r.through = <<>>

\* What belongs to a response is in it, once, and in no other: the errors of fields,
\* of the dispatch and of a refusal, and the trace of every field that was
\* executed for it (executor.go:96-111, 124-138, context_response.go:45-52,
\* apollotracing/tracer.go:57-114).  Errors under the events of a stream are not
\* among them: nobody collects them.
EachInItsResponse ==
    \A i \in DOMAIN delivered : LET r == delivered[i] IN
        /\ r.errors = r.raised
        /\ kind \in {"query", "mutation"} /\ r.by = "wrapped" /\ r.tracing
              => r.traced = Selected

\* The responses of a subscription are its events, in order, none twice, none
\* mixed with another, though all share one buffer; whatever is no stream is
\* answered at most once, however often the transport asks
\* (generated!.gotpl:122-124, 170-183, oneshot.go:5-16).
EventsInOrder ==
    IF kind = "subscription" /\ handler \notin {"refusal", "failure"}
    THEN \A i \in DOMAIN delivered : delivered[i].by = "wrapped" => delivered[i].data = <<i>>
    ELSE Len(delivered) <= 1

\* Every operation ends with the transport, once its stream is closed, by a
\* panic or after an answer, unless it is a stream without events whose dispatch
\* raised nothing (websocket.go:238-247, executor.go:96-101).
Ends ==
    (pc = "dispatch") ~>
        \/ pc = "panicked"
        \/ /\ pc = "over"
           /\ delivered # <<>> \/ (kind = "subscription" /\ events + dispatch = 0)
=============================================================================
