------------------------------ MODULE FieldExec ------------------------------
(***************************************************************************)
(* How generated code executes one selection (codegen/object.gotpl,        *)
(* field.gotpl, type.gotpl, interface.gotpl), with the field sets and the  *)
(* errors of graphql/fieldset.go and context_response.go, up to the        *)
(* response the executor builds.  Every position is a process: it runs in  *)
(* a goroutine of its own or in that of its parent, which CanStart says.   *)
(***************************************************************************)
EXTENDS SelectionTree

CONSTANTS
    Pos,       \* the order of the fields of an object
    Resolved,  \* fields with a resolver or a method that takes a context
    Serial     \* objects without concurrency: the root of mutations

VARIABLES
    pc,       \* where the code of each position is
    outcome,  \* what its resolver did
    res,      \* what the function of a position returned
    invalids, \* the counter of each object
    cleared,  \* lists whose ret was set to nil
    errs,     \* responseContext.errors: how many have each path
    answer,   \* "none", "written" (the data), "sent" (with its errors), "panic"
    sent      \* the errors of the response

vars == <<pc, outcome, res, invalids, cleared, errs, answer, sent>>

Tree == INSTANCE Selection WITH answer <-
            {[nulls |-> {n \in Nodes : res[n] = "null"}, errors |-> sent] :
                a \in {answer} \cap {"sent"}}

ASSUME FieldExecAssumption ==
    /\ Pos \in [Nodes -> Nat]
    /\ Resolved \subseteq Fields
    /\ Serial \subseteq {n \in Nodes : Kind[n] = "object"}

\* idle, then: nil or complain (no value where there must be one), raise (an
\* error to add), open (kids run), returned, stored.  A list element that
\* panics: panicked, recovering, clearing, dead.
Pcs == {"idle", "nil", "complain", "raise", "open", "returned", "stored",
        "panicked", "recovering", "clearing", "dead"}

TypeOK ==
    /\ pc \in [Nodes -> Pcs]
    /\ outcome \in [Nodes -> AllOutcomes \cup {"none"}]
    /\ res \in [Nodes -> {"unset", "null", "value"}]
    /\ invalids \in [Nodes -> Nat]
    /\ cleared \in [Nodes -> BOOLEAN]
    /\ errs \in [Nodes -> Nat] /\ sent \in [Nodes -> Nat]
    /\ answer \in {"none", "written", "sent", "panic"}
    /\ \A n \in Nodes : pc[n] \in {"returned", "stored"} => res[n] # "unset"
    /\ \A n \in Nodes : pc[n] # "idle" => outcome[n] # "none"

Init ==
    /\ pc = [n \in Nodes |-> "idle"]
    /\ outcome = [n \in Nodes |-> "none"]
    /\ res = [n \in Nodes |-> "unset"]
    /\ invalids = [n \in Nodes |-> 0]
    /\ cleared = [n \in Nodes |-> FALSE]
    /\ errs = [n \in Nodes |-> 0] /\ sent = errs
    /\ answer = "none"

---------------------------------------------------------------------------
(* Starting and finishing *)

\* Field.IsConcurrent()
Concurrent(n) == n \in Resolved /\ Parent[n] \notin Serial

\* The loop over the fields runs those that are not concurrent one by one;
\* Dispatch() then runs the others.  Elements all run at once.
CanStart(n) ==
    \/ n = Root
    \/ /\ n # Root /\ pc[Parent[n]] = "open"
       /\ n \in Fields =>
            \A m \in KidsOf(Parent[n]) :
                ~Concurrent(m) /\ (Concurrent(n) \/ Pos[m] < Pos[n]) => pc[m] = "stored"

Alone(n) == KidsOf(Parent[n]) = {n}

\* Mutation: wg.Done() before the result is in its slot.
FinishedEarly(n) == pc[n] \in {"returned", "stored", "recovering", "clearing", "dead"}

\* Mutation: wg.Done() is not deferred.
FinishedNormally(n) == pc[n] = "stored"

\* wg.Done(): of an element it is deferred after the recover, so it comes first;
\* an only element runs without wait group or goroutine.
Finished(n) ==
    \/ pc[n] \in {"stored", "dead"}
    \/ (n \in Elements /\ ~Alone(n) /\ pc[n] \in {"recovering", "clearing"})

\* Mutation: every null of a field spoils its object.
SpoilsAlways(n, v) == n \in Fields /\ v = "null"

\* What makes the object of a field null: graphql.Null where the type has !.
Spoils(n, v) == n \in Fields /\ n \in NonNull /\ v = "null"

\* The function of the position returns, and the field counts its null.
Return(n, v) ==
    /\ pc' = [pc EXCEPT ![n] = "returned"]
    /\ res' = [res EXCEPT ![n] = v]
    /\ invalids' = IF Spoils(n, v) THEN [invalids EXCEPT ![Parent[n]] = @ + 1] ELSE invalids

Goto(n, l) == pc' = [pc EXCEPT ![n] = l] /\ UNCHANGED <<res, invalids>>

AddError(n) == errs' = [errs EXCEPT ![n] = @ + 1]

---------------------------------------------------------------------------
(* Actions *)

\* The body of a field up to its marshal function, or what the marshal function
\* of an element finds.
Resolve(n) ==
    /\ pc[n] = "idle" /\ CanStart(n)
    /\ \E o \in Outcomes[n] :
          /\ outcome' = [outcome EXCEPT ![n] = o]
          /\ \/ o = "ok" /\ Kind[n] = "leaf" /\ Return(n, "value") /\ UNCHANGED errs
             \/ o = "ok" /\ Kind[n] # "leaf" /\ Goto(n, "open") /\ UNCHANGED errs
             \/ o = "nil" /\ n \in NonNull /\ Goto(n, "nil") /\ UNCHANGED errs
             \/ o = "nil" /\ n \notin NonNull /\ Return(n, "null") /\ UNCHANGED errs
             \/ o = "typedNil" /\ Return(n, "null") /\ UNCHANGED errs
             \/ o = "reported" /\ n \in NonNull /\ Goto(n, "nil") /\ AddError(n)
             \/ o = "reported" /\ n \notin NonNull /\ Return(n, "null") /\ AddError(n)
             \/ o = "error" /\ Goto(n, "raise") /\ UNCHANGED errs
             \/ o = "panic" /\ n \notin Elements /\ Goto(n, "raise") /\ UNCHANGED errs
             \/ o = "panic" /\ n \in Elements /\ Goto(n, "panicked") /\ UNCHANGED errs
    /\ UNCHANGED <<cleared, answer, sent>>

\* Mutation: nothing looks for an earlier error.
NoErrorLooked(n) == FALSE

\* HasFieldError()
HasFieldError(n) == errs[n] > 0

Look(n) ==
    /\ pc[n] = "nil"
    /\ IF HasFieldError(n) THEN Return(n, "null") ELSE Goto(n, "complain")
    /\ UNCHANGED <<outcome, cleared, errs, answer, sent>>

\* What is returned along with an error.
ReturnedOnError == "null"

\* ec.Error(...), or "must not be null".
Raise(n) ==
    /\ pc[n] \in {"raise", "complain"}
    /\ AddError(n) /\ Return(n, ReturnedOnError)
    /\ UNCHANGED <<outcome, cleared, answer, sent>>

\* out.Dispatch() or wg.Wait() is over: the object looks at its counter.
Close(n) ==
    /\ pc[n] = "open"
    /\ \A k \in KidsOf(n) : Finished(k)
    /\ IF invalids[n] > 0 THEN Return(n, "null") ELSE Return(n, "value")
    /\ UNCHANGED <<outcome, cleared, errs, answer, sent>>

\* m.Values[i] = ..., or ret[i] = ..., which panics once ret is nil.
Store(n) ==
    /\ pc[n] = "returned"
    /\ IF n \in Elements /\ cleared[Parent[n]] THEN Goto(n, "panicked") ELSE Goto(n, "stored")
    /\ UNCHANGED <<outcome, cleared, errs, answer, sent>>

\* The deferred functions of an element that panics: wg.Done(), then ec.Error(),
\* then ret = nil, which matters only if the list has not returned ret yet.
Unwind(n) ==
    \/ /\ pc[n] = "panicked" /\ Goto(n, "recovering") /\ UNCHANGED <<errs, cleared>>
    \/ /\ pc[n] = "recovering" /\ Goto(n, "clearing")
       /\ AddError(n) /\ UNCHANGED cleared
    \/ /\ pc[n] = "clearing" /\ Goto(n, "dead")
       /\ cleared' = IF pc[Parent[n]] = "open" THEN [cleared EXCEPT ![Parent[n]] = TRUE]
                     ELSE cleared
       /\ UNCHANGED errs

UnwindElement(n) == n \in Elements /\ Unwind(n) /\ UNCHANGED <<outcome, answer, sent>>

\* Positions whose values the encoder meets.
Visible ==
    LET seen[n \in Nodes] ==
            n = Root \/ (res[Parent[n]] = "value" /\ ~cleared[Parent[n]] /\ seen[Parent[n]])
    IN  {n \in Nodes : seen[n]}

\* data.MarshalGQL(&buf): a slot nobody wrote is a nil Marshaler.
Marshal ==
    /\ answer = "none" /\ pc[Root] = "stored"
    /\ answer' = IF \A n \in Visible : pc[n] = "stored" THEN "written" ELSE "panic"
    /\ UNCHANGED <<pc, outcome, res, invalids, cleared, errs, sent>>

\* resp.Errors = append(resp.Errors, graphql.GetErrors(ctx)...)
Send ==
    /\ answer = "written"
    /\ answer' = "sent" /\ sent' = errs
    /\ UNCHANGED <<pc, outcome, res, invalids, cleared, errs>>

Step(n) == Resolve(n) \/ Look(n) \/ Raise(n) \/ Close(n) \/ Store(n) \/ UnwindElement(n)

Next == (\E n \in Nodes : Step(n)) \/ Marshal \/ Send

Spec == Init /\ [][Next]_vars

\* Goroutines run, and resolvers return.
FairSpec == Spec /\ (\A n \in Nodes : WF_vars(Step(n))) /\ WF_vars(Marshal \/ Send)
---------------------------------------------------------------------------
(* Properties *)

\* The response is the one its outcomes call for, whatever the interleaving:
\* the nulls of a sequential execution, an error per cause, none twice, none
\* lost (object.gotpl:34-82, context_response.go:45-76).
ImplementsSelection == Tree!Spec

\* While anything under a position runs, the position is still open: no
\* goroutine of a response outlives it, and the counter of an object is read
\* when all its fields have counted (fieldset.go:30-50, object.gotpl:79).
Nested ==
    \A n \in Nodes \ {Root} :
        pc[n] \notin {"idle", "stored", "dead"} => pc[Parent[n]] = "open"

\* A position is null for a reason of its own or because of a field of its that
\* must not be (object.gotpl:50-60).
NullsPropagate ==
    \A n \in Nodes : res[n] # "unset" =>
        (res[n] = "null" <=>
            \/ Failed(outcome[n])
            \/ \E k \in KidsOf(n) \cap Fields : k \in NonNull /\ res[k] = "null")

\* A position and all below it: the least set that has it and the kids of its own.
Under == [m \in Nodes |->
    {d \in Nodes : \A S \in SUBSET Nodes :
        m \in S /\ (\A k \in Nodes \ {Root} : Parent[k] \in S => k \in S) => d \in S}]

\* When a field of a mutation begins, nothing runs any more under the fields
\* before it, at any depth, and nothing under it begins later: each element and
\* each goroutine below was joined.  The only thing left there may be the
\* recovery of elements that panicked (object.go:45, field.go:443, type.gotpl:99).
SerialFields ==
    \A s \in Serial : \A m, n \in KidsOf(s) :
        Pos[m] < Pos[n] /\ pc[n] # "idle" =>
            \A d \in Under[m] : /\ pc[d] \in {"idle", "stored", "recovering", "clearing", "dead"}
                                /\ ~(pc[d] = "idle" /\ CanStart(d))

\* A panic ends in an error of the response (errors.md, "The panic handler").
PanicsAreReported ==
    /\ answer # "panic"
    /\ answer = "sent" => \A n \in Nodes : outcome[n] = "panic" => sent[n] > 0

\* Every response is answered, if its resolvers return: no wait group is left
\* waiting, also when elements of a list panic (type.gotpl:91-112).
Answered == <>(answer \in {"sent", "panic"})
=============================================================================
