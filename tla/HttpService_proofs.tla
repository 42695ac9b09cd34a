------------------------ MODULE HttpService_proofs ------------------------
(***************************************************************************)
(* Theorems about HttpService for any requests, texts and cache sizes.     *)
(***************************************************************************)
EXTENDS HttpService, TLAPS

LEMMA AddedEntries ==
  ASSUME NEW cache, NEW size, NEW e, NEW c \in Added(cache, size, e)
  PROVE  c \subseteq cache \cup {e}
BY DEF Added

LEMMA ReplyType ==
  ASSUME TypeOK, NEW r \in Reqs, NEW st \in {200, 400, 405, 406, 422},
         NEW b \in {"none", "data", "errors"}, Reply(r, st, b)
  PROVE  /\ pc' \in [Reqs -> Pcs] /\ answer' \in [Reqs -> Answers]
         /\ pc' = [pc EXCEPT ![r] = "done"]
BY DEF Reply, TypeOK, Pcs, Answers

\* After a panic a request is answered, or nothing of it changes.
LEMMA PanicType ==
  ASSUME TypeOK, NEW r \in Reqs, Panic(r)
  PROVE  /\ pc' \in [Reqs -> Pcs] /\ answer' \in [Reqs -> Answers]
         /\ crashed' \in BOOLEAN
         /\ pc' = [pc EXCEPT ![r] = "done"] \/ pc' = pc
<1>1. CASE Graceful
  BY <1>1, ReplyType DEF Panic, TypeOK
<1>2. CASE ~Graceful
  BY <1>2 DEF Panic, TypeOK
<1>3. QED BY <1>1, <1>2

LEMMA RefuseType ==
  ASSUME TypeOK, NEW r \in Reqs, NEW k, Refuse(r, k)
  PROVE  /\ pc' \in [Reqs -> Pcs] /\ answer' \in [Reqs -> Answers]
         /\ pc' = [pc EXCEPT ![r] = "done"]
<1>1. StatusFor(k) \in {200, 400, 405, 406, 422}
  BY DEF StatusFor
<1>2. QED BY <1>1, ReplyType DEF Refuse

---------------------------------------------------------------------------
(* Type correctness *)

\* Every variable keeps its type, and a request past the mutators has a text.
THEOREM TypeCorrect == Spec => []TypeOK
<1>1. Init => TypeOK
  <2> SUFFICES ASSUME Init PROVE TypeOK
    OBVIOUS
  <2>1. Pending \in Answers
    BY DEF Pending, Answers
  <2>2. /\ pc \in [Reqs -> Pcs] /\ answer \in [Reqs -> Answers]
        /\ \A r \in Reqs : pc[r] = "idle"
    BY <2>1 DEF Init, Pcs
  <2>3. /\ shape \in [Reqs -> Shapes \cup {Unasked}]
        /\ text \in [Reqs -> Texts \cup {NoText}]
    BY DEF Init
  <2>4. QED BY <2>2, <2>3 DEF Init, TypeOK
<1>2. TypeOK /\ [Next]_vars => TypeOK'
  <2> SUFFICES ASSUME TypeOK, Next PROVE TypeOK'
    BY DEF vars, TypeOK
  <2>1. ASSUME NEW r \in Reqs, NEW s \in Shapes, Receive(r, s) PROVE TypeOK'
    <3>1. /\ pc' \in [Reqs -> Pcs] /\ answer' \in [Reqs -> Answers]
          /\ \/ pc' = [pc EXCEPT ![r] = "done"]
             \/ pc' = [pc EXCEPT ![r] = "mutate"]
      <4>1. \/ Reply(r, 400, "errors") \/ Reply(r, 422, "errors") \/ Reply(r, 200, "errors")
            \/ Reply(r, 405, "none") \/ Reply(r, 200, "none")
            \/ Goto(r, "mutate")
        BY <2>1 DEF Receive, OptionsDo, GetDo, PostDo, FormDo
      <4>2. CASE Goto(r, "mutate")
        BY <4>2 DEF Goto, TypeOK, Pcs
      <4>3. QED BY <4>1, <4>2, ReplyType
    <3>2. QED BY <2>1, <3>1 DEF Receive, TypeOK
  <2>2. ASSUME NEW r \in Reqs, Mutate(r) PROVE TypeOK'
    <3> DEFINE s == shape[r]
    <3>1. /\ s \in Shapes /\ s.apq \in Texts \cup {"none", "malformed"}
          /\ s.query \in Texts \cup {NoText} /\ (s.query = NoText => s.apq # "none")
      BY <2>2, ShapesAssumption DEF Mutate, TypeOK, Shape
    <3>2. CASE /\ s.apq = "none" /\ text' = [text EXCEPT ![r] = s.query]
               /\ Goto(r, "lookup") /\ UNCHANGED <<apqCache, crashed>>
      BY <2>2, <3>1, <3>2 DEF Mutate, Goto, TypeOK, Pcs
    <3>3. CASE Refuse(r, "user") /\ UNCHANGED <<text, apqCache, crashed>>
      <4>1. /\ pc' \in [Reqs -> Pcs] /\ answer' \in [Reqs -> Answers]
            /\ pc' = [pc EXCEPT ![r] = "done"]
        BY <3>3, RefuseType
      <4>2. QED BY <2>2, <3>3, <4>1 DEF Mutate, TypeOK
    <3>4. CASE /\ \E e \in Found(apqCache, s.apq) : text' = [text EXCEPT ![r] = e.value]
               /\ Panic(r) /\ UNCHANGED apqCache
      <4>1. PICK e \in apqCache : text' = [text EXCEPT ![r] = e.value]
        BY <3>4 DEF Found
      <4>2. e.value \in Texts
        BY DEF TypeOK, Entry
      <4>3. QED BY <2>2, <3>4, <4>1, <4>2, PanicType DEF Mutate, TypeOK
    <3>5. CASE /\ s.apq \in Texts /\ s.query # NoText
               /\ apqCache' \in Added(apqCache, ApqSize, [key |-> s.apq, value |-> s.query])
               /\ Panic(r) /\ UNCHANGED text
      <4>1. [key |-> s.apq, value |-> s.query] \in Entry
        BY <3>1, <3>5 DEF Entry
      <4>2. apqCache' \subseteq Entry
        BY <3>5, <4>1, AddedEntries DEF TypeOK
      <4>3. QED BY <2>2, <3>5, <4>2, PanicType DEF Mutate, TypeOK
    <3>6. QED BY <2>2, <3>2, <3>3, <3>4, <3>5 DEF Mutate
  <2>3. ASSUME NEW r \in Reqs, Lookup(r) PROVE TypeOK'
    BY <2>3 DEF Lookup, Goto, TypeOK, Pcs
  <2>4. ASSUME NEW r \in Reqs, Parse(r) PROVE TypeOK'
    <3>1. [key |-> text[r], value |-> text[r]] \in Entry
      BY <2>4 DEF Parse, Entry, TypeOK
    <3>2. queryCache' \subseteq Entry
      BY <2>4, <3>1, AddedEntries DEF Parse, TypeOK
    <3>3. /\ pc' \in [Reqs -> Pcs] /\ answer' \in [Reqs -> Answers]
          /\ \/ pc' = [pc EXCEPT ![r] = "done"]
             \/ pc' = [pc EXCEPT ![r] = "check"]
      BY <2>4, RefuseType DEF Parse, Goto, TypeOK, Pcs
    <3>4. QED BY <2>4, <3>2, <3>3 DEF Parse, TypeOK
  <2>5. ASSUME NEW r \in Reqs, Check(r) PROVE TypeOK'
    <3>1. /\ pc' \in [Reqs -> Pcs] /\ answer' \in [Reqs -> Answers]
          /\ \/ pc' = [pc EXCEPT ![r] = "done"]
             \/ pc' = [pc EXCEPT ![r] = "exec"]
      BY <2>5, RefuseType, ReplyType DEF Check, Goto, TypeOK, Pcs
    <3>2. QED BY <2>5, <3>1 DEF Check, TypeOK
  <2>6. ASSUME NEW r \in Reqs, Exec(r) PROVE TypeOK'
    <3>1. /\ pc' \in [Reqs -> Pcs] /\ answer' \in [Reqs -> Answers]
          /\ crashed' \in BOOLEAN
          /\ pc' = [pc EXCEPT ![r] = "done"] \/ pc' = pc
      BY <2>6, PanicType, ReplyType DEF Exec, TypeOK
    <3>2. QED BY <2>6, <3>1 DEF Exec, TypeOK
  <2>7. QED BY <2>1, <2>2, <2>3, <2>4, <2>5, <2>6 DEF Next
<1>3. QED BY <1>1, <1>2, PTL DEF Spec

---------------------------------------------------------------------------
(* What the caches hold, and what runs *)

\* A hit must be as good as a validation, so the invariant says of every
\* document in the cache, and of every request past it, that it is valid.
IInv ==
    /\ \A e \in queryCache : e.key = e.value /\ e.value \in Valid
    /\ OnlyValidatedRuns
    /\ \A r \in Reqs : pc[r] = "check" => text[r] \in Valid

LEMMA IInvStep == ASSUME TypeOK, IInv, [Next]_vars PROVE IInv'
<1> USE DEF IInv, OnlyValidatedRuns
<1>1. CASE UNCHANGED vars
  BY <1>1 DEF vars
<1>2. ASSUME NEW r \in Reqs, NEW s \in Shapes, Receive(r, s) PROVE IInv'
  <2>1. \/ pc' = [pc EXCEPT ![r] = "done"]
        \/ pc' = [pc EXCEPT ![r] = "mutate"]
    <3>1. \/ \E st \in {200, 400, 405, 422}, b \in {"none", "errors"} : Reply(r, st, b)
          \/ Goto(r, "mutate")
      BY <1>2 DEF Receive, OptionsDo, GetDo, PostDo, FormDo
    <3>2. QED BY <3>1 DEF Reply, Goto
  <2>2. pc[r] = "idle" /\ shape' = [shape EXCEPT ![r] = s]
        /\ UNCHANGED <<text, queryCache, apqCache>>
    BY <1>2 DEF Receive
  <2>3. QED BY <2>1, <2>2 DEF TypeOK
<1>3. ASSUME NEW r \in Reqs, Mutate(r) PROVE IInv'
  <2>1. /\ pc[r] = "mutate" /\ UNCHANGED <<shape, queryCache>>
        /\ \A q \in Reqs \ {r} : text'[q] = text[q]
    BY <1>3 DEF Mutate, TypeOK
  <2>2. \/ pc' = [pc EXCEPT ![r] = "done"]
        \/ pc' = [pc EXCEPT ![r] = "lookup"]
        \/ pc' = pc
    BY <1>3 DEF Mutate, Refuse, Reply, Goto, Panic
  <2>3. QED BY <2>1, <2>2 DEF TypeOK
<1>4. ASSUME NEW r \in Reqs, Lookup(r) PROVE IInv'
  <2>1. /\ pc[r] = "lookup" /\ UNCHANGED <<shape, text, queryCache, apqCache>>
        /\ \/ pc' = [pc EXCEPT ![r] = "parse"]
           \/ /\ Found(queryCache, text[r]) # {}
              /\ pc' = [pc EXCEPT ![r] = "check"]
    BY <1>4 DEF Lookup, Goto
  <2>2. Found(queryCache, text[r]) # {} => text[r] \in Valid
    BY DEF Found
  <2>3. QED BY <2>1, <2>2 DEF TypeOK
<1>5. ASSUME NEW r \in Reqs, Parse(r) PROVE IInv'
  <2>1. /\ pc[r] = "parse" /\ UNCHANGED <<shape, text, apqCache>>
        /\ \/ pc' = [pc EXCEPT ![r] = "done"]
           \/ text[r] \in Valid /\ pc' = [pc EXCEPT ![r] = "check"]
    BY <1>5 DEF Parse, Goto, Refuse, Reply
  <2>2. (\A e \in queryCache : e.key = e.value /\ e.value \in Valid)'
    BY <1>5, AddedEntries DEF Parse, Cached
  <2>3. QED BY <2>1, <2>2 DEF TypeOK
<1>6. ASSUME NEW r \in Reqs, Check(r) PROVE IInv'
  <2>1. /\ pc[r] = "check" /\ UNCHANGED <<shape, text, queryCache, apqCache>>
        /\ \/ pc' = [pc EXCEPT ![r] = "done"]
           \/ Allowed(shape[r], text[r]) /\ pc' = [pc EXCEPT ![r] = "exec"]
    BY <1>6 DEF Check, Goto, Refuse, Reply
  <2>2. QED BY <2>1 DEF TypeOK, Allowed
<1>7. ASSUME NEW r \in Reqs, Exec(r) PROVE IInv'
  <2>1. /\ UNCHANGED <<shape, text, queryCache, apqCache>>
        /\ pc' = [pc EXCEPT ![r] = "done"] \/ pc' = pc
    BY <1>7 DEF Exec, Panic, Reply
  <2>2. QED BY <2>1 DEF TypeOK
<1>8. QED BY <1>1, <1>2, <1>3, <1>4, <1>5, <1>6, <1>7 DEF Next

\* What runs was validated, on a miss or on a hit, whatever the size of the
\* caches and the order of requests, and a GET runs queries only.
THEOREM ValidatedRuns == Spec => []OnlyValidatedRuns
<1>1. Init => IInv
  BY DEF Init, IInv, OnlyValidatedRuns
<1>2. TypeOK /\ IInv /\ [Next]_vars => IInv'
  BY IInvStep
<1>3. IInv => OnlyValidatedRuns
  BY DEF IInv
<1>4. QED BY <1>1, <1>2, <1>3, TypeCorrect, PTL DEF Spec

---------------------------------------------------------------------------
(* What a request is answered *)

\* The transport goes on to the executor.
PassesTransport(s) == s.via \in {"get", "post", "form"} /\ s.body = "fine"

\* What the request would be answered alone, with empty caches, if it says s,
\* does not ask for a text by its hash and does not panic when it runs.
AloneAnswer(s) ==
    IF s.via = "none" THEN [status |-> 400, body |-> "errors"]
    ELSE IF s.via \in {"options", "head"}
    THEN [status |-> IF s.via = "head" THEN 405 ELSE 200, body |-> "none"]
    ELSE IF ~PassesTransport(s)
    THEN [status |-> IF s.via # "form" THEN 400 ELSE IF s.body = "tooLarge" THEN 200 ELSE 422,
          body |-> "errors"]
    ELSE IF s.apq # "none"
    THEN [status |-> IF Accepts(s) THEN 422 ELSE 200, body |-> "errors"]
    ELSE IF s.query \notin Valid THEN [status |-> 422, body |-> "errors"]
    ELSE IF ~s.op THEN [status |-> 200, body |-> "errors"]
    ELSE IF ~s.vars THEN [status |-> 422, body |-> "errors"]
    ELSE IF ~s.light THEN [status |-> 200, body |-> "errors"]
    ELSE IF ~Allowed(s, s.query) THEN [status |-> 406, body |-> "errors"]
    ELSE [status |-> 200, body |-> "data"]

\* The operation of r was run, and panicked.
PanickedRunning(r) ==
    shape[r].op /\ shape[r].vars /\ shape[r].light /\ text[r] \in Valid
    /\ answer[r].status = 422

\* Each stage of a request has ruled out the answers of the stages before.
AnswerInv(r) ==
    /\ pc[r] \notin {"idle", "done"} => PassesTransport(shape[r])
    /\ pc[r] \in {"lookup", "parse", "check", "exec"} =>
          shape[r].apq = "none" /\ text[r] = shape[r].query
    /\ pc[r] = "exec" =>
          /\ shape[r].op /\ shape[r].vars /\ shape[r].light
          /\ Allowed(shape[r], text[r])
    /\ pc[r] = "done" /\ ~ByHash(shape[r]) =>
          answer[r] = AloneAnswer(shape[r]) \/ PanickedRunning(r)

\* A step of r leaves every other request what it was.
LEMMA OthersStand ==
  ASSUME NEW r \in Reqs, NEW q \in Reqs, AnswerInv(q),
         pc'[q] = pc[q], shape'[q] = shape[q], text'[q] = text[q], answer'[q] = answer[q]
  PROVE  AnswerInv(q)'
BY DEF AnswerInv, PanickedRunning

LEMMA ReplyOthers ==
  ASSUME TypeOK, NEW r \in Reqs, NEW st, NEW b, Reply(r, st, b)
  PROVE  /\ pc'[r] = "done" /\ answer'[r] = [status |-> st, body |-> b]
         /\ \A q \in Reqs \ {r} : pc'[q] = pc[q] /\ answer'[q] = answer[q]
BY DEF Reply, TypeOK

LEMMA GotoOthers ==
  ASSUME TypeOK, NEW r \in Reqs, NEW l, Goto(r, l)
  PROVE  /\ pc'[r] = l /\ answer' = answer
         /\ \A q \in Reqs \ {r} : pc'[q] = pc[q]
BY DEF Goto, TypeOK

\* The answer a transport gives at once is the answer of the shape.
LEMMA ReceiveAnswers ==
  ASSUME TypeOK, NEW r \in Reqs, NEW s \in Shapes, Receive(r, s)
  PROVE  \/ pc'[r] = "mutate" /\ PassesTransport(s) /\ UNCHANGED answer
            /\ \A q \in Reqs \ {r} : pc'[q] = pc[q]
         \/ pc'[r] = "done" /\ answer'[r] = AloneAnswer(s)
            /\ \A q \in Reqs \ {r} : pc'[q] = pc[q] /\ answer'[q] = answer[q]
<1>1. s.body \in {"fine", "bad", "tooLarge"}
  BY ShapesAssumption DEF Shape
<1>2. CASE s.via = "none" /\ Reply(r, 400, "errors")
  BY <1>2, ReplyOthers DEF AloneAnswer
<1>3. CASE s.via \in {"options", "head"} /\ OptionsDo(r, s)
  <2>1. CASE s.via = "head"
    BY <1>3, <2>1, ReplyOthers DEF AloneAnswer, OptionsDo
  <2>2. CASE s.via = "options"
    BY <1>3, <2>2, ReplyOthers DEF AloneAnswer, OptionsDo
  <2>3. QED BY <1>3, <2>1, <2>2
<1>4. CASE s.via \in {"get", "post"} /\ (GetDo(r, s) \/ PostDo(r, s))
  <2>1. CASE s.body = "fine"
    BY <1>4, <2>1, GotoOthers DEF PassesTransport, GetDo, PostDo
  <2>2. CASE s.body # "fine"
    <3>1. Reply(r, 400, "errors")
      BY <1>4, <2>2 DEF GetDo, PostDo
    <3>2. AloneAnswer(s) = [status |-> 400, body |-> "errors"]
      BY <1>4, <2>2 DEF AloneAnswer, PassesTransport
    <3>3. QED BY <3>1, <3>2, ReplyOthers
  <2>3. QED BY <2>1, <2>2
<1>5. CASE s.via = "form" /\ FormDo(r, s)
  <2>1. CASE s.body = "fine"
    BY <1>5, <2>1, GotoOthers DEF PassesTransport, FormDo
  <2>2. CASE s.body = "tooLarge"
    BY <1>5, <2>2, ReplyOthers DEF AloneAnswer, PassesTransport, FormDo
  <2>3. CASE s.body = "bad"
    BY <1>5, <2>3, ReplyOthers DEF AloneAnswer, PassesTransport, FormDo
  <2>4. QED BY <1>1, <2>1, <2>2, <2>3
<1>6. QED BY <1>2, <1>3, <1>4, <1>5 DEF Receive

LEMMA AnswerStep ==
  ASSUME TypeOK, IInv, \A q \in Reqs : AnswerInv(q), [Next]_vars
  PROVE  \A q \in Reqs : AnswerInv(q)'
<1>1. CASE UNCHANGED vars
  BY <1>1 DEF vars, AnswerInv, PanickedRunning
<1>2. ASSUME NEW r \in Reqs, NEW s \in Shapes, Receive(r, s)
      PROVE  \A q \in Reqs : AnswerInv(q)'
  <2>1. /\ shape'[r] = s /\ UNCHANGED text
        /\ \A q \in Reqs \ {r} : shape'[q] = shape[q]
    BY <1>2 DEF Receive, TypeOK
  <2>2. AnswerInv(r)'
    BY <1>2, <2>1, ReceiveAnswers DEF AnswerInv
  <2>3. ASSUME NEW q \in Reqs \ {r} PROVE AnswerInv(q)'
    BY <1>2, <2>1, ReceiveAnswers, OthersStand
  <2>4. QED BY <2>2, <2>3
<1>3. ASSUME NEW r \in Reqs, Mutate(r) PROVE \A q \in Reqs : AnswerInv(q)'
  <2>1. /\ pc[r] = "mutate" /\ UNCHANGED shape
        /\ \A q \in Reqs \ {r} : text'[q] = text[q]
    BY <1>3 DEF Mutate, TypeOK
  <2>2. \A q \in Reqs \ {r} : pc'[q] = pc[q] /\ answer'[q] = answer[q]
    <3>1. \/ Goto(r, "lookup")
          \/ \E st, b : Reply(r, st, b)
          \/ UNCHANGED <<pc, answer>>
      BY <1>3 DEF Mutate, Refuse, Panic
    <3>2. QED BY <3>1, ReplyOthers, GotoOthers
  <2>3. AnswerInv(r)'
    <3>1. CASE shape[r].apq = "none"
      <4>1. /\ text' = [text EXCEPT ![r] = shape[r].query] /\ Goto(r, "lookup")
        BY <1>3, <3>1, ShapesAssumption DEF Mutate
      <4>2. QED BY <2>1, <3>1, <4>1, GotoOthers DEF AnswerInv, TypeOK
    <3>2. CASE shape[r].apq # "none"
      <4>1. CASE ByHash(shape[r])
        <5>1. pc'[r] \in {"done", "mutate"}
          BY ZenonT(40), <1>3, <2>1, <3>2, ReplyOthers DEF Mutate, Refuse, Panic
        <5>2. QED BY <2>1, <4>1, <5>1 DEF AnswerInv
      <4>2. CASE ~ByHash(shape[r]) /\ Accepts(shape[r])
        <5>1. shape[r].apq \in Texts /\ shape[r].query # NoText
          <6>1. shape[r] \in Shapes
            BY <2>1 DEF TypeOK
          <6>2. /\ shape[r].apq \in Texts \cup {"none", "malformed"}
                /\ shape[r].query \in Texts \cup {NoText}
            BY <6>1, ShapesAssumption DEF Shape
          <6>3. QED BY <3>2, <4>2, <6>2, ShapesAssumption DEF Accepts, NoText
        <5>2. Panic(r)
          BY <1>3, <4>2, <5>1, ShapesAssumption DEF Mutate
        <5>3. Reply(r, 422, "errors") \/ UNCHANGED <<pc, answer>>
          BY <5>2 DEF Panic
        <5>4. PassesTransport(shape[r])
          BY <2>1 DEF AnswerInv
        <5>5. AloneAnswer(shape[r]) = [status |-> 422, body |-> "errors"]
          BY <3>2, <4>2, <5>4 DEF AloneAnswer, PassesTransport
        <5>6. CASE Reply(r, 422, "errors")
          BY <2>1, <5>5, <5>6, ReplyOthers DEF AnswerInv
        <5>7. CASE UNCHANGED <<pc, answer>>
          BY <2>1, <5>7 DEF AnswerInv
        <5>8. QED BY <5>3, <5>6, <5>7
      <4>3. CASE ~ByHash(shape[r]) /\ ~Accepts(shape[r])
        <5>1. Reply(r, 200, "errors")
          BY <1>3, <3>2, <4>3 DEF Mutate, ByHash, Refuse, StatusFor
        <5>2. PassesTransport(shape[r])
          BY <2>1 DEF AnswerInv
        <5>3. AloneAnswer(shape[r]) = [status |-> 200, body |-> "errors"]
          BY <3>2, <4>3, <5>2 DEF AloneAnswer, PassesTransport
        <5>4. QED BY <2>1, <5>1, <5>3, ReplyOthers DEF AnswerInv
      <4>4. QED BY <4>1, <4>2, <4>3
    <3>3. QED BY <3>1, <3>2
  <2>4. QED BY <2>1, <2>2, <2>3, OthersStand
<1>4. ASSUME NEW r \in Reqs, Lookup(r) PROVE \A q \in Reqs : AnswerInv(q)'
  <2>1. /\ pc[r] = "lookup" /\ UNCHANGED <<shape, text, answer>>
        /\ pc'[r] \in {"parse", "check"}
        /\ \A q \in Reqs \ {r} : pc'[q] = pc[q]
    BY <1>4, GotoOthers DEF Lookup
  <2>2. AnswerInv(r)'
    BY <2>1 DEF AnswerInv
  <2>3. QED BY <2>1, <2>2, OthersStand
<1>5. ASSUME NEW r \in Reqs, Parse(r) PROVE \A q \in Reqs : AnswerInv(q)'
  <2>1. pc[r] = "parse" /\ UNCHANGED <<shape, text>>
    BY <1>5 DEF Parse
  <2>2. CASE text[r] \in Valid
    BY <1>5, <2>1, <2>2, GotoOthers, OthersStand DEF Parse, AnswerInv
  <2>3. CASE text[r] \notin Valid
    <3>1. Reply(r, 422, "errors")
      BY <1>5, <2>3 DEF Parse, Refuse, StatusFor
    <3>2. AloneAnswer(shape[r]) = [status |-> 422, body |-> "errors"]
      BY <2>1, <2>3 DEF AnswerInv, AloneAnswer, PassesTransport
    <3>3. AnswerInv(r)'
      BY <2>1, <3>1, <3>2, ReplyOthers DEF AnswerInv
    <3>4. \A q \in Reqs \ {r} : pc'[q] = pc[q] /\ answer'[q] = answer[q]
      BY ZenonT(40), <3>1, ReplyOthers
    <3>5. ASSUME NEW q \in Reqs \ {r} PROVE AnswerInv(q)'
      <4>1. pc'[q] = pc[q] /\ answer'[q] = answer[q] /\ shape'[q] = shape[q] /\ text'[q] = text[q]
        BY <2>1, <3>4
      <4>2. QED BY <4>1, OthersStand
    <3>6. QED BY <3>3, <3>5
  <2>4. QED BY <2>2, <2>3
<1>6. ASSUME NEW r \in Reqs, Check(r) PROVE \A q \in Reqs : AnswerInv(q)'
  <2> DEFINE s == shape[r]
  <2>1. /\ pc[r] = "check" /\ UNCHANGED <<shape, text>> /\ text[r] \in Valid
        /\ PassesTransport(s) /\ s.apq = "none" /\ text[r] = s.query
    BY <1>6 DEF Check, IInv, AnswerInv
  <2>2. /\ s.op \in BOOLEAN /\ s.vars \in BOOLEAN /\ s.light \in BOOLEAN
        /\ Allowed(s, text[r]) \in BOOLEAN
    BY <2>1, ShapesAssumption DEF TypeOK, Shape, Allowed
  <2>3. ASSUME NEW st, NEW b, Reply(r, st, b),
               AloneAnswer(s) = [status |-> st, body |-> b]
        PROVE  \A q \in Reqs : AnswerInv(q)'
    <3>1. AnswerInv(r)'
      BY <2>1, <2>3, ReplyOthers DEF AnswerInv
    <3>2. QED BY <2>1, <2>3, <3>1, ReplyOthers, OthersStand
  <2>4. CASE ~s.op
    <3>1. Reply(r, 200, "errors")
      BY <1>6, <2>4 DEF Check, Refuse, StatusFor
    <3>2. AloneAnswer(s) = [status |-> 200, body |-> "errors"]
      BY <2>1, <2>4 DEF AloneAnswer, PassesTransport
    <3>3. QED BY <2>3, <3>1, <3>2
  <2>5. CASE s.op /\ ~s.vars
    <3>1. Reply(r, 422, "errors")
      BY <1>6, <2>5 DEF Check, Refuse, StatusFor
    <3>2. AloneAnswer(s) = [status |-> 422, body |-> "errors"]
      BY <2>1, <2>5 DEF AloneAnswer, PassesTransport
    <3>3. QED BY <2>3, <3>1, <3>2
  <2>6. CASE s.op /\ s.vars /\ ~s.light
    <3>1. Reply(r, 200, "errors")
      BY <1>6, <2>6 DEF Check, Refuse, StatusFor
    <3>2. AloneAnswer(s) = [status |-> 200, body |-> "errors"]
      BY <2>1, <2>6 DEF AloneAnswer, PassesTransport
    <3>3. QED BY <2>3, <3>1, <3>2
  <2>7. CASE s.op /\ s.vars /\ s.light /\ ~Allowed(s, text[r])
    <3>1. Reply(r, 406, "errors")
      BY <1>6, <2>7 DEF Check
    <3>2. AloneAnswer(s) = [status |-> 406, body |-> "errors"]
      BY <2>1, <2>7 DEF AloneAnswer, PassesTransport
    <3>3. QED BY <2>3, <3>1, <3>2
  <2>8. CASE s.op /\ s.vars /\ s.light /\ Allowed(s, text[r])
    <3>1. Goto(r, "exec")
      BY <1>6, <2>8 DEF Check
    <3>2. AnswerInv(r)'
      BY <2>1, <2>8, <3>1, GotoOthers DEF AnswerInv
    <3>3. QED BY <2>1, <3>1, <3>2, GotoOthers, OthersStand
  <2>9. QED BY <2>2, <2>4, <2>5, <2>6, <2>7, <2>8
<1>7. ASSUME NEW r \in Reqs, Exec(r) PROVE \A q \in Reqs : AnswerInv(q)'
  <2>1. /\ pc[r] = "exec" /\ UNCHANGED <<shape, text>> /\ text[r] \in Valid
        /\ PassesTransport(shape[r])
        /\ shape[r].op /\ shape[r].vars /\ shape[r].light /\ Allowed(shape[r], text[r])
        /\ shape[r].apq = "none" /\ text[r] = shape[r].query
    BY <1>7 DEF Exec, IInv, OnlyValidatedRuns, AnswerInv
  <2>2. CASE Reply(r, 200, "data")
    <3>1. AloneAnswer(shape[r]) = [status |-> 200, body |-> "data"]
      BY <2>1 DEF AloneAnswer, PassesTransport
    <3>2. AnswerInv(r)'
      BY <2>1, <2>2, <3>1, ReplyOthers DEF AnswerInv
    <3>3. QED BY ZenonT(40), <2>1, <2>2, <3>2, ReplyOthers, OthersStand
  <2>3. CASE Reply(r, 422, "errors")
    <3>1. /\ pc'[r] = "done" /\ answer'[r] = [status |-> 422, body |-> "errors"]
          /\ \A q \in Reqs \ {r} : pc'[q] = pc[q] /\ answer'[q] = answer[q]
      BY <2>3, ReplyOthers
    <3>2. PanickedRunning(r)'
      BY <2>1, <3>1 DEF PanickedRunning
    <3>3. AnswerInv(r)'
      BY <2>1, <3>1, <3>2 DEF AnswerInv
    <3>4. QED BY <2>1, <3>1, <3>3, OthersStand
  <2>4. CASE UNCHANGED <<pc, answer>>
    BY <2>1, <2>4 DEF AnswerInv, PanickedRunning
  <2>5. QED BY <1>7, <2>2, <2>3, <2>4 DEF Exec, Panic
<1>8. QED BY <1>1, <1>2, <1>3, <1>4, <1>5, <1>6, <1>7 DEF Next

\* The answer of a request that brings its text is a function of what it says,
\* so the caches and the other requests cannot be observed in it.
THEOREM CachesAreInvisible == Spec => []SameRequestSameAnswer
<1>1. Init => \A r \in Reqs : AnswerInv(r)
  BY DEF Init, AnswerInv
<1>2. TypeOK /\ IInv /\ (\A r \in Reqs : AnswerInv(r)) /\ [Next]_vars
      => (\A r \in Reqs : AnswerInv(r))'
  BY AnswerStep
<1>3. (\A r \in Reqs : AnswerInv(r)) => SameRequestSameAnswer
  BY DEF AnswerInv, PanickedRunning, SameRequestSameAnswer
<1>4. Init => IInv
  BY DEF Init, IInv, OnlyValidatedRuns
<1>5. TypeOK /\ IInv /\ [Next]_vars => IInv'
  BY IInvStep
<1>6. QED BY <1>1, <1>2, <1>3, <1>4, <1>5, TypeCorrect, PTL DEF Spec
=============================================================================
