-------------------------- MODULE Responses_proofs --------------------------
(***************************************************************************)
(* Theorems about Responses for any extensions, hooks, fields and numbers  *)
(* of events.  The chain of middleware is what the backward loop makes of  *)
(* any list (WrappedFollows, by induction over where the loop is).  What   *)
(* the responses hold, and how many there are, rests on where the call is  *)
(* (CallInv), on what the context of a response collects (ContextInv) and  *)
(* on what is left of the stream, or of the one answer (StreamInv,         *)
(* OnceInv).                                                               *)
(***************************************************************************)
EXTENDS Responses, FiniteSetTheorems, WellFoundedInduction, TLAPS

---------------------------------------------------------------------------
(* Lemmas about the middleware *)

LEMMA Least ==
  ASSUME NEW T, T \subseteq Nat, T # {}
  PROVE  \E x \in T : \A y \in T : x <= y
<1>1. PICK x \in T : \A y \in T : ~ (<<y, x>> \in OpToRel(<, Nat))
  BY WFMin, NatLessThanWellFounded
<1>2. \A y \in T : ~ (y < x)
  BY <1>1 DEF OpToRel
<1>3. QED BY <1>2

\* What the loop has wrapped when it has come down to k.
Wrapped(list, hook, k, f) ==
    f = [i \in k..Len(list) + 1 |->
            IF i > Len(list) THEN <<>>
            ELSE IF Implements(list[i], hook) THEN <<list[i]>> \o f[i + 1]
            ELSE f[i + 1]]

From(list, hook, k) == {j \in 1..Len(list) : j >= k /\ Implements(list[j], hook)}

LEMMA Ranks ==
  ASSUME NEW n \in Nat, NEW places, places \subseteq 1..n
  PROVE  /\ IsFiniteSet(places) /\ Cardinality(places) \in Nat
         /\ \A i \in places : Rank(places, i) \in 1..Cardinality(places)
<1>1. IsFiniteSet(places) /\ Cardinality(places) \in Nat
  <2>1. IsFiniteSet(1..n)
    BY FS_Interval
  <2>2. QED BY <2>1, FS_Subset, FS_CardinalityType
<1>2. ASSUME NEW i \in places PROVE Rank(places, i) \in 1..Cardinality(places)
  <2> DEFINE low == {j \in places : j <= i}
  <2>1. low \subseteq places /\ i \in low
    OBVIOUS
  <2>2. IsFiniteSet(low) /\ Cardinality(low) \in Nat /\ Cardinality(low) <= Cardinality(places)
    BY <1>1, <2>1, FS_Subset, FS_CardinalityType
  <2>3. Cardinality(low) # 0
    BY <2>1, <2>2, FS_EmptySet
  <2>4. QED BY <1>1, <2>2, <2>3 DEF Rank
<1>3. QED BY <1>1, <1>2

LEMMA Prepended ==
  ASSUME NEW S, NEW part \in Seq(S), NEW e \in S
  PROVE  /\ <<e>> \o part \in Seq(S) /\ Len(<<e>> \o part) = Len(part) + 1
         /\ Len(part) \in Nat /\ (<<e>> \o part)[1] = e
         /\ \A i \in 1..Len(part) : (<<e>> \o part)[i + 1] = part[i]
OBVIOUS

\* One more element at the front.
LEMMA FollowsFront ==
  ASSUME NEW S, NEW part \in Seq(S), NEW whole \in Seq(S), NEW k \in 1..Len(whole),
         NEW places, places \subseteq k + 1..Len(whole), Follows(part, whole, places)
  PROVE  Follows(<<whole[k]>> \o part, whole, places \cup {k})
<1> DEFINE n == Len(whole)  more == places \cup {k}  longer == <<whole[k]>> \o part
<1>1. /\ n \in Nat /\ k \in Nat /\ k \notin places /\ places \subseteq 1..n
      /\ \A j \in places : k <= j /\ ~(j <= k)
  OBVIOUS
<1>2. /\ IsFiniteSet(places) /\ Cardinality(places) \in Nat /\ Len(part) = Cardinality(places)
      /\ \A i \in places : Rank(places, i) \in 1..Len(part) /\ part[Rank(places, i)] = whole[i]
  BY <1>1, Ranks DEF Follows
<1>3. Cardinality(more) = Cardinality(places) + 1
  BY <1>1, <1>2, FS_AddElement
<1>4. ASSUME NEW i \in places PROVE Rank(more, i) = Rank(places, i) + 1
  <2> DEFINE low == {j \in places : j <= i}
  <2>1. {j \in more : j <= i} = low \cup {k} /\ k \notin low
    BY <1>1
  <2>2. IsFiniteSet(low)
    BY <1>2, FS_Subset
  <2>3. QED BY <2>1, <2>2, FS_AddElement DEF Rank
<1>5. Rank(more, k) = 1
  <2>1. k \in more /\ \A j \in more : j <= k <=> j = k
    BY <1>1
  <2> HIDE DEF more
  <2>2. {j \in more : j <= k} = {k}
    BY <2>1
  <2>3. QED BY <2>2, FS_Singleton DEF Rank
<1>6. /\ Len(longer) = Len(part) + 1 /\ longer[1] = whole[k]
      /\ \A i \in 1..Len(part) : longer[i + 1] = part[i]
  BY Prepended
<1>7. \A i \in more : longer[Rank(more, i)] = whole[i]
  BY <1>2, <1>4, <1>5, <1>6
<1>8. QED BY <1>2, <1>3, <1>6, <1>7 DEF Follows

LEMMA FollowsNothing ==
  ASSUME NEW whole PROVE Follows(<<>>, whole, {})
<1>1. Cardinality({}) = 0 /\ Len(<<>>) = 0
  BY FS_EmptySet
<1>2. QED BY <1>1 DEF Follows

\* The loop ends, and there is a chain for each place it comes to.
LEMMA WrappedExists ==
  ASSUME NEW list \in Seq(Exts), NEW hook
  PROVE  \E f : Wrapped(list, hook, 1, f)
<1> DEFINE n == Len(list)
           Fails == {j \in 0..n : ~ \E f : Wrapped(list, hook, n + 1 - j, f)}
<1>0. n \in Nat
  OBVIOUS
<1>1. Fails = {}
  <2> SUFFICES ASSUME Fails # {} PROVE FALSE
    OBVIOUS
  <2>1. PICK j \in Fails : \A i \in Fails : j <= i
    <3>1. Fails \subseteq Nat
      BY <1>0
    <3> HIDE DEF Fails
    <3>2. QED BY <3>1, Least
  <2> DEFINE k == n + 1 - j
  <2>2. j \in 0..n /\ k \in 1..n + 1 /\ ~ \E f : Wrapped(list, hook, k, f)
    BY <1>0, <2>1
  <2>3. CASE j = 0
    <3> DEFINE f == [i \in n + 1..n + 1 |-> <<>>]
    <3>1. \A i \in n + 1..n + 1 : i > n
      BY <1>0
    <3>2. Wrapped(list, hook, n + 1, f)
      BY <3>1 DEF Wrapped
    <3>3. QED BY <1>0, <2>2, <2>3, <3>2
  <2>4. CASE j # 0
    <3>1. j - 1 \in 0..n /\ j - 1 \notin Fails /\ n + 1 - (j - 1) = k + 1
      <4>1. j - 1 \in 0..n /\ n + 1 - (j - 1) = k + 1 /\ ~(j <= j - 1)
        BY <1>0, <2>2, <2>4
      <4> HIDE DEF Fails
      <4>2. QED BY <2>1, <4>1
    <3>2. PICK g : Wrapped(list, hook, k + 1, g)
      BY <3>1
    <3> DEFINE head == IF Implements(list[k], hook) THEN <<list[k]>> \o g[k + 1] ELSE g[k + 1]
               f == [i \in k..n + 1 |-> IF i = k THEN head ELSE g[i]]
    <3>3. k \in 1..n /\ k \in Nat
      BY <1>0, <2>2, <2>4
    <3>4. ASSUME NEW i \in k..n + 1
          PROVE  f[i] = IF i > n THEN <<>>
                        ELSE IF Implements(list[i], hook) THEN <<list[i]>> \o f[i + 1]
                        ELSE f[i + 1]
      <4>1. CASE i = k
        <5>1. f[i] = head /\ f[i + 1] = g[k + 1] /\ ~(i > n)
          BY <1>0, <3>3, <4>1
        <5>2. QED BY <4>1, <5>1
      <4>2. CASE i # k
        <5>1. i \in k + 1..n + 1 /\ f[i] = g[i] /\ (~(i > n) => f[i + 1] = g[i + 1])
          <6>1. i \in k + 1..n + 1 /\ (~(i > n) => i + 1 \in k..n + 1 /\ i + 1 # k)
            BY <1>0, <3>3, <4>2
          <6> HIDE DEF k, head, n
          <6>2. QED BY <4>2, <6>1
        <5>2. g[i] = IF i > n THEN <<>>
                     ELSE IF Implements(list[i], hook) THEN <<list[i]>> \o g[i + 1]
                     ELSE g[i + 1]
          BY <3>2, <5>1 DEF Wrapped
        <5>3. QED BY <5>1, <5>2
      <4>3. QED BY <4>1, <4>2
    <3>5. Wrapped(list, hook, k, f)
      <4>1. f = [i \in k..n + 1 |-> f[i]]
        OBVIOUS
      <4> HIDE DEF f
      <4>2. QED BY <3>4, <4>1 DEF Wrapped
    <3>6. QED BY <2>2, <3>5
  <2>5. QED BY <2>3, <2>4
<1>2. n \in 0..n /\ n + 1 - n = 1
  BY <1>0
<1>3. QED BY <1>1, <1>2

\* What is wrapped from k on are the extensions from k on, in their order.
LEMMA WrappedFollows ==
  ASSUME NEW list \in Seq(Exts), NEW hook, NEW f, Wrapped(list, hook, 1, f)
  PROVE  \A k \in 1..Len(list) + 1 : f[k] \in Seq(Exts) /\ Follows(f[k], list, From(list, hook, k))
<1> DEFINE n == Len(list)
           Good(k) == f[k] \in Seq(Exts) /\ Follows(f[k], list, From(list, hook, k))
           Fails == {j \in 0..n : ~ Good(n + 1 - j)}
<1>0. n \in Nat
  OBVIOUS
<1>1. Fails = {}
  <2> SUFFICES ASSUME Fails # {} PROVE FALSE
    OBVIOUS
  <2>1. PICK j \in Fails : \A i \in Fails : j <= i
    <3>1. Fails \subseteq Nat
      BY <1>0
    <3> HIDE DEF Fails
    <3>2. QED BY <3>1, Least
  <2> DEFINE k == n + 1 - j
  <2>2. j \in 0..n /\ k \in 1..n + 1 /\ ~ Good(k)
    BY <1>0, <2>1
  <2>3. f[k] = IF k > n THEN <<>>
               ELSE IF Implements(list[k], hook) THEN <<list[k]>> \o f[k + 1]
               ELSE f[k + 1]
    BY <2>2 DEF Wrapped
  <2>4. CASE j = 0
    <3>1. k = n + 1 /\ f[k] = <<>>
      BY <1>0, <2>3, <2>4
    <3>2. From(list, hook, k) = {}
      <4>1. \A i \in 1..n : ~(i >= k)
        BY <1>0, <3>1
      <4>2. \A i : i \notin From(list, hook, k)
        BY <4>1 DEF From
      <4>3. QED BY <4>2
    <3>3. Follows(<<>>, list, {}) /\ <<>> \in Seq(Exts)
      BY FollowsNothing
    <3> HIDE DEF k
    <3>4. QED BY <2>2, <3>1, <3>2, <3>3
  <2>5. CASE j # 0
    <3>1. j - 1 \in 0..n /\ j - 1 \notin Fails /\ n + 1 - (j - 1) = k + 1 /\ k \in 1..n
      <4>1. j - 1 \in 0..n /\ n + 1 - (j - 1) = k + 1 /\ ~(j <= j - 1) /\ k \in 1..n
        BY <1>0, <2>2, <2>5
      <4> HIDE DEF Fails
      <4>2. QED BY <2>1, <4>1
    <3>2. Good(k + 1)
      BY <3>1
    <3>3. CASE Implements(list[k], hook)
      <4>1. f[k] = <<list[k]>> \o f[k + 1] /\ list[k] \in Exts
        BY <1>0, <2>3, <3>1, <3>3
      <4>2. From(list, hook, k) = From(list, hook, k + 1) \cup {k}
        BY <1>0, <3>1, <3>3 DEF From
      <4>3. From(list, hook, k + 1) \subseteq k + 1..n
        BY <1>0, <3>1 DEF From
      <4>4. f[k] \in Seq(Exts)
        BY <3>2, <4>1, Prepended
      <4>5. Follows(f[k], list, From(list, hook, k))
        <5> DEFINE part == f[k + 1]  rest == From(list, hook, k + 1)
        <5>1. /\ part \in Seq(Exts) /\ rest \subseteq k + 1..Len(list) /\ k \in 1..Len(list)
              /\ Follows(part, list, rest)
          BY <3>1, <3>2, <4>3
        <5> HIDE DEF part, rest, k
        <5>2. Follows(<<list[k]>> \o part, list, rest \cup {k})
          BY <5>1, FollowsFront
        <5>3. QED BY <4>1, <4>2, <5>2 DEF part, rest
      <4>6. QED BY <2>2, <4>4, <4>5
    <3>4. CASE ~Implements(list[k], hook)
      <4>1. f[k] = f[k + 1]
        BY <1>0, <2>3, <3>1, <3>4
      <4>2. From(list, hook, k) = From(list, hook, k + 1)
        <5>1. \A j2 \in 1..n : j2 >= k /\ j2 # k <=> j2 >= k + 1
          BY <1>0, <3>1
        <5>2. QED BY <3>4, <5>1 DEF From
      <4>3. QED BY <2>2, <3>2, <4>1, <4>2
    <3>5. QED BY <3>3, <3>4
  <2>6. QED BY <2>4, <2>5
<1>2. ASSUME NEW k \in 1..n + 1 PROVE Good(k)
  <2>1. n + 1 - k \in 0..n /\ n + 1 - (n + 1 - k) = k
    BY <1>0
  <2>2. n + 1 - k \notin Fails
    BY <1>1
  <2>3. QED BY <2>1, <2>2
<1>3. QED BY <1>2

\* The middleware of a hook are the extensions that implement it, first used
\* outermost.
LEMMA MiddlewareIs ==
  ASSUME exts \in Seq(Exts), NEW hook
  PROVE  /\ Middleware(hook) \in Seq(Exts)
         /\ Follows(Middleware(hook), exts, {j \in DOMAIN exts : hook \in Hooks[exts[j]]})
<1> DEFINE wrapped == CHOOSE f : Wrapped(exts, hook, 1, f)
<1>1. Wrapped(exts, hook, 1, wrapped)
  BY WrappedExists
<1>2. Middleware(hook) = wrapped[1]
  BY DEF Middleware, Wrapped
<1>3. 1 \in 1..Len(exts) + 1 /\ DOMAIN exts = 1..Len(exts)
  OBVIOUS
<1>4. From(exts, hook, 1) = {j \in DOMAIN exts : hook \in Hooks[exts[j]]}
  BY <1>3 DEF From, Implements
<1> HIDE DEF wrapped
<1>5. QED BY <1>1, <1>2, <1>3, <1>4, WrappedFollows

LEMMA MiddlewareStays ==
  ASSUME exts' = exts PROVE \A hook : Middleware(hook)' = Middleware(hook)
BY DEF Middleware

---------------------------------------------------------------------------
(* Where the call is *)

Into(part, whole) == Len(part) <= Len(whole) /\ \A i \in 1..Len(part) : part[i] = whole[i]

\* On its way in a call has entered the first of the middleware, on its way out all
\* of it; what answers in place of the operation enters none.
CallInv ==
    /\ pc \in {"setup", "dispatch"} =>
          handler = "none" /\ delivered = <<>> /\ stream = <<>> /\ events = 0 /\ first
    /\ pc \in {"setup", "ready"} => entered = <<>>
    /\ pc = "dispatch" => Into(entered, Middleware("operation"))
    /\ pc = "in" => handler = "wrapped" /\ Into(entered, Middleware("response"))
    /\ pc = "run" => handler = "wrapped" /\ entered = Middleware("response")
    /\ pc = "out" => entered = IF handler = "wrapped" THEN Middleware("response") ELSE <<>>
    /\ pc \notin {"setup", "dispatch"} => handler # "none"

LEMMA EnterNext ==
  ASSUME NEW whole \in Seq(Exts), NEW part \in Seq(Exts), Into(part, whole)
  PROVE  /\ Len(part) = Len(whole) => part = whole
         /\ Len(part) # Len(whole) =>
              /\ whole[Len(part) + 1] \in Exts
              /\ Append(part, whole[Len(part) + 1]) \in Seq(Exts)
              /\ Into(Append(part, whole[Len(part) + 1]), whole)
<1>1. Len(part) \in Nat /\ Len(whole) \in Nat /\ Len(part) <= Len(whole)
  BY DEF Into
<1>2. ASSUME Len(part) = Len(whole) PROVE part = whole
  BY <1>2 DEF Into
<1>3. ASSUME Len(part) # Len(whole)
      PROVE  /\ whole[Len(part) + 1] \in Exts
             /\ Append(part, whole[Len(part) + 1]) \in Seq(Exts)
             /\ Into(Append(part, whole[Len(part) + 1]), whole)
  <2> DEFINE e == whole[Len(part) + 1]  longer == Append(part, e)
  <2>1. e \in Exts
    BY <1>1, <1>3
  <2>2. /\ longer \in Seq(Exts) /\ Len(longer) = Len(part) + 1
        /\ longer[Len(part) + 1] = e /\ \A i \in 1..Len(part) : longer[i] = part[i]
    <3> HIDE DEF e
    <3>1. QED BY <2>1
  <2> HIDE DEF longer
  <2>3. \A i \in 1..Len(longer) : longer[i] = whole[i]
    BY <1>1, <2>2 DEF Into
  <2>4. Into(longer, whole)
    BY <1>1, <1>3, <2>2, <2>3 DEF Into
  <2>5. QED BY <2>1, <2>2, <2>4 DEF longer
<1>4. QED BY <1>2, <1>3

LEMMA CallStep ==
  ASSUME TypeOK, CallInv, [Next]_vars
  PROVE  CallInv'
<1>0. exts \in Seq(Exts) /\ entered \in Seq(Exts)
  BY DEF TypeOK
<1>1. ASSUME NEW e \in Exts, Use(e) PROVE CallInv'
  BY <1>1 DEF Use, CallInv, call, resolver
<1>2. ASSUME Produce \/ Close PROVE CallInv'
  <2>1. UNCHANGED <<exts, pc, handler, entered, first, delivered>> /\ handler = "wrapped"
    BY <1>2 DEF Produce, Close, chain, call
  <2>2. \A hook : Middleware(hook)' = Middleware(hook)
    BY <2>1, MiddlewareStays
  <2>3. QED BY <2>1, <2>2 DEF CallInv
<1>3. CASE UNCHANGED vars
  <2>1. \A hook : Middleware(hook)' = Middleware(hook)
    BY <1>3, MiddlewareStays DEF vars, chain
  <2>2. QED BY <1>3, <2>1 DEF vars, chain, call, resolver, CallInv
<1>4. ASSUME Respond PROVE CallInv'
  <2>0. exts' = exts /\ kind' = kind
    BY <1>4 DEF Respond, Begin, InterceptOperation, Exec, Call, InterceptResponse, Execute,
                RunField, Marshal, NextEvent, Deliver, Finish, chain
  <2>1. \A hook : Middleware(hook)' = Middleware(hook)
    BY <2>0, MiddlewareStays
  <2>2. \A hook : Middleware(hook) \in Seq(Exts)
    BY <1>0, MiddlewareIs
  <2>3. \A hook : Into(<<>>, Middleware(hook))
    BY <2>2 DEF Into
  <2>4. CASE Begin
    BY <2>1, <2>3, <2>4 DEF Begin, CallInv, chain, resolver
  <2>5. CASE InterceptOperation
    <3>1. /\ pc = "dispatch" /\ ~AllEntered("operation")
          /\ \/ entered' = Append(entered, NextIn("operation")) /\ UNCHANGED <<pc, handler>>
             \/ pc' = "ready" /\ handler' = "refusal" /\ entered' = <<>>
          /\ UNCHANGED <<delivered, stream, events, first>>
      BY <2>5 DEF InterceptOperation, resolver
    <3>2. Into(entered, Middleware("operation")) /\ Len(entered) # Len(Middleware("operation"))
      BY <3>1 DEF CallInv, AllEntered
    <3>3. Into(Append(entered, NextIn("operation")), Middleware("operation"))
      BY <1>0, <2>2, <3>2, EnterNext DEF NextIn
    <3>4. QED BY <2>1, <3>1, <3>3 DEF CallInv
  <2>6. CASE Exec
    BY <2>6 DEF Exec, CallInv
  <2>7. CASE Call
    BY <2>1, <2>3, <2>7 DEF Call, CallInv, resolver
  <2>8. CASE InterceptResponse
    <3>1. /\ pc = "in" /\ ~AllEntered("response")
          /\ \/ pc' = "panicked"
             \/ entered' = Append(entered, NextIn("response")) /\ UNCHANGED pc
          /\ UNCHANGED <<handler, delivered, stream, events, first>>
      BY <2>8 DEF InterceptResponse, resolver
    <3>2. Into(entered, Middleware("response")) /\ Len(entered) # Len(Middleware("response"))
      BY <3>1 DEF CallInv, AllEntered
    <3>3. Into(Append(entered, NextIn("response")), Middleware("response"))
      BY <1>0, <2>2, <3>2, EnterNext DEF NextIn
    <3>4. QED BY <2>1, <3>1, <3>3 DEF CallInv
  <2>9. CASE Execute \/ NextEvent
    <3>1. /\ pc = "in" /\ AllEntered("response") /\ pc' \in {"out", "none", "run"}
          /\ UNCHANGED <<handler, entered>>
      BY <2>9 DEF Execute, NextEvent
    <3>2. entered = Middleware("response")
      <4>1. Into(entered, Middleware("response")) /\ Len(entered) = Len(Middleware("response"))
        BY <3>1 DEF CallInv, AllEntered
      <4>2. QED BY <1>0, <2>2, <4>1, EnterNext
    <3>3. QED BY <2>1, <3>1, <3>2 DEF CallInv
  <2>10. CASE \E f \in Selected : RunField(f)
    BY <2>1, <2>10 DEF RunField, CallInv, resolver
  <2>11. CASE Marshal
    BY <2>1, <2>11 DEF Marshal, CallInv, resolver
  <2>12. CASE Deliver
    BY <2>12 DEF Deliver, CallInv, resolver
  <2>13. CASE Finish
    BY <2>13 DEF Finish, CallInv, resolver
  <2>14. QED BY <1>4, <2>4, <2>5, <2>6, <2>7, <2>8, <2>9, <2>10, <2>11, <2>12, <2>13 DEF Respond
<1>5. QED BY <1>1, <1>2, <1>3, <1>4 DEF Next

---------------------------------------------------------------------------
(* Type correctness *)

LEMMA ContextTypes ==
  ASSUME NEW c \in Contexts, NEW n \in Nat, NEW b \in BOOLEAN, NEW t \in SUBSET Selected
  PROVE  /\ Fresh \in Contexts /\ [Fresh EXCEPT !.errors = n] \in Contexts
         /\ [c EXCEPT !.errors = n] \in Contexts /\ [c EXCEPT !.tracing = b] \in Contexts
         /\ [c EXCEPT !.errors = n, !.traced = t] \in Contexts
         /\ c.errors \in Nat /\ c.tracing \in BOOLEAN /\ c.traced \in SUBSET Selected
BY DEF Contexts, Fresh

LEMMA ResponsesTypeStep ==
  ASSUME TypeOK, CallInv, [Next]_vars
  PROVE  TypeOK'
<1>1. ASSUME NEW e \in Exts, Use(e) PROVE TypeOK'
  <2>1. exts' \in Seq(Exts) /\ Len(exts') = Len(exts) + 1 /\ Len(exts) < MaxExts /\ Len(exts) \in Nat
    BY <1>1 DEF Use, TypeOK
  <2>2. UNCHANGED <<kind, once, call, resolver, delivered>>
    BY <1>1 DEF Use
  <2>3. Len(exts') <= MaxExts
    BY <2>1, ResponsesAssumption
  <2>4. QED BY <2>1, <2>2, <2>3 DEF TypeOK, call, resolver
<1>2. ASSUME Produce PROVE TypeOK'
  <2>1. events' \in 1..MaxEvents
    BY <1>2, ResponsesAssumption DEF Produce, TypeOK
  <2>2. stream' \in Seq(1..MaxEvents) /\ events' \in 0..MaxEvents
    BY <1>2, <2>1 DEF Produce, TypeOK
  <2>3. QED BY <1>2, <2>2 DEF Produce, TypeOK, chain, call
<1>3. ASSUME Close PROVE TypeOK'
  BY <1>3 DEF Close, TypeOK, chain, call
<1>4. CASE UNCHANGED vars
  BY <1>4 DEF vars, chain, call, resolver, TypeOK
<1>5. ASSUME Respond PROVE TypeOK'
  <2>0. /\ context \in Contexts /\ raised \in Nat /\ first \in BOOLEAN /\ done \subseteq Selected
        /\ dispatch \in Nat /\ kind \in Kinds /\ pc \in Pcs /\ <<>> \in Seq(Exts)
    BY DEF TypeOK
  <2>1. exts \in Seq(Exts) /\ entered \in Seq(Exts) /\ \A hook : Middleware(hook) \in Seq(Exts)
    BY MiddlewareIs DEF TypeOK
  <2>2. CASE Begin
    <3>1. context' \in Contexts
      BY <2>2, ContextTypes DEF Begin, TypeOK
    <3>2. QED BY <2>2, <3>1 DEF Begin, TypeOK, Pcs, Handlers, chain, resolver
  <2>3. CASE InterceptOperation
    <3>1. Into(entered, Middleware("operation")) /\ Len(entered) # Len(Middleware("operation"))
      BY <2>3 DEF InterceptOperation, CallInv, AllEntered
    <3>2. Append(entered, NextIn("operation")) \in Seq(Exts)
      BY <2>1, <3>1, EnterNext DEF NextIn
    <3>3. entered' = Append(entered, NextIn("operation")) \/ entered' = <<>>
      BY <2>3 DEF InterceptOperation
    <3>4. entered' \in Seq(Exts)
      BY <2>0, <3>2, <3>3
    <3>5. QED BY <2>3, <3>4 DEF InterceptOperation, TypeOK, Pcs, Handlers, chain, resolver
  <2>4. CASE Exec
    BY <2>4 DEF Exec, TypeOK, Pcs, Handlers, chain
  <2>5. CASE Call
    <3>1. context' \in Contexts
      BY <2>5, ContextTypes DEF Call, TypeOK
    <3>2. /\ pc = "ready" /\ pc' \in {"in", "out", "none"} /\ raised' \in Nat /\ first' \in BOOLEAN
          /\ UNCHANGED <<chain, handler, entered, dispatch, done, buf, resolver, delivered>>
      <4>1. /\ pc = "ready" /\ pc' \in {"in", "out", "none"} /\ raised' \in {0, raised}
            /\ UNCHANGED <<chain, handler, entered, dispatch, done, buf, resolver, delivered>>
        BY <2>5 DEF Call
      <4>2. first' = first \/ first' = FALSE
        <5>1. CASE handler = "wrapped"
          BY <2>5, <5>1 DEF Call
        <5>2. CASE handler # "wrapped"
          BY <2>5, <5>2, Zenon DEF Call
        <5>3. QED BY <5>1, <5>2, Zenon
      <4>3. first' \in BOOLEAN
        BY <2>0, <4>2, Zenon
      <4>4. QED BY <2>0, <4>1, <4>3
    <3>3. QED BY <3>1, <3>2 DEF TypeOK, Pcs, chain, resolver
  <2>6. CASE InterceptResponse
    <3>1. Into(entered, Middleware("response")) /\ Len(entered) # Len(Middleware("response"))
      BY <2>6 DEF InterceptResponse, CallInv, AllEntered
    <3>2. Append(entered, NextIn("response")) \in Seq(Exts)
      BY <2>1, <3>1, EnterNext DEF NextIn
    <3>3. entered' \in Seq(Exts)
      BY <2>1, <2>6, <3>2 DEF InterceptResponse
    <3>4. context' \in Contexts
      BY <2>6 DEF InterceptResponse, TypeOK, Contexts
    <3>5. QED BY <2>6, <3>3, <3>4 DEF InterceptResponse, TypeOK, Pcs, chain, resolver
  <2>7. CASE Execute
    <3>1. context' \in Contexts
      <4>1. context' = context \/ context' = [context EXCEPT !.errors = 1]
        BY <2>7 DEF Execute
      <4>2. QED BY ZenonT(40), <2>0, <4>1, ContextTypes
    <3>2. /\ pc' \in {"out", "none", "run"} /\ raised' \in Nat /\ first' \in BOOLEAN
          /\ done' \subseteq Selected
          /\ pc' = "run" => kind \in {"query", "mutation"} /\ ~first'
          /\ UNCHANGED <<chain, handler, entered, dispatch, buf, resolver, delivered>>
      <4>1. /\ pc' \in {"out", "none", "run"} /\ raised' \in {raised, 1} /\ done' \in {done, {}}
            /\ UNCHANGED <<chain, handler, entered, dispatch, buf, resolver, delivered>>
        BY <2>7 DEF Execute
      <4>2. pc' = "run" => kind \in {"query", "mutation"} /\ first' = FALSE
        BY <2>0, <2>7 DEF Execute, FirstAfter, Kinds
      <4>3. first' = first \/ first' = FALSE
        <5>1. CASE kind = "invalid" \/ ~first
          BY <2>7, <5>1 DEF Execute
        <5>2. CASE kind # "invalid" /\ first
          <6>1. first' = FALSE \/ first' = FirstAfter
            BY <2>7, <5>2, Zenon DEF Execute
          <6>2. QED BY <6>1, Zenon DEF FirstAfter
        <5>3. QED BY <5>1, <5>2, Zenon
      <4>4. first' \in BOOLEAN
        BY <2>0, <4>3, Zenon
      <4>5. QED BY <2>0, <4>1, <4>2, <4>4
    <3>3. QED BY <3>1, <3>2 DEF TypeOK, Pcs, chain, resolver
  <2>8. ASSUME NEW f \in Selected, RunField(f) PROVE TypeOK'
    <3>1. raised' \in Nat /\ context' \in Contexts
      <4>1. PICK n \in {0, 1} :
               /\ raised' = raised + n
               /\ context' = [context EXCEPT !.errors = @ + n, !.traced = Traced(f)]
        BY <2>8 DEF RunField
      <4>2. context \in Contexts /\ context.errors + n \in Nat /\ Traced(f) \in SUBSET Selected
        <5>1. context.errors \in Nat /\ context.traced \in SUBSET Selected
          BY <2>0, ContextTypes
        <5>2. QED BY <2>0, <5>1 DEF Traced
      <4>3. raised' \in Nat
        BY <2>0, <4>1
      <4> DEFINE sum == context.errors + n  traced == Traced(f)
      <4>4. sum \in Nat /\ traced \in SUBSET Selected /\ context' = [context EXCEPT !.errors = sum, !.traced = traced]
        BY <4>1, <4>2
      <4> HIDE DEF sum, traced
      <4>5. context' \in Contexts
        BY <2>0, <4>4, ContextTypes
      <4>6. QED BY <4>3, <4>5
    <3>2. QED BY <2>8, <3>1 DEF RunField, TypeOK, chain, resolver
  <2>9. CASE Marshal
    BY <2>9 DEF Marshal, TypeOK, Pcs, chain, resolver
  <2>10. CASE NextEvent
    <3> DEFINE E == 1..MaxEvents
    <3>0. stream \in Seq(E) /\ buf \in Seq(E)
      BY DEF TypeOK
    <3>1. /\ \/ stream # <<>> /\ stream' = Tail(stream) /\ buf' = Append(<<>>, Head(stream))
             \/ stream' = stream /\ buf' = <<>>
      BY <2>10 DEF NextEvent, Reset
    <3> HIDE DEF E
    <3>2. stream' \in Seq(E) /\ buf' \in Seq(E)
      <4>1. ASSUME stream # <<>> PROVE Head(stream) \in E /\ Tail(stream) \in Seq(E)
        BY <3>0, <4>1
      <4>2. <<>> \in Seq(E) /\ \A e \in E : Append(<<>>, e) \in Seq(E)
        OBVIOUS
      <4>3. QED BY <3>0, <3>1, <4>1, <4>2
    <3> USE DEF E
    <3>3. dispatch' \in Nat
      BY <2>10 DEF NextEvent, TypeOK
    <3>4. QED BY <2>10, <3>2, <3>3 DEF NextEvent, TypeOK, Pcs, chain
  <2>11. CASE Deliver
    <3> DEFINE r == [data |-> Data, errors |-> ErrorsOf, tracing |-> context.tracing,
                     traced |-> context.traced, through |-> entered, raised |-> raised,
                     by |-> handler]
    <3>1. Data \in Seq(1..MaxEvents) \cup {"fields", "null"}
      BY DEF Data, TypeOK
    <3>2. r \in Answer
      BY <3>1 DEF Answer, ErrorsOf, TypeOK, Contexts
    <3>3. delivered' = Append(delivered, r)
      BY <2>11 DEF Deliver
    <3> HIDE DEF r
    <3>4. delivered' \in Seq(Answer)
      BY <3>2, <3>3 DEF TypeOK
    <3>5. QED BY <2>11, <3>4 DEF Deliver, TypeOK, Pcs, chain, resolver
  <2>12. CASE Finish
    BY <2>12 DEF Finish, TypeOK, Pcs, chain, resolver
  <2>13. QED
    BY <1>5, <2>2, <2>3, <2>4, <2>5, <2>6, <2>7, <2>8, <2>9, <2>10, <2>11, <2>12 DEF Respond
<1>6. QED BY <1>1, <1>2, <1>3, <1>4, <1>5 DEF Next

LEMMA CallHolds == Spec => [](TypeOK /\ CallInv)
<1>1. Init => TypeOK /\ CallInv
  <2> SUFFICES ASSUME Init PROVE TypeOK /\ CallInv
    OBVIOUS
  <2>1. Fresh \in Contexts
    BY DEF Fresh, Contexts
  <2>2. TypeOK
    <3>1. exts = <<>> /\ context \in Contexts /\ events = 0
      BY <2>1 DEF Init
    <3>2. Len(exts) <= MaxExts /\ events \in 0..MaxEvents
      BY <3>1, ResponsesAssumption
    <3>3. /\ exts \in Seq(Exts) /\ entered \in Seq(Exts) /\ delivered \in Seq(Answer)
          /\ stream \in Seq(1..MaxEvents) /\ buf \in Seq(1..MaxEvents)
      BY DEF Init
    <3>4. /\ kind \in Kinds /\ once \in BOOLEAN /\ pc = "setup" /\ handler = "none" /\ first \in BOOLEAN
          /\ dispatch = 0 /\ done = {} /\ raised = 0 /\ closed \in BOOLEAN
      BY DEF Init
    <3>5. QED BY <3>1, <3>2, <3>3, <3>4 DEF TypeOK, Pcs, Handlers
  <2>3. CallInv
    BY DEF Init, CallInv
  <2>4. QED BY <2>2, <2>3
<1>2. TypeOK /\ CallInv /\ [Next]_vars => (TypeOK /\ CallInv)'
  BY ResponsesTypeStep, CallStep
<1>3. QED BY <1>1, <1>2, PTL DEF Spec

\* Every variable keeps its type; the next interceptor is always an extension that
\* is used, and the fields of a root only run for a query or mutation that has not
\* been answered.
THEOREM ResponsesTypeCorrect == Spec => []TypeOK
BY CallHolds, PTL

---------------------------------------------------------------------------
(* What is in a response *)

Nests(r) ==
    IF r.by = "wrapped"
    THEN Follows(r.through, exts, {j \in DOMAIN exts : "response" \in Hooks[exts[j]]})
    ELSE r.through = <<>>

Owns(r) ==
    /\ r.errors = r.raised
    /\ kind \in {"query", "mutation"} /\ r.by = "wrapped" /\ r.tracing => r.traced = Selected

\* The response context of the response that is made collects what is raised for
\* it, and only that.
ContextInv ==
    /\ pc \in {"in", "run", "out"} => context.errors = raised
    /\ pc = "in" => context.traced = {}
    /\ pc = "run" /\ context.tracing => context.traced = done
    /\ pc = "out" /\ kind \in {"query", "mutation"} /\ handler = "wrapped" /\ context.tracing
          => context.traced = Selected
    /\ \A i \in DOMAIN delivered : Owns(delivered[i])
    /\ \A i \in DOMAIN delivered : Nests(delivered[i])

\* The one answer that a step can add.
LEMMA Answered ==
  ASSUME TypeOK, Deliver
  PROVE  /\ Len(delivered) \in Nat
         /\ DOMAIN delivered = 1..Len(delivered) /\ DOMAIN delivered' = 1..Len(delivered) + 1
         /\ Len(delivered') = Len(delivered) + 1
         /\ \A i \in DOMAIN delivered : delivered'[i] = delivered[i]
         /\ LET r == delivered'[Len(delivered) + 1] IN
              /\ r.data = Data /\ r.errors = context.errors /\ r.raised = raised
              /\ r.tracing = context.tracing /\ r.traced = context.traced
              /\ r.through = entered /\ r.by = handler
<1> DEFINE r == [data |-> Data, errors |-> ErrorsOf, tracing |-> context.tracing,
                 traced |-> context.traced, through |-> entered, raised |-> raised,
                 by |-> handler]
<1>1. delivered' = Append(delivered, r) /\ delivered \in Seq(Answer)
  BY DEF Deliver, TypeOK
<1>2. /\ r.data = Data /\ r.errors = context.errors /\ r.raised = raised
      /\ r.tracing = context.tracing /\ r.traced = context.traced
      /\ r.through = entered /\ r.by = handler
  BY DEF ErrorsOf
<1> HIDE DEF r
<1>3. /\ Len(delivered) \in Nat /\ DOMAIN delivered = 1..Len(delivered)
      /\ DOMAIN delivered' = 1..Len(delivered) + 1 /\ Len(delivered') = Len(delivered) + 1
      /\ delivered'[Len(delivered) + 1] = r
      /\ \A i \in DOMAIN delivered : delivered'[i] = delivered[i]
  BY <1>1
<1>4. QED BY <1>2, <1>3

LEMMA ContextStep ==
  ASSUME TypeOK, CallInv, ContextInv, [Next]_vars
  PROVE  ContextInv'
<1>1. ASSUME UNCHANGED <<exts, kind, delivered>>
      PROVE  \A i \in DOMAIN delivered' : Owns(delivered[i])' /\ Nests(delivered[i])'
  BY <1>1 DEF ContextInv, Owns, Nests
<1>2. ASSUME NEW e \in Exts, Use(e) PROVE ContextInv'
  <2>1. delivered = <<>> /\ UNCHANGED <<kind, call, delivered>> /\ pc = "setup"
    BY <1>2 DEF Use, CallInv
  <2>2. DOMAIN delivered' = {}
    BY <2>1
  <2>3. QED BY <2>1, <2>2 DEF ContextInv, call
<1>3. ASSUME UNCHANGED <<chain, call, delivered>> PROVE ContextInv'
  BY <1>1, <1>3 DEF ContextInv, chain, call
<1>4. CASE Produce \/ Close \/ UNCHANGED vars
  BY <1>3, <1>4 DEF Produce, Close, vars
<1>5. ASSUME Respond PROVE ContextInv'
  <2>1. CASE Deliver
    <3>1. /\ pc = "out" /\ pc' \in {"over", "ready"} /\ UNCHANGED <<exts, kind, handler>>
      BY <2>1 DEF Deliver, chain
    <3> DEFINE r == delivered'[Len(delivered) + 1]
    <3>2. Owns(r)
      <4>1. r.errors = r.raised
        BY <2>1, <3>1, Answered DEF ContextInv
      <4>2. kind \in {"query", "mutation"} /\ r.by = "wrapped" /\ r.tracing => r.traced = Selected
        BY <2>1, <3>1, Answered DEF ContextInv
      <4>3. QED BY <4>1, <4>2 DEF Owns
    <3>3. Nests(r)
      <4>1. exts \in Seq(Exts) /\ r.by = handler /\ r.through = entered
        BY <2>1, Answered DEF TypeOK
      <4>2. entered = IF handler = "wrapped" THEN Middleware("response") ELSE <<>>
        BY <3>1 DEF CallInv
      <4> HIDE DEF r
      <4>3. QED BY <4>1, <4>2, MiddlewareIs DEF Nests
    <3>4. \A i \in DOMAIN delivered' : (i \in DOMAIN delivered /\ delivered'[i] = delivered[i]) \/ delivered'[i] = r
      BY <2>1, Answered
    <3>5. ASSUME NEW i \in DOMAIN delivered' PROVE Owns(delivered[i])' /\ Nests(delivered[i])'
      <4>1. Owns(delivered'[i]) /\ Nests(delivered'[i])
        BY <3>2, <3>3, <3>4 DEF ContextInv
      <4>2. QED BY <3>1, <4>1 DEF Owns, Nests
    <3>6. QED BY <3>1, <3>5 DEF ContextInv
  <2>2. ASSUME ~Deliver PROVE UNCHANGED <<exts, kind, delivered>>
    BY <1>5, <2>2 DEF Respond, Begin, InterceptOperation, Exec, Call, InterceptResponse, Execute,
                RunField, Marshal, NextEvent, Finish, chain
  <2>3. ASSUME ~Deliver PROVE \A i \in DOMAIN delivered' : Owns(delivered[i])' /\ Nests(delivered[i])'
    BY <1>1, <2>2, <2>3
  <2>4. ASSUME ~Deliver
        PROVE  /\ pc' \in {"in", "run", "out"} => context'.errors = raised'
               /\ pc' = "in" => context'.traced = {}
               /\ pc' = "run" /\ context'.tracing => context'.traced = done'
               /\ pc' = "out" /\ kind' \in {"query", "mutation"} /\ handler' = "wrapped" /\ context'.tracing
                     => context'.traced = Selected
    <3>1. CASE Begin
      BY <3>1 DEF Begin, Fresh
    <3>2. CASE InterceptOperation
      BY <3>2 DEF InterceptOperation
    <3>3. CASE Exec \/ Finish
      BY <3>3 DEF Exec, Finish
    <3>4. CASE Call
      BY <3>4 DEF Call, Fresh, TypeOK, ContextInv
    <3>5. CASE InterceptResponse
      BY <3>5 DEF InterceptResponse, ContextInv, TypeOK, Contexts
    <3>6. CASE Execute
      BY <3>6 DEF Execute, ContextInv, TypeOK, Contexts, chain
    <3>7. ASSUME NEW f \in Selected, RunField(f) PROVE <2>4!2
      BY <3>7 DEF RunField, ContextInv, TypeOK, Contexts, Traced
    <3>8. CASE Marshal
      BY <3>8 DEF Marshal, ContextInv
    <3>9. CASE NextEvent
      BY <3>9 DEF NextEvent, ContextInv, chain
    <3>10. QED BY <1>5, <2>4, <3>1, <3>2, <3>3, <3>4, <3>5, <3>6, <3>7, <3>8, <3>9 DEF Respond
  <2>5. QED BY <2>1, <2>3, <2>4 DEF ContextInv
<1>6. QED BY <1>2, <1>4, <1>5 DEF Next

\* A response has been through all extensions with the response hook, the first used
\* outermost, and whatever answers in place of the operation through none
\* (extensions.go:66-95, executor.go:97-118).
THEOREM ResponsesAreNested == Spec => []ResponsesNest
<1>1. Init => ContextInv
  <2> SUFFICES ASSUME Init PROVE ContextInv
    OBVIOUS
  <2>1. DOMAIN delivered = {} /\ pc = "setup"
    BY DEF Init
  <2>2. QED BY <2>1 DEF ContextInv
<1>2. TypeOK /\ CallInv /\ ContextInv /\ [Next]_vars => ContextInv'
  BY ContextStep
<1>3. ContextInv => ResponsesNest
  BY DEF ContextInv, ResponsesNest, Nests
<1>4. QED BY <1>1, <1>2, <1>3, CallHolds, PTL DEF Spec

\* The errors raised for a response and the traces of its fields are in it and in no
\* other (executor.go:96-111, 124-138, context_response.go:45-52,
\* apollotracing/tracer.go:57-114).
THEOREM EachStaysInItsResponse == Spec => []EachInItsResponse
<1>1. Init => ContextInv
  <2> SUFFICES ASSUME Init PROVE ContextInv
    OBVIOUS
  <2>1. DOMAIN delivered = {} /\ pc = "setup"
    BY DEF Init
  <2>2. QED BY <2>1 DEF ContextInv
<1>2. TypeOK /\ CallInv /\ ContextInv /\ [Next]_vars => ContextInv'
  BY ContextStep
<1>3. ContextInv => EachInItsResponse
  BY DEF ContextInv, EachInItsResponse, Owns
<1>4. QED BY <1>1, <1>2, <1>3, CallHolds, PTL DEF Spec

---------------------------------------------------------------------------
(* How many responses, and the events they are *)

Streams == kind = "subscription" /\ handler \notin {"refusal", "failure"}

\* Events of the stream that have been made a response.
Taken == IF pc = "out" THEN Len(delivered) + 1 ELSE Len(delivered)

\* The channel holds the events that come next; the one buffer that of the response
\* on its way.
StreamInv ==
    Streams =>
        /\ events = Taken + Len(stream)
        /\ \A j \in 1..Len(stream) : stream[j] = Taken + j
        /\ pc = "out" => buf = <<Taken>>
        /\ \A i \in DOMAIN delivered : delivered[i].by = "wrapped" => delivered[i].data = <<i>>

\* Until first is cleared nothing was answered, and once it is only what is on its
\* way will be.
OnceInv ==
    ~Streams =>
        /\ Len(delivered) <= 1
        /\ pc \in {"run", "out"} => delivered = <<>> /\ (kind # "invalid" => ~first)
        /\ pc \in {"ready", "in"} /\ first => delivered = <<>>
        /\ kind = "invalid" /\ pc # "over" => delivered = <<>>

LEMMA StreamStep ==
  ASSUME TypeOK, CallInv, TypeOK', StreamInv, [Next]_vars
  PROVE  StreamInv'
<1>0. /\ Len(delivered) \in Nat /\ Taken \in Nat
      /\ stream \in Seq(1..MaxEvents) /\ Len(stream) \in Nat /\ events \in Nat
  BY SMTT(30), ResponsesAssumption DEF TypeOK, Taken
<1>1. ASSUME UNCHANGED <<kind, handler, stream, events, delivered>>, pc # "out", pc' # "out"
      PROVE  StreamInv'
  BY <1>1 DEF StreamInv, Streams, Taken
<1>2. ASSUME UNCHANGED <<kind, handler, pc, buf, delivered, stream, events>>
      PROVE  StreamInv'
  BY <1>2 DEF StreamInv, Streams, Taken
<1>3. CASE (\E e \in Exts : Use(e)) \/ Close \/ UNCHANGED vars
  <2>1. UNCHANGED <<kind, handler, pc, buf, delivered, stream, events>>
    BY <1>3 DEF Use, Close, vars, chain, call, resolver
  <2>2. QED BY <1>2, <2>1
<1>4. CASE Produce
  <2> DEFINE n == Len(stream)
  <2>1. /\ events' = events + 1 /\ stream' = Append(stream, events + 1)
        /\ UNCHANGED <<kind, handler, pc, buf, delivered>>
    BY <1>4 DEF Produce, chain, call
  <2>2. Streams' = Streams /\ Taken' = Taken
    BY <2>1 DEF Streams, Taken
  <2>3. /\ Len(stream') = n + 1 /\ stream'[n + 1] = events + 1
        /\ \A j \in 1..n : stream'[j] = stream[j]
    BY <1>0, <2>1
  <2>4. ASSUME Streams
        PROVE  events' = Taken + Len(stream') /\ \A j \in 1..Len(stream') : stream'[j] = Taken + j
    <3>1. events = Taken + n /\ \A j \in 1..n : stream[j] = Taken + j
      BY <2>4 DEF StreamInv
    <3> HIDE DEF n
    <3>2. QED BY <1>0, <2>1, <2>3, <3>1 DEF n
  <2>5. QED BY <2>1, <2>2, <2>4 DEF StreamInv
<1>5. CASE Respond
  <2>1. CASE Begin \/ InterceptResponse \/ Finish
    BY <1>1, <2>1 DEF Begin, InterceptResponse, Finish, CallInv, chain, resolver, StreamInv, Streams, Taken
  <2>2. CASE InterceptOperation \/ Exec
    <3>1. /\ pc = "dispatch" /\ pc' \in {"dispatch", "ready"} /\ UNCHANGED <<delivered, stream, events>>
      BY <2>2 DEF InterceptOperation, Exec, resolver
    <3>2. delivered = <<>> /\ stream = <<>> /\ events = 0
      BY <3>1 DEF CallInv
    <3>3. Taken' = 0 /\ Len(stream') = 0 /\ DOMAIN delivered' = {} /\ events' = 0
      BY <3>1, <3>2 DEF Taken
    <3>4. QED BY <3>1, <3>3 DEF StreamInv
  <2>3. CASE Call
    <3>1. CASE handler = "wrapped"
      BY <1>1, <2>3, <3>1 DEF Call, chain, resolver
    <3>2. CASE handler # "wrapped"
      <4>1. ~Streams'
        BY <2>3, <3>2 DEF Call, CallInv, Streams, TypeOK, Handlers
      <4>2. QED BY <4>1 DEF StreamInv
    <3>3. QED BY <3>1, <3>2
  <2>4. CASE Execute \/ Marshal \/ \E f \in Selected : RunField(f)
    <3>1. kind # "subscription" /\ kind' = kind
      BY <2>4 DEF Execute, Marshal, RunField, TypeOK, chain
    <3>2. QED BY <3>1 DEF StreamInv, Streams
  <2>5. CASE NextEvent
    <3>1. /\ pc = "in" /\ UNCHANGED <<kind, handler, events, delivered>>
          /\ \/ /\ stream # <<>> /\ buf' = Append(<<>>, Head(stream))
                /\ stream' = Tail(stream) /\ pc' = "out"
             \/ pc' = "none" /\ UNCHANGED stream
      BY <2>5 DEF NextEvent, Reset, chain
    <3>2. CASE pc' = "none"
      BY <1>1, <3>1, <3>2
    <3>3. CASE pc' = "out"
      <4> DEFINE n == Len(stream)
      <4>1. /\ n \in Nat /\ n # 0 /\ Len(stream') = n - 1 /\ buf' = <<stream[1]>>
            /\ \A j \in 1..n - 1 : stream'[j] = stream[j + 1]
        <5>1. stream # <<>> /\ buf' = Append(<<>>, Head(stream)) /\ stream' = Tail(stream)
          BY <3>1, <3>3
        <5>2. QED BY <1>0, <5>1
      <4>2. Streams' = Streams /\ Taken' = Taken + 1 /\ Taken = Len(delivered)
        BY <3>1, <3>3 DEF Streams, Taken
      <4>3. ASSUME Streams
            PROVE  /\ events' = Taken' + Len(stream')
                   /\ \A j \in 1..Len(stream') : stream'[j] = Taken' + j
                   /\ buf' = <<Taken'>>
        <5>1. events = Taken + n /\ \A j \in 1..n : stream[j] = Taken + j
          BY <4>3 DEF StreamInv
        <5> HIDE DEF n
        <5>2. stream[1] = Taken + 1 /\ \A j \in 1..n - 1 : stream[j + 1] = Taken + (j + 1)
          BY <4>1, <5>1
        <5>3. QED BY <1>0, <3>1, <4>1, <4>2, <5>1, <5>2
      <4>4. QED BY <3>1, <4>2, <4>3 DEF StreamInv
    <3>4. QED BY <3>1, <3>2, <3>3
  <2>6. CASE Deliver
    <3>1. /\ pc = "out" /\ pc' \in {"over", "ready"} /\ UNCHANGED <<kind, handler, stream, events>>
      BY <2>6 DEF Deliver, chain, resolver
    <3> DEFINE n == Len(delivered)
    <3>2. /\ DOMAIN delivered = 1..n /\ DOMAIN delivered' = 1..n + 1 /\ Len(delivered') = n + 1
          /\ \A i \in 1..n : delivered'[i] = delivered[i]
          /\ delivered'[n + 1].data = Data /\ n \in Nat
      BY <1>0, <2>6, Answered
    <3>3. Streams' = Streams /\ Taken' = Taken /\ Taken = n + 1
      BY <3>1, <3>2 DEF Streams, Taken
    <3>4. ASSUME Streams, NEW i \in 1..n + 1, delivered'[i].by = "wrapped"
          PROVE  delivered'[i].data = <<i>>
      <4>1. CASE i = n + 1
        <5>1. handler = "wrapped" /\ kind = "subscription"
          BY <3>1, <3>4 DEF CallInv, Streams, TypeOK, Handlers
        <5>2. Data = buf /\ buf = <<Taken>>
          BY <3>1, <3>4, <5>1 DEF Data, StreamInv
        <5>3. QED BY <3>2, <3>3, <4>1, <5>2
      <4>2. CASE i # n + 1
        <5>1. i \in 1..n
          BY <3>2, <4>2
        <5>2. QED BY <3>2, <3>4, <5>1 DEF StreamInv
      <4>3. QED BY <4>1, <4>2
    <3>5. QED BY <3>1, <3>2, <3>3, <3>4 DEF StreamInv
  <2>7. QED BY <1>5, <2>1, <2>2, <2>3, <2>4, <2>5, <2>6 DEF Respond
<1>6. QED BY <1>3, <1>4, <1>5 DEF Next

LEMMA OnceStep ==
  ASSUME TypeOK, CallInv, OnceInv, [Next]_vars
  PROVE  OnceInv'
<1>1. ASSUME UNCHANGED <<kind, handler, pc, first, delivered>>
      PROVE  OnceInv'
  BY <1>1 DEF OnceInv, Streams
<1>2. CASE (\E e \in Exts : Use(e)) \/ Produce \/ Close \/ UNCHANGED vars
  <2>1. UNCHANGED <<kind, handler, pc, first, delivered>>
    BY <1>2 DEF Use, Produce, Close, vars, chain, call
  <2>2. QED BY <1>1, <2>1
<1>3. CASE Respond
  <2>1. CASE Begin \/ InterceptOperation \/ Exec
    <3>1. delivered = <<>> /\ UNCHANGED delivered
      BY <2>1 DEF Begin, InterceptOperation, Exec, CallInv, resolver
    <3>2. Len(delivered') = 0 /\ delivered' = <<>> /\ pc' \notin {"run", "out"}
      BY <2>1, <3>1 DEF Begin, InterceptOperation, Exec
    <3>3. QED BY <3>2 DEF OnceInv
  <2>2. CASE Call
    <3>1. CASE handler = "wrapped"
      BY <2>2, <3>1 DEF Call, OnceInv, Streams, chain, resolver
    <3>2. CASE handler # "wrapped"
      BY <2>2, <3>2 DEF Call, OnceInv, Streams, CallInv, TypeOK, Handlers, chain, resolver
    <3>3. QED BY <3>1, <3>2
  <2>3. CASE InterceptResponse \/ Finish
    BY <2>3 DEF InterceptResponse, Finish, OnceInv, Streams, chain, resolver
  <2>4. CASE Execute
    BY <2>4 DEF Execute, FirstAfter, OnceInv, Streams, chain, resolver
  <2>5. CASE Marshal \/ \E f \in Selected : RunField(f)
    BY <2>5 DEF Marshal, RunField, OnceInv, Streams, chain, resolver
  <2>6. CASE NextEvent
    <3>1. Streams'
      BY <2>6 DEF NextEvent, CallInv, Streams, chain
    <3>2. QED BY <3>1 DEF OnceInv
  <2>7. CASE Deliver
    <3>1. /\ pc = "out" /\ pc' \in {"over", "ready"} /\ UNCHANGED <<kind, handler, first>>
          /\ kind = "invalid" => pc' = "over"
      BY <2>7 DEF Deliver, chain
    <3>2. ASSUME ~Streams PROVE Len(delivered') <= 1
      <4>1. delivered = <<>>
        BY <3>1, <3>2 DEF OnceInv
      <4>2. Len(delivered') = Len(delivered) + 1 /\ Len(delivered) = 0
        BY <2>7, <4>1, Answered
      <4>3. QED BY <4>2
    <3>3. ~Streams /\ pc' = "ready" => ~first
      BY <3>1 DEF OnceInv
    <3>4. Streams' = Streams
      BY <3>1 DEF Streams
    <3>5. ~Streams /\ pc' = "ready" => ~first'
      <4>1. first' = first
        BY <3>1
      <4>2. QED BY <3>3, <4>1, Zenon
    <3>6. QED BY <3>1, <3>2, <3>4, <3>5 DEF OnceInv
  <2>8. QED BY <1>3, <2>1, <2>2, <2>3, <2>4, <2>5, <2>6, <2>7 DEF Respond
<1>4. QED BY <1>2, <1>3 DEF Next

\* A subscription is answered by its events, in order and none twice, though their
\* responses share a buffer, and everything else at most once, however often the
\* transport asks (generated!.gotpl:122-124, 170-183, oneshot.go:5-16).
THEOREM EventsComeInOrder == Spec => []EventsInOrder
<1>1. Init => StreamInv /\ OnceInv
  <2> SUFFICES ASSUME Init PROVE StreamInv /\ OnceInv
    OBVIOUS
  <2>1. /\ delivered = <<>> /\ stream = <<>> /\ events = 0 /\ pc = "setup"
        /\ Len(delivered) = 0 /\ Len(stream) = 0 /\ DOMAIN delivered = {}
    BY DEF Init
  <2>2. Taken = 0
    BY <2>1 DEF Taken
  <2>3. QED BY <2>1, <2>2 DEF StreamInv, OnceInv
<1>2. TypeOK /\ CallInv /\ TypeOK' /\ StreamInv /\ OnceInv /\ [Next]_vars => (StreamInv /\ OnceInv)'
  BY StreamStep, OnceStep
<1>3. StreamInv /\ OnceInv => EventsInOrder
  BY DEF StreamInv, OnceInv, EventsInOrder, Streams
<1>4. QED BY <1>1, <1>2, <1>3, CallHolds, PTL DEF Spec
=============================================================================
