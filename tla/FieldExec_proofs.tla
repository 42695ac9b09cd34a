-------------------------- MODULE FieldExec_proofs --------------------------
(***************************************************************************)
(* What holds of FieldExec for every selection and every outcome of its    *)
(* resolvers.  TypeCorrect is inductive as it stands.  Nested and          *)
(* NullsPropagate hold when no element of a list panics, and need to know  *)
(* of one another: the counter of an object is right because its fields    *)
(* return only while it is open.  ResponseIsSelection then shows every     *)
(* step to be a step of Selection, or none: an error is recorded by the    *)
(* position it belongs to, and what is below a stored result stands still. *)
(***************************************************************************)
EXTENDS FieldExec, TLAPS

LEMMA ParentOf ==
  ASSUME NEW n \in Nodes
  PROVE  n \in Fields \cup Elements => n # Root /\ Parent[n] \in Nodes
BY SelectionAssumption DEF Fields, Elements

\* A position that returns has a result, and its object a counter.
LEMMA ReturnType ==
  ASSUME TypeOK, NEW n \in Nodes, NEW v \in {"null", "value"}, Return(n, v)
  PROVE  /\ pc' \in [Nodes -> Pcs] /\ res' \in [Nodes -> {"unset", "null", "value"}]
         /\ invalids' \in [Nodes -> Nat]
         /\ pc' = [pc EXCEPT ![n] = "returned"] /\ res' = [res EXCEPT ![n] = v]
<1>1. invalids' \in [Nodes -> Nat]
  BY ParentOf DEF Return, Spoils, TypeOK
<1>2. QED BY <1>1 DEF Return, TypeOK, Pcs

LEMMA AddErrorType ==
  ASSUME TypeOK, NEW n \in Nodes, AddError(n)
  PROVE  errs' \in [Nodes -> Nat]
BY DEF AddError, TypeOK

\* Every reachable state is well typed; a position that returned has a result,
\* one that started an outcome.
THEOREM TypeCorrect == Spec => []TypeOK
<1>1. Init => TypeOK
  BY DEF Init, TypeOK, Pcs
<1>2. TypeOK /\ [Next]_vars => TypeOK'
  <2> SUFFICES ASSUME TypeOK, [Next]_vars PROVE TypeOK'
    OBVIOUS
  <2>1. CASE UNCHANGED vars
    BY <2>1 DEF vars, TypeOK
  <2>2. ASSUME NEW n \in Nodes, Resolve(n) PROVE TypeOK'
    <3>1. PICK o \in Outcomes[n] : outcome' = [outcome EXCEPT ![n] = o]
      BY <2>2 DEF Resolve
    <3>2. o \in AllOutcomes /\ outcome' \in [Nodes -> AllOutcomes \cup {"none"}] /\ o # "none"
      BY <3>1, SelectionAssumption DEF TypeOK, AllOutcomes
    <3>3. errs' \in [Nodes -> Nat]
      BY <2>2, AddErrorType DEF Resolve, TypeOK
    <3>4. \/ Return(n, "value") \/ Return(n, "null")
          \/ \E l \in {"open", "nil", "raise", "panicked"} : Goto(n, l)
      BY <2>2 DEF Resolve
    <3>5. CASE Return(n, "value") \/ Return(n, "null")
      BY <2>2, <3>1, <3>2, <3>3, <3>5, ReturnType DEF Resolve, TypeOK
    <3>6. CASE \E l \in {"open", "nil", "raise", "panicked"} : Goto(n, l)
      BY <2>2, <3>1, <3>2, <3>3, <3>6 DEF Resolve, Goto, TypeOK, Pcs
    <3>7. QED BY <3>4, <3>5, <3>6
  <2>3. ASSUME NEW n \in Nodes, Look(n) PROVE TypeOK'
    <3>1. CASE Return(n, "null")
      BY <2>3, <3>1, ReturnType DEF Look, TypeOK
    <3>2. CASE Goto(n, "complain")
      BY <2>3, <3>2 DEF Look, Goto, TypeOK, Pcs
    <3>3. QED BY <2>3, <3>1, <3>2 DEF Look
  <2>4. ASSUME NEW n \in Nodes, Raise(n) PROVE TypeOK'
    BY <2>4, ReturnType, AddErrorType DEF Raise, ReturnedOnError, TypeOK
  <2>5. ASSUME NEW n \in Nodes, Close(n) PROVE TypeOK'
    <3>1. Return(n, "null") \/ Return(n, "value")
      BY <2>5 DEF Close
    <3>2. QED BY <2>5, <3>1, ReturnType DEF Close, TypeOK
  <2>6. ASSUME NEW n \in Nodes, Store(n) PROVE TypeOK'
    <3>1. \E l \in {"panicked", "stored"} : Goto(n, l)
      BY <2>6 DEF Store
    <3>2. QED BY <2>6, <3>1 DEF Store, Goto, TypeOK, Pcs
  <2>7. ASSUME NEW n \in Nodes, UnwindElement(n) PROVE TypeOK'
    <3>1. pc[n] # "idle" /\ \E l \in {"recovering", "clearing", "dead"} : Goto(n, l)
      BY <2>7 DEF UnwindElement, Unwind
    <3>2. errs' \in [Nodes -> Nat]
      BY <2>7, AddErrorType DEF UnwindElement, Unwind, TypeOK
    <3>3. cleared' \in [Nodes -> BOOLEAN]
      BY <2>7 DEF UnwindElement, Unwind, TypeOK
    <3>4. PICK l \in {"recovering", "clearing", "dead"} : Goto(n, l)
      BY <3>1
    <3>5. /\ pc' = [pc EXCEPT ![n] = l] /\ pc' \in [Nodes -> Pcs]
          /\ UNCHANGED <<res, invalids, outcome, answer, sent>>
      BY <2>7, <3>4 DEF UnwindElement, Goto, TypeOK, Pcs
    <3>6. QED BY <3>1, <3>2, <3>3, <3>5 DEF TypeOK
  <2>8. CASE Marshal
    BY <2>8 DEF Marshal, TypeOK
  <2>9. CASE Send
    BY <2>9 DEF Send, TypeOK
  <2>10. QED BY <2>1, <2>2, <2>3, <2>4, <2>5, <2>6, <2>7, <2>8, <2>9 DEF Next, Step
<1>3. QED BY <1>1, <1>2, PTL DEF Spec

---------------------------------------------------------------------------
(* Nested and NullsPropagate *)

NoElementPanics == \A n \in Elements : "panic" \notin Outcomes[n]

Calm == \A n \in Nodes : pc[n] \notin {"panicked", "recovering", "clearing", "dead"}
                        /\ ~cleared[n]
Returned == \A n \in Nodes : res[n] # "unset" <=> pc[n] \in {"returned", "stored"}
Counted ==
    \A p \in Nodes : invalids[p] > 0 <=> \E k \in KidsOf(p) : Spoils(k, res[k])
Explained ==
    \A n \in Nodes :
        /\ pc[n] \in {"nil", "complain", "raise"} => Failed(outcome[n])
        /\ pc[n] = "open" => outcome[n] = "ok"

\* A position whose object is not open has not started or is done for good.
IInv == TypeOK /\ Calm /\ Returned /\ Counted /\ Explained /\ Nested /\ NullsPropagate

\* The four kinds of step a position makes when no element panics.
Ends(n) ==
    \E v \in {"null", "value"} :
        /\ Return(n, v)
        /\ \/ v = "null" /\ Failed(outcome'[n])
           \/ v = "value" /\ Kind[n] = "leaf" /\ outcome'[n] = "ok"
           \/ /\ pc[n] = "open" /\ outcome'[n] = "ok"
              /\ \A k \in KidsOf(n) : Finished(k)
              /\ v = "null" <=> invalids[n] > 0
Opens(n) == pc[n] = "idle" /\ outcome'[n] = "ok" /\ Goto(n, "open")
Fails(n) == \E l \in {"nil", "complain", "raise"} : Failed(outcome'[n]) /\ Goto(n, l)
Stores(n) == pc[n] = "returned" /\ outcome' = outcome /\ Goto(n, "stored")

LEMMA StepKinds ==
  ASSUME NoElementPanics, IInv, NEW n \in Nodes, Step(n)
  PROVE  /\ Ends(n) \/ Opens(n) \/ Fails(n) \/ Stores(n)
         /\ pc[n] \notin {"stored", "panicked", "recovering", "clearing", "dead"}
         /\ pc[n] = "idle" => CanStart(n)
         /\ Stores(n) \/ pc[n] # "returned"
         /\ \A m \in Nodes \ {n} : outcome'[m] = outcome[m]
         /\ cleared' = cleared
<1>1. CASE Resolve(n)
  <2>1. PICK o \in Outcomes[n] :
          /\ outcome' = [outcome EXCEPT ![n] = o]
          /\ \/ (o = "ok" /\ Kind[n] = "leaf" /\ Return(n, "value") /\ UNCHANGED errs)
             \/ (o = "ok" /\ Kind[n] # "leaf" /\ Goto(n, "open") /\ UNCHANGED errs)
             \/ (o = "nil" /\ n \in NonNull /\ Goto(n, "nil") /\ UNCHANGED errs)
             \/ (o = "nil" /\ n \notin NonNull /\ Return(n, "null") /\ UNCHANGED errs)
             \/ (o = "typedNil" /\ Return(n, "null") /\ UNCHANGED errs)
             \/ (o = "reported" /\ n \in NonNull /\ Goto(n, "nil") /\ AddError(n))
             \/ (o = "reported" /\ n \notin NonNull /\ Return(n, "null") /\ AddError(n))
             \/ (o = "error" /\ Goto(n, "raise") /\ UNCHANGED errs)
             \/ (o = "panic" /\ n \notin Elements /\ Goto(n, "raise") /\ UNCHANGED errs)
             \/ (o = "panic" /\ n \in Elements /\ Goto(n, "panicked") /\ UNCHANGED errs)
    BY <1>1 DEF Resolve
  <2>2. outcome'[n] = o /\ (o = "panic" => n \notin Elements)
    BY <2>1 DEF NoElementPanics, IInv, TypeOK
  <2>3. Ends(n) \/ Opens(n) \/ Fails(n)
    BY <1>1, <2>1, <2>2 DEF Resolve, Ends, Opens, Fails, Failed
  <2>4. QED BY <1>1, <2>1, <2>3 DEF Resolve, IInv, TypeOK
<1>2. CASE Look(n)
  <2>1. Failed(outcome[n])
    BY <1>2 DEF Look, IInv, Explained
  <2>2. QED BY <1>2, <2>1 DEF Look, Ends, Fails
<1>3. CASE Raise(n)
  <2>1. Failed(outcome[n])
    BY <1>3 DEF Raise, IInv, Explained
  <2>2. QED BY <1>3, <2>1 DEF Raise, Ends, ReturnedOnError
<1>4. CASE Close(n)
  <2>1. outcome[n] = "ok" /\ outcome' = outcome
    BY <1>4 DEF Close, IInv, Explained
  <2>2. QED BY <1>4, <2>1 DEF Close, Ends
<1>5. CASE Store(n)
  <2>1. n \in Elements => ~cleared[Parent[n]]
    BY ParentOf DEF IInv, Calm
  <2>2. QED BY <1>5, <2>1 DEF Store, Stores
<1>6. CASE UnwindElement(n)
  BY <1>6 DEF UnwindElement, Unwind, IInv, Calm
<1>7. QED BY <1>1, <1>2, <1>3, <1>4, <1>5, <1>6 DEF Step

\* What else every such step does: it leaves the other positions alone, and a
\* result changes only from unset, on return.
LEMMA StepFrame ==
  ASSUME NoElementPanics, IInv, NEW n \in Nodes, Step(n)
  PROVE  /\ \A m \in Nodes \ {n} : pc'[m] = pc[m] /\ res'[m] = res[m]
         /\ pc'[n] \in {"nil", "complain", "raise", "open", "returned", "stored"}
         /\ pc'[n] = "open" => pc[n] = "idle" /\ outcome'[n] = "ok"
         /\ pc'[n] \in {"nil", "complain", "raise"} => Failed(outcome'[n])
         /\ pc'[n] = "stored" => Stores(n)
         /\ pc'[n] = "returned" => Ends(n) /\ res[n] = "unset" /\ res'[n] \in {"null", "value"}
         /\ pc'[n] # "returned" => res'[n] = res[n]
<1>1. CASE Ends(n)
  <2>1. PICK v \in {"null", "value"} : Return(n, v)
    BY <1>1 DEF Ends
  <2>2. pc'[n] = "returned" /\ res'[n] = v
    BY <2>1 DEF Return, IInv, TypeOK
  <2>3. ~Stores(n)
    BY <2>2 DEF Stores, Goto, IInv, TypeOK
  <2>4. pc[n] \notin {"returned", "stored"}
    BY <2>3, StepKinds
  <2>5. res[n] = "unset"
    BY <2>4 DEF IInv, Returned
  <2>6. QED BY <1>1, <2>1, <2>2, <2>5 DEF Return, IInv, TypeOK
<1>2. CASE Opens(n) \/ Fails(n) \/ Stores(n)
  BY <1>2 DEF Opens, Fails, Stores, Goto, IInv, TypeOK
<1>3. QED BY <1>1, <1>2, StepKinds

LEMMA KidOf ==
  ASSUME NEW p \in Nodes, NEW k \in KidsOf(p)
  PROVE  k \in Nodes \ {Root} /\ Parent[k] = p /\ k # p
BY SelectionAssumption DEF KidsOf

\* A finished kid of a calm state is stored.
LEMMA FinishedStored ==
  ASSUME IInv, NEW k \in Nodes, Finished(k)
  PROVE  pc[k] = "stored"
BY DEF Finished, IInv, Calm

LEMMA NestedStep ==
  ASSUME NoElementPanics, IInv, NEW n \in Nodes, Step(n)
  PROVE  Nested'
<1> SUFFICES ASSUME NEW m \in Nodes \ {Root}, pc'[m] \notin {"idle", "stored", "dead"}
             PROVE  pc'[Parent[m]] = "open"
  BY DEF Nested
<1>1. Parent[m] \in Nodes /\ Parent[m] # m
  BY SelectionAssumption
<1>2. CASE m = n
  <2>1. pc[n] = "idle" => pc[Parent[n]] = "open"
    BY <1>2, StepKinds DEF CanStart
  <2>2. pc[n] # "idle" => pc[Parent[n]] = "open"
    BY <1>2, StepKinds DEF IInv, Nested
  <2>3. QED BY <1>1, <1>2, <2>1, <2>2, StepFrame
<1>3. CASE m # n /\ Parent[m] # n
  BY <1>1, <1>3, StepFrame DEF IInv, Nested
<1>4. CASE m # n /\ Parent[m] = n
  <2>1. pc[n] = "open" /\ pc'[m] = pc[m] /\ pc[m] # "stored"
    BY <1>4, StepFrame DEF IInv, Nested
  <2>2. outcome[n] = "ok" /\ outcome'[n] = "ok" /\ ~Stores(n) /\ Kind[n] # "leaf"
    <3>1. outcome[n] = "ok" /\ ~Stores(n) /\ Kind[n] # "leaf"
      BY <1>4, <2>1, SelectionAssumption DEF IInv, Explained, Stores
    <3>2. outcome' = outcome
      <4>1. ~Resolve(n)
        BY <2>1 DEF Resolve
      <4>2. QED BY <4>1 DEF Step, Look, Raise, Close, Store, UnwindElement
    <3>3. QED BY <3>1, <3>2
  <2>3. ~Opens(n) /\ ~Fails(n)
    BY <2>1, <2>2 DEF Opens, Fails, Failed
  <2>4. Ends(n)
    BY <2>2, <2>3, StepKinds
  <2>5. \A k \in KidsOf(n) : Finished(k)
    BY <2>2, <2>4 DEF Ends, Failed
  <2>6. m \in KidsOf(n)
    BY <1>4 DEF KidsOf
  <2>7. QED BY <2>1, <2>5, <2>6, FinishedStored
<1>5. QED BY <1>2, <1>3, <1>4

LEMMA SimpleParts ==
  ASSUME NoElementPanics, IInv, NEW n \in Nodes, Step(n)
  PROVE  Calm' /\ Returned' /\ Explained'
<1>1. Calm'
  BY StepKinds, StepFrame DEF IInv, Calm
<1>2. Returned'
  <2> SUFFICES ASSUME NEW m \in Nodes
               PROVE  res'[m] # "unset" <=> pc'[m] \in {"returned", "stored"}
    BY DEF Returned
  <2>1. CASE m # n
    BY <2>1, StepFrame DEF IInv, Returned
  <2>2. CASE m = n /\ pc'[n] = "returned"
    BY <2>2, StepFrame
  <2>3. CASE m = n /\ pc'[n] = "stored"
    BY <2>3, StepFrame DEF Stores, IInv, Returned
  <2>4. CASE m = n /\ pc'[n] \in {"nil", "complain", "raise", "open"}
    <3>1. ~Stores(n)
      BY <2>4 DEF Stores, Goto, IInv, TypeOK
    <3>2. QED BY <2>4, <3>1, StepKinds, StepFrame DEF IInv, Returned
  <2>5. QED BY <2>1, <2>2, <2>3, <2>4, StepFrame
<1>3. Explained'
  BY StepKinds, StepFrame DEF IInv, Explained
<1>4. QED BY <1>1, <1>2, <1>3

\* The counter of an object moves exactly when a field that spoils it returns.
LEMMA CountedStep ==
  ASSUME NoElementPanics, IInv, NEW n \in Nodes, Step(n)
  PROVE  Counted'
<1>1. CASE ~Ends(n)
  <2>1. res' = res /\ invalids' = invalids
    BY <1>1, StepKinds DEF Opens, Fails, Stores, Goto
  <2>2. QED BY <2>1 DEF IInv, Counted, Spoils
<1>2. CASE Ends(n)
  <2>1. PICK v \in {"null", "value"} : Return(n, v)
    BY <1>2 DEF Ends
  <2>2. /\ res' = [res EXCEPT ![n] = v] /\ res[n] = "unset" /\ res'[n] = v
        /\ \A k \in Nodes \ {n} : res'[k] = res[k]
    <3>1. res' = [res EXCEPT ![n] = v] /\ pc'[n] = "returned"
      BY <2>1 DEF Return, IInv, TypeOK
    <3>2. QED BY <3>1, StepFrame DEF IInv, TypeOK
  <2> SUFFICES ASSUME NEW p \in Nodes
               PROVE  invalids'[p] > 0 <=> \E k \in KidsOf(p) : Spoils(k, res'[k])
    BY DEF Counted
  <2>3. invalids[p] > 0 <=> \E k \in KidsOf(p) : Spoils(k, res[k])
    BY DEF IInv, Counted
  <2>4. \A k \in KidsOf(p) : k \in Nodes /\ (k = n <=> k = n /\ Parent[n] = p)
    BY KidOf
  <2>5. ~Spoils(n, res[n])
    BY <2>2 DEF Spoils
  <2>6. CASE Spoils(n, v) /\ Parent[n] = p
    <3>1. n \in KidsOf(p)
      BY <2>6 DEF Spoils, Fields, KidsOf
    <3>2. invalids'[p] > 0
      BY <2>1, <2>6 DEF Return, IInv, TypeOK
    <3>3. QED BY <2>2, <2>6, <3>1, <3>2
  <2>7. CASE ~Spoils(n, v)
    <3>1. invalids' = invalids
      BY <2>1, <2>7 DEF Return
    <3>2. \A k \in KidsOf(p) : Spoils(k, res'[k]) <=> Spoils(k, res[k])
      BY <2>2, <2>4, <2>5, <2>7
    <3>3. QED BY <2>3, <3>1, <3>2
  <2>8. CASE Spoils(n, v) /\ Parent[n] # p
    <3>1. invalids'[p] = invalids[p]
      BY <2>1, <2>8, ParentOf DEF Return, Spoils, IInv, TypeOK
    <3>2. n \notin KidsOf(p)
      BY <2>8, KidOf
    <3>3. \A k \in KidsOf(p) : res'[k] = res[k]
      BY <2>2, <2>4, <3>2
    <3>4. QED BY <2>3, <3>1, <3>3
  <2>9. QED BY <2>6, <2>7, <2>8
<1>3. QED BY <1>1, <1>2

\* The reason a position has to be null, as NullsPropagate words it.
Reason(n) ==
    \/ Failed(outcome[n])
    \/ \E k \in KidsOf(n) \cap Fields : k \in NonNull /\ res[k] = "null"

LEMMA PropagateStep ==
  ASSUME NoElementPanics, IInv, NEW n \in Nodes, Step(n)
  PROVE  NullsPropagate'
<1> SUFFICES ASSUME NEW m \in Nodes, res'[m] # "unset"
             PROVE  res'[m] = "null" <=> Reason(m)'
  BY DEF NullsPropagate, Reason
<1>1. CASE m # n
  <2>1. res'[m] = res[m] /\ outcome'[m] = outcome[m]
    BY <1>1, StepKinds, StepFrame
  <2>2. res[m] = "null" <=> Reason(m)
    BY <2>1 DEF IInv, NullsPropagate, Reason
  <2>3. pc[m] \in {"returned", "stored"}
    BY <2>1 DEF IInv, Returned
  <2>4. \A k \in KidsOf(m) : res'[k] = "null" <=> res[k] = "null"
    <3>1. SUFFICES ASSUME NEW k \in KidsOf(m) PROVE res'[k] = "null" <=> res[k] = "null"
      OBVIOUS
    <3>2. k \in Nodes \ {Root} /\ Parent[k] = m
      BY KidOf
    <3>3. CASE k # n
      BY <3>2, <3>3, StepFrame
    <3>4. CASE k = n
      <4>1. pc[n] # "idle"
        BY <2>3, <3>2, <3>4, StepKinds DEF CanStart
      <4>2. pc[n] \in {"stored", "dead"}
        BY <2>3, <3>2, <3>4, <4>1 DEF IInv, Nested
      <4>3. QED BY <4>2, StepKinds
    <3>5. QED BY <3>3, <3>4
  <2>5. QED BY <2>1, <2>2, <2>4 DEF Reason
<1>2. CASE m = n /\ ~Ends(n)
  <2>1. Stores(n)
    BY <1>2, StepFrame, StepKinds DEF IInv, Returned, Opens, Fails, Goto
  <2>2. res' = res /\ outcome' = outcome
    BY <2>1 DEF Stores, Goto
  <2>3. QED BY <1>2, <2>2 DEF Reason, IInv, NullsPropagate
<1>3. CASE m = n /\ Ends(n)
  <2>1. PICK v \in {"null", "value"} :
          /\ Return(n, v)
          /\ \/ v = "null" /\ Failed(outcome'[n])
             \/ v = "value" /\ Kind[n] = "leaf" /\ outcome'[n] = "ok"
             \/ /\ pc[n] = "open" /\ outcome'[n] = "ok"
                /\ \A k \in KidsOf(n) : Finished(k)
                /\ v = "null" <=> invalids[n] > 0
    BY <1>3 DEF Ends
  <2>2. res'[n] = v /\ \A k \in Nodes \ {n} : res'[k] = res[k]
    BY <2>1, StepFrame DEF Return, IInv, TypeOK
  <2>3. \A k \in KidsOf(n) : res'[k] = res[k] /\ k \in Nodes \ {Root} /\ Parent[k] = n
    BY <2>2, KidOf
  <2>4. CASE v = "null" /\ Failed(outcome'[n])
    BY <1>3, <2>2, <2>4 DEF Reason
  <2>5. CASE v = "value" /\ Kind[n] = "leaf" /\ outcome'[n] = "ok"
    <3>1. KidsOf(n) = {}
      BY <2>5, SelectionAssumption DEF KidsOf
    <3>2. QED BY <1>3, <2>2, <2>5, <3>1 DEF Reason, Failed
  <2>6. CASE /\ outcome'[n] = "ok"
             /\ v = "null" <=> invalids[n] > 0
    <3>1. v = "null" <=> \E k \in KidsOf(n) : Spoils(k, res[k])
      BY <2>6 DEF IInv, Counted
    <3>2. v = "null" <=> \E k \in KidsOf(n) \cap Fields : k \in NonNull /\ res'[k] = "null"
      BY <2>3, <3>1 DEF Spoils
    <3>3. QED BY <1>3, <2>2, <2>6, <3>2 DEF Reason, Failed
  <2>7. QED BY <2>1, <2>4, <2>5, <2>6
<1>4. QED BY <1>1, <1>2, <1>3

LEMMA Initially ==
  ASSUME NoElementPanics
  PROVE  Init /\ TypeOK => IInv
<1> SUFFICES ASSUME Init, TypeOK PROVE IInv
  OBVIOUS
<1>1. Calm /\ Returned /\ Explained
  BY DEF Init, Calm, Returned, Explained
<1>2. Counted
  <2>1. \A k \in Nodes : ~Spoils(k, res[k])
    BY DEF Init, Spoils
  <2>2. \A p \in Nodes : \A k \in KidsOf(p) : ~Spoils(k, res[k])
    BY <2>1, KidOf
  <2>3. \A p \in Nodes : ~(invalids[p] > 0)
    BY DEF Init
  <2>4. QED BY <2>2, <2>3 DEF Counted
<1>3. Nested /\ NullsPropagate
  BY DEF Init, Nested, NullsPropagate
<1>4. QED BY <1>1, <1>2, <1>3 DEF IInv

LEMMA Preserved ==
  ASSUME NoElementPanics
  PROVE  IInv /\ TypeOK' /\ [Next]_vars => IInv'
<1> SUFFICES ASSUME IInv, TypeOK', [Next]_vars PROVE IInv'
  OBVIOUS
<1>1. ASSUME NEW n \in Nodes, Step(n) PROVE IInv'
  BY <1>1, SimpleParts, CountedStep, NestedStep, PropagateStep DEF IInv
<1>2. CASE Marshal \/ Send \/ UNCHANGED vars
  <2>1. UNCHANGED <<pc, outcome, res, invalids, cleared>>
    BY <1>2 DEF Marshal, Send, vars
  <2>2. QED BY <2>1 DEF IInv, Calm, Returned, Counted, Explained, Nested, NullsPropagate, Spoils
<1>3. QED BY <1>1, <1>2 DEF Next

\* While anything under a position runs, the position is open: no goroutine of a
\* response outlives it, unless elements of lists panic.
THEOREM GoroutinesNest ==
  ASSUME NoElementPanics
  PROVE  Spec => []Nested
<1>1. IInv => Nested
  BY DEF IInv
<1>2. QED BY <1>1, Initially, Preserved, TypeCorrect, PTL DEF Spec

\* A position is null exactly for a reason of its own or because of a field of
\* its that must not be, unless elements of lists panic.
THEOREM NullsAreCaused ==
  ASSUME NoElementPanics
  PROVE  Spec => []NullsPropagate
<1>1. IInv => NullsPropagate
  BY DEF IInv
<1>2. QED BY <1>1, Initially, Preserved, TypeCorrect, PTL DEF Spec
---------------------------------------------------------------------------
(* Mutations *)

\* What is stored stays stored, and a step moves one position.
LEMMA StoredStays ==
  ASSUME TypeOK, NEW n \in Nodes, Step(n), NEW m \in Nodes
  PROVE  /\ pc[m] = "stored" => pc'[m] = "stored"
         /\ m # n => pc'[m] = pc[m]
         /\ pc[m] = "idle" /\ pc'[m] # "idle" => CanStart(m)
<1>1. pc[n] # "stored" /\ (pc[n] = "idle" => Resolve(n) /\ CanStart(n))
  BY DEF Step, Resolve, Look, Raise, Close, Store, UnwindElement, Unwind
<1>2. m # n => pc'[m] = pc[m]
  BY DEF Step, Resolve, Look, Raise, Close, Store, UnwindElement, Unwind, Return, Goto, TypeOK
<1>3. QED BY <1>1, <1>2

Quiet == {"idle", "stored", "recovering", "clearing", "dead"}

\* A field of a mutation starts when those before it are stored.
StoredBefore ==
    \A s \in Serial : \A m, n \in KidsOf(s) :
        Pos[m] < Pos[n] /\ pc[n] # "idle" => pc[m] = "stored"

\* What holds of Nested whatever panics.
BusyBelowOpen ==
    \A n \in Nodes \ {Root} : pc[n] \notin Quiet => pc[Parent[n]] = "open"

LEMMA StoredBeforeStep ==
  ASSUME TypeOK, StoredBefore, NEW k \in Nodes, Step(k)
  PROVE  StoredBefore'
<1> SUFFICES ASSUME NEW s \in Serial, NEW m \in KidsOf(s), NEW n \in KidsOf(s),
                    Pos[m] < Pos[n], pc'[n] # "idle"
             PROVE  pc'[m] = "stored"
  BY DEF StoredBefore
<1>1. m \in Nodes /\ n \in Nodes /\ n # Root /\ Parent[m] = s /\ Parent[n] = s
  BY DEF KidsOf
<1>2. CASE pc[n] # "idle"
  BY <1>1, <1>2, StoredStays DEF StoredBefore
<1>3. CASE pc[n] = "idle"
  <2>1. CanStart(n)
    BY <1>1, <1>3, StoredStays
  <2>2. n \in Fields /\ ~Concurrent(m)
    BY <1>1, FieldExecAssumption DEF Fields, Concurrent
  <2>3. pc[m] = "stored"
    BY <1>1, <2>1, <2>2 DEF CanStart
  <2>4. QED BY <1>1, <2>3, StoredStays
<1>4. QED BY <1>2, <1>3

\* What is open only closes, when all below it is quiet, and what is quiet stays
\* so unless it starts.
LEMMA QuietStep ==
  ASSUME TypeOK, NEW n \in Nodes, Step(n)
  PROVE  /\ pc[n] = "open" => \A k \in KidsOf(n) : pc[k] \in Quiet
         /\ pc[n] \in Quiet \ {"idle"} => pc'[n] \in Quiet
<1>1. ASSUME pc[n] = "open", NEW k \in KidsOf(n) PROVE pc[k] \in Quiet
  <2>1. Finished(k)
    BY <1>1 DEF Step, Resolve, Look, Raise, Close, Store, UnwindElement, Unwind
  <2>2. QED BY <2>1 DEF Finished, Quiet
<1>2. ASSUME pc[n] \in Quiet \ {"idle"} PROVE pc'[n] \in Quiet
  <2>1. UnwindElement(n)
    BY <1>2 DEF Quiet, Step, Resolve, Look, Raise, Close, Store
  <2>2. pc'[n] \in {"clearing", "dead"}
    BY <1>2, <2>1 DEF Quiet, UnwindElement, Unwind, Goto, TypeOK
  <2>3. QED BY <2>2 DEF Quiet
<1>3. QED BY <1>1, <1>2

LEMMA BusyStep ==
  ASSUME TypeOK, BusyBelowOpen, NEW k \in Nodes, Step(k)
  PROVE  BusyBelowOpen'
<1> SUFFICES ASSUME NEW n \in Nodes \ {Root}, pc'[n] \notin Quiet
             PROVE  pc'[Parent[n]] = "open"
  BY DEF BusyBelowOpen
<1>1. Parent[n] \in Nodes /\ Parent[n] # n /\ n \in KidsOf(Parent[n])
  BY SelectionAssumption DEF KidsOf
<1>2. pc[Parent[n]] = "open"
  <2>1. CASE pc[n] = "idle"
    BY <2>1, StoredStays DEF CanStart, Quiet
  <2>2. CASE pc[n] \notin Quiet
    BY <2>2 DEF BusyBelowOpen
  <2>3. CASE pc[n] \in Quiet \ {"idle"}
    <3>1. n # k
      BY <2>3, QuietStep
    <3>2. QED BY <2>3, <3>1, StoredStays
  <2>4. QED BY <2>1, <2>2, <2>3
<1>3. Parent[n] # k
  <2> SUFFICES ASSUME Parent[n] = k PROVE FALSE
    OBVIOUS
  <2>1. pc[n] \in Quiet
    BY <1>1, <1>2, QuietStep
  <2>2. QED BY <1>1, <2>1, StoredStays
<1>4. QED BY <1>1, <1>2, <1>3, StoredStays

\* Below a stored position nothing runs, and nothing can start.
LEMMA StillBelow ==
  ASSUME BusyBelowOpen, NEW m \in Nodes, pc[m] = "stored", NEW d \in Under[m], m # Root
  PROVE  pc[d] \in Quiet /\ ~(pc[d] = "idle" /\ CanStart(d))
<1> DEFINE S == {e \in Nodes :
                  /\ pc[e] \in Quiet
                  /\ \/ e = m
                     \/ e # Root /\ pc[Parent[e]] # "open"}
<1>1. m \in S
  BY DEF Quiet
<1>2. \A k \in Nodes \ {Root} : Parent[k] \in S => k \in S
  <2> SUFFICES ASSUME NEW k \in Nodes \ {Root}, Parent[k] \in S PROVE k \in S
    OBVIOUS
  <2>1. pc[Parent[k]] # "open"
    BY DEF Quiet
  <2>2. pc[k] \in Quiet
    BY <2>1 DEF BusyBelowOpen
  <2>3. QED BY <2>1, <2>2
<1>3. d \in S
  <2>1. S \in SUBSET Nodes
    OBVIOUS
  <2>2. d \in Nodes /\ \A T \in SUBSET Nodes :
          m \in T /\ (\A k \in Nodes \ {Root} : Parent[k] \in T => k \in T) => d \in T
    BY DEF Under
  <2> HIDE DEF S
  <2>3. QED BY <1>1, <1>2, <2>1, <2>2
<1>4. QED BY <1>3 DEF CanStart

\* When a field of a mutation begins, nothing runs under those before it at any
\* depth, nor will, but for the recovery of elements: for any selection, any
\* interleaving below them, and also when elements of lists panic.
THEOREM MutationsAreSerial == Spec => []SerialFields
<1>1. Init => StoredBefore /\ BusyBelowOpen
  BY FieldExecAssumption DEF Init, StoredBefore, BusyBelowOpen, KidsOf, Quiet
<1>2. TypeOK /\ StoredBefore /\ BusyBelowOpen /\ [Next]_vars => (StoredBefore /\ BusyBelowOpen)'
  <2> SUFFICES ASSUME TypeOK, StoredBefore, BusyBelowOpen, [Next]_vars
               PROVE  (StoredBefore /\ BusyBelowOpen)'
    OBVIOUS
  <2>1. CASE UNCHANGED pc
    BY <2>1 DEF StoredBefore, BusyBelowOpen
  <2>2. ASSUME NEW k \in Nodes, Step(k) PROVE (StoredBefore /\ BusyBelowOpen)'
    BY <2>2, StoredBeforeStep, BusyStep
  <2>3. QED BY <2>1, <2>2 DEF Next, Marshal, Send, vars
<1>3. StoredBefore /\ BusyBelowOpen => SerialFields
  <2> SUFFICES ASSUME StoredBefore, BusyBelowOpen,
                      NEW s \in Serial, NEW m \in KidsOf(s), NEW n \in KidsOf(s),
                      Pos[m] < Pos[n], pc[n] # "idle", NEW d \in Under[m]
               PROVE  pc[d] \in Quiet /\ ~(pc[d] = "idle" /\ CanStart(d))
    BY DEF SerialFields, Quiet
  <2>1. m \in Nodes \ {Root}
    BY DEF KidsOf
  <2>2. pc[m] = "stored"
    BY DEF StoredBefore
  <2>3. QED BY <2>1, <2>2, StillBelow
<1>4. QED BY <1>1, <1>2, <1>3, TypeCorrect, PTL DEF Spec
---------------------------------------------------------------------------
(* The refinement of Selection.  It needs, beside IInv, how many errors a  *)
(* position has raised by now, and that below a position that is done      *)
(* everything is.                                                          *)

Cause(n) == outcome[n] \in {"error", "reported", "panic"} \/ (outcome[n] = "nil" /\ n \in NonNull)

RaisedAt(n) ==
    /\ pc[n] = "idle" <=> outcome[n] = "none"
    /\ pc[n] \in {"idle", "open", "complain", "raise"} => errs[n] = 0
    /\ pc[n] = "nil" => /\ n \in NonNull /\ outcome[n] \in {"nil", "reported"}
                        /\ errs[n] = IF outcome[n] = "reported" THEN 1 ELSE 0
    /\ pc[n] = "complain" => n \in NonNull /\ outcome[n] = "nil"
    /\ pc[n] = "raise" => outcome[n] \in {"error", "panic"}
    /\ pc[n] \in {"returned", "stored"} => errs[n] = IF Cause(n) THEN 1 ELSE 0

DoneBelow(k) ==
    /\ outcome[k] # "none" => outcome[Parent[k]] = "ok"
    /\ outcome[Parent[k]] = "ok" /\ pc[Parent[k]] \in {"returned", "stored"} => pc[k] = "stored"

ResponseInv ==
    /\ IInv
    /\ \A n \in Nodes : RaisedAt(n)
    /\ \A k \in Nodes \ {Root} : DoneBelow(k)
    /\ answer # "none" => pc[Root] = "stored"

\* A step leaves the outcomes and errors of the other positions, and an outcome is final.
LEMMA OthersStay ==
  ASSUME NoElementPanics, ResponseInv, NEW n \in Nodes, Step(n), NEW m \in Nodes
  PROVE  /\ m # n => pc'[m] = pc[m] /\ outcome'[m] = outcome[m] /\ errs'[m] = errs[m]
         /\ outcome[m] # "none" => outcome'[m] = outcome[m]
         /\ answer' = answer
<1>1. IInv /\ TypeOK /\ RaisedAt(n)
  BY DEF ResponseInv, IInv
<1>2. m # n => errs'[m] = errs[m]
  BY <1>1 DEF Step, Resolve, Look, Raise, Close, Store, UnwindElement, Unwind, AddError, TypeOK
<1>3. outcome[m] # "none" => outcome'[m] = outcome[m]
  <2>1. CASE Resolve(n)
    <3>1. outcome[n] = "none"
      BY <1>1, <2>1 DEF Resolve, RaisedAt
    <3>2. QED BY <1>1, <3>1, StepKinds
  <2>2. CASE ~Resolve(n)
    <3>1. outcome' = outcome
      BY <2>2 DEF Step, Look, Raise, Close, Store, UnwindElement
    <3>2. QED BY <3>1
  <2>3. QED BY <2>1, <2>2
<1>4. answer' = answer
  BY DEF Step, Resolve, Look, Raise, Close, Store, UnwindElement
<1>5. QED BY <1>1, <1>2, <1>3, <1>4, StepKinds, StepFrame

LEMMA RaisedStep ==
  ASSUME NoElementPanics, ResponseInv, NEW n \in Nodes, Step(n), NEW m \in Nodes
  PROVE  RaisedAt(m)'
<1>1. IInv /\ TypeOK /\ RaisedAt(n) /\ RaisedAt(m)
  BY DEF ResponseInv, IInv
<1>2. CASE m # n
  <2>1. pc'[m] = pc[m] /\ outcome'[m] = outcome[m] /\ errs'[m] = errs[m]
    BY <1>2, OthersStay
  <2>2. QED BY <1>1, <2>1 DEF RaisedAt, Cause
<1>3. CASE m = n /\ Resolve(n)
  <2>1. PICK o \in Outcomes[n] :
          /\ outcome' = [outcome EXCEPT ![n] = o]
          /\ \/ (o = "ok" /\ Kind[n] = "leaf" /\ Return(n, "value") /\ UNCHANGED errs)
             \/ (o = "ok" /\ Kind[n] # "leaf" /\ Goto(n, "open") /\ UNCHANGED errs)
             \/ (o = "nil" /\ n \in NonNull /\ Goto(n, "nil") /\ UNCHANGED errs)
             \/ (o = "nil" /\ n \notin NonNull /\ Return(n, "null") /\ UNCHANGED errs)
             \/ (o = "typedNil" /\ Return(n, "null") /\ UNCHANGED errs)
             \/ (o = "reported" /\ n \in NonNull /\ Goto(n, "nil") /\ AddError(n))
             \/ (o = "reported" /\ n \notin NonNull /\ Return(n, "null") /\ AddError(n))
             \/ (o = "error" /\ Goto(n, "raise") /\ UNCHANGED errs)
             \/ (o = "panic" /\ n \notin Elements /\ Goto(n, "raise") /\ UNCHANGED errs)
             \/ (o = "panic" /\ n \in Elements /\ Goto(n, "panicked") /\ UNCHANGED errs)
    BY <1>3 DEF Resolve
  <2>2. outcome'[n] = o /\ errs[n] = 0 /\ (o = "panic" => n \notin Elements)
    BY <1>1, <1>3, <2>1 DEF Resolve, RaisedAt, TypeOK, NoElementPanics
  <2>3. \/ o = "ok" /\ pc'[n] \in {"returned", "open"} /\ errs'[n] = 0
        \/ o = "nil" /\ n \in NonNull /\ pc'[n] = "nil" /\ errs'[n] = 0
        \/ o = "nil" /\ n \notin NonNull /\ pc'[n] = "returned" /\ errs'[n] = 0
        \/ o = "typedNil" /\ pc'[n] = "returned" /\ errs'[n] = 0
        \/ o = "reported" /\ n \in NonNull /\ pc'[n] = "nil" /\ errs'[n] = 1
        \/ o = "reported" /\ pc'[n] = "returned" /\ errs'[n] = 1
        \/ o \in {"error", "panic"} /\ pc'[n] = "raise" /\ errs'[n] = 0
    BY <1>1, <2>1, <2>2 DEF Return, Goto, AddError, TypeOK
  <2>4. QED BY <1>3, <2>2, <2>3 DEF RaisedAt, Cause
<1>4. CASE m = n /\ Look(n)
  <2>1. outcome' = outcome /\ errs' = errs
    BY <1>4 DEF Look
  <2>2. n \in NonNull /\ outcome[n] \in {"nil", "reported"}
        /\ errs[n] = IF outcome[n] = "reported" THEN 1 ELSE 0
    BY <1>1, <1>4 DEF Look, RaisedAt
  <2>3. \/ pc'[n] = "returned" /\ outcome[n] = "reported"
        \/ pc'[n] = "complain" /\ outcome[n] = "nil"
    BY <1>1, <1>4, <2>2 DEF Look, HasFieldError, Return, Goto, TypeOK
  <2>4. QED BY <1>4, <2>1, <2>2, <2>3 DEF RaisedAt, Cause
<1>5. CASE m = n /\ Raise(n)
  <2>1. outcome' = outcome /\ pc'[n] = "returned" /\ errs'[n] = 1
    BY <1>1, <1>5 DEF Raise, RaisedAt, Return, AddError, TypeOK
  <2>2. Cause(n)
    BY <1>1, <1>5 DEF Raise, RaisedAt, Cause
  <2>3. QED BY <1>5, <2>1, <2>2 DEF RaisedAt, Cause
<1>6. CASE m = n /\ Close(n)
  <2>1. outcome' = outcome /\ errs' = errs /\ pc'[n] = "returned" /\ outcome[n] = "ok" /\ errs[n] = 0
    BY <1>1, <1>6 DEF Close, RaisedAt, Return, TypeOK, IInv, Explained
  <2>2. QED BY <1>6, <2>1 DEF RaisedAt, Cause
<1>7. CASE m = n /\ Store(n)
  <2>1. Stores(n) /\ errs' = errs
    BY <1>1, <1>7, StepFrame, StepKinds DEF Store, Stores, Goto, TypeOK
  <2>2. outcome' = outcome /\ pc'[n] = "stored" /\ pc[n] = "returned"
    BY <1>1, <2>1 DEF Stores, Goto, TypeOK
  <2>3. QED BY <1>1, <1>7, <2>1, <2>2 DEF RaisedAt, Cause
<1>8. CASE UnwindElement(n)
  BY <1>1, <1>8 DEF UnwindElement, Unwind, IInv, Calm
<1>9. QED BY <1>2, <1>3, <1>4, <1>5, <1>6, <1>7, <1>8 DEF Step

LEMMA DoneBelowStep ==
  ASSUME NoElementPanics, ResponseInv, NEW n \in Nodes, Step(n), NEW k \in Nodes \ {Root}
  PROVE  DoneBelow(k)'
<1> DEFINE p == Parent[k]
<1>1. p \in Nodes /\ p # k /\ Kind[p] # "leaf"
  BY SelectionAssumption
<1>2. /\ IInv /\ TypeOK /\ DoneBelow(k)
      /\ \A m \in Nodes : pc[m] = "idle" <=> outcome[m] = "none"
  BY DEF ResponseInv, IInv, RaisedAt
<1> HIDE DEF p
<1>3. ASSUME outcome'[k] # "none" PROVE outcome'[p] = "ok"
  <2>1. CASE outcome[k] # "none"
    <3>1. outcome[p] = "ok"
      BY <1>2, <2>1 DEF DoneBelow, p
    <3>2. QED BY <1>1, <3>1, OthersStay
  <2>2. CASE outcome[k] = "none"
    <3>1. k = n /\ pc[n] = "idle"
      BY <1>2, <1>3, <2>2, OthersStay
    <3>2. pc[p] = "open"
      BY <1>2, <3>1, StepKinds DEF CanStart, p
    <3>3. outcome[p] = "ok"
      BY <1>1, <1>2, <3>2 DEF IInv, Explained
    <3>4. QED BY <1>1, <3>3, OthersStay
  <2>3. QED BY <2>1, <2>2
<1>4. ASSUME outcome'[p] = "ok", pc'[p] \in {"returned", "stored"} PROVE pc'[k] = "stored"
  <2>1. CASE p # n
    <3>1. outcome[p] = "ok" /\ pc[p] \in {"returned", "stored"}
      BY <1>1, <1>4, <2>1, OthersStay
    <3>2. pc[k] = "stored"
      BY <1>2, <3>1 DEF DoneBelow, p
    <3>3. QED BY <1>2, <3>2, StoredStays
  <2>2. CASE p = n /\ pc'[n] = "stored"
    <3>1. Stores(n)
      BY <1>2, <2>2, StepFrame
    <3>2. outcome[p] = "ok" /\ pc[p] = "returned"
      BY <1>4, <2>2, <3>1 DEF Stores
    <3>3. pc[k] = "stored"
      BY <1>2, <3>2 DEF DoneBelow, p
    <3>4. QED BY <1>2, <3>3, StoredStays
  <2>3. CASE p = n /\ pc'[n] = "returned"
    <3>1. Ends(n)
      BY <1>2, <2>3, StepFrame
    <3>2. \A j \in KidsOf(n) : Finished(j)
      BY <1>1, <1>4, <2>3, <3>1 DEF Ends, Failed
    <3>3. k \in KidsOf(n)
      BY <2>3 DEF KidsOf, p
    <3>4. pc[k] = "stored"
      BY <1>2, <3>2, <3>3, FinishedStored
    <3>5. QED BY <1>2, <3>4, StoredStays
  <2>4. QED BY <1>4, <2>1, <2>2, <2>3
<1>5. QED BY <1>3, <1>4 DEF DoneBelow, p

LEMMA ResponseInit ==
  ASSUME NoElementPanics
  PROVE  Init /\ TypeOK => ResponseInv
<1> SUFFICES ASSUME Init, TypeOK PROVE ResponseInv
  OBVIOUS
<1>1. IInv
  BY Initially
<1>2. \A n \in Nodes : RaisedAt(n)
  BY DEF Init, RaisedAt
<1>3. \A k \in Nodes \ {Root} : DoneBelow(k)
  BY SelectionAssumption DEF Init, DoneBelow
<1>4. QED BY <1>1, <1>2, <1>3 DEF ResponseInv, Init

LEMMA ResponseNext ==
  ASSUME NoElementPanics
  PROVE  ResponseInv /\ TypeOK' /\ [Next]_vars => ResponseInv'
<1> SUFFICES ASSUME ResponseInv, TypeOK', [Next]_vars PROVE ResponseInv'
  OBVIOUS
<1>1. IInv'
  BY Preserved DEF ResponseInv
<1>2. ASSUME NEW n \in Nodes, Step(n) PROVE ResponseInv'
  <2>1. answer' = answer /\ (pc[Root] = "stored" => pc'[Root] = "stored")
    BY <1>2, OthersStay, StoredStays, SelectionAssumption DEF ResponseInv, IInv
  <2>2. QED BY <1>1, <1>2, <2>1, RaisedStep, DoneBelowStep DEF ResponseInv
<1>3. CASE Marshal \/ Send \/ UNCHANGED vars
  <2>1. UNCHANGED <<pc, outcome, errs>> /\ (answer' # "none" => pc[Root] = "stored")
    BY <1>3 DEF Marshal, Send, vars, ResponseInv
  <2>2. \A n \in Nodes : RaisedAt(n)'
    BY <2>1 DEF ResponseInv, RaisedAt, Cause
  <2>3. \A k \in Nodes \ {Root} : DoneBelow(k)'
    BY <2>1 DEF ResponseInv, DoneBelow
  <2>4. QED BY <1>1, <2>1, <2>2, <2>3 DEF ResponseInv
<1>4. QED BY <1>2, <1>3 DEF Next

\* Once the root is stored nothing runs: what ran would have an open position above it,
\* and that one too, up to the root.
LEMMA AllIsStill ==
  ASSUME ResponseInv, answer # "none"
  PROVE  /\ \A n \in Nodes : pc[n] \in {"idle", "stored"}
         /\ pc[Root] = "stored"
<1> DEFINE busy == {n \in Nodes : pc[n] \notin {"idle", "stored"}}
<1>1. pc[Root] = "stored" /\ Root \in Nodes
  BY SelectionAssumption DEF ResponseInv
<1>2. ASSUME busy # {} PROVE FALSE
  <2>1. PICK n \in busy : n = Root \/ Parent[n] \notin busy
    BY <1>2, SelectionAssumption
  <2>2. n # Root /\ n \in Nodes
    BY <1>1
  <2>3. pc[n] # "dead"
    BY <2>2 DEF ResponseInv, IInv, Calm
  <2>4. pc[Parent[n]] = "open" /\ Parent[n] \in Nodes
    BY <2>2, <2>3, SelectionAssumption DEF ResponseInv, IInv, Nested
  <2>5. QED BY <2>1, <2>2, <2>4
<1>3. QED BY <1>1, <1>2

LEMMA NothingStarts ==
  ASSUME NoElementPanics, ResponseInv, answer # "none", NEW n \in Nodes, Step(n)
  PROVE  FALSE
<1>1. pc[n] = "idle" /\ CanStart(n)
  BY AllIsStill, StepKinds DEF ResponseInv
<1>2. n # Root /\ pc[Parent[n]] = "open" /\ Parent[n] \in Nodes
  BY <1>1, AllIsStill, SelectionAssumption DEF CanStart
<1>3. QED BY <1>2, AllIsStill

IsNull(f, n) ==
    \/ Failed(outcome[n])
    \/ Kind[n] = "object" /\ \E k \in KidsOf(n) : k \in NonNull /\ f[k]

\* As the positions are a tree, the rule for nulls has one solution.
LEMMA NullIs ==
  ASSUME NEW f, f = [n \in Nodes |-> IsNull(f, n)]
  PROVE  Tree!Null = f
<1>1. \A n : Tree!KidsOf(n) = KidsOf(n)
  BY DEF Tree!KidsOf, KidsOf
<1>2. \A o : Tree!Failed(o) <=> Failed(o)
  BY DEF Tree!Failed, Failed
<1>3. Tree!Null = CHOOSE g : g = [n \in Nodes |-> Tree!Failed(outcome[n])
           \/ (Kind[n] = "object" /\ \E k \in Tree!KidsOf(n) : k \in NonNull /\ g[k])]
  BY DEF Tree!Null
<1>4. \A g : [n \in Nodes |-> Tree!Failed(outcome[n])
           \/ (Kind[n] = "object" /\ \E k \in Tree!KidsOf(n) : k \in NonNull /\ g[k])]
        = [n \in Nodes |-> IsNull(g, n)]
  BY <1>1, <1>2, Zenon DEF IsNull
<1>5. Tree!Null = CHOOSE g : g = [n \in Nodes |-> IsNull(g, n)]
  BY <1>3, <1>4
<1>6. ASSUME NEW g, g = [n \in Nodes |-> IsNull(g, n)] PROVE g = f
  <2> DEFINE unlike == {n \in Nodes : g[n] # f[n]}
  <2>1. ASSUME unlike # {} PROVE FALSE
    <3>1. PICK n \in unlike : KidsOf(n) \cap unlike = {}
      BY <2>1, SelectionAssumption
    <3>2. \A k \in KidsOf(n) : g[k] = f[k]
      BY <3>1 DEF KidsOf
    <3>3. IsNull(g, n) = IsNull(f, n)
      BY <3>2, Zenon DEF IsNull
    <3>4. n \in Nodes /\ g[n] = IsNull(g, n) /\ f[n] = IsNull(f, n)
      BY <1>6
    <3>5. QED BY <3>1, <3>3, <3>4
  <2>2. \A n \in Nodes : g[n] = f[n]
    BY <2>1
  <2>3. g = [n \in Nodes |-> g[n]] /\ f = [n \in Nodes |-> f[n]]
    BY <1>6
  <2>4. QED BY <2>2, <2>3
<1>7. QED BY <1>5, <1>6

\* What is null in the end is what has to be.
LEMMA NullsAre ==
  ASSUME ResponseInv, answer # "none"
  PROVE  Tree!Nulls = {n \in Nodes : res[n] = "null"}
<1> DEFINE f == [n \in Nodes |-> res[n] = "null"]
<1>1. ASSUME NEW n \in Nodes
      PROVE  /\ res[n] # "unset" <=> pc[n] = "stored"
             /\ outcome[n] = "none" <=> pc[n] = "idle"
             /\ pc[n] \in {"idle", "stored"}
  BY AllIsStill DEF ResponseInv, IInv, Returned, RaisedAt
<1>2. \A k \in Nodes : f[k] <=> res[k] = "null"
  OBVIOUS
<1> HIDE DEF f
<1>3. ASSUME NEW n \in Nodes PROVE res[n] = "null" <=> IsNull(f, n)
  <2>1. \A k \in KidsOf(n) : k \in Nodes \ {Root} /\ Parent[k] = n
    BY KidOf
  <2>2. CASE res[n] # "unset"
    <3>1. \A k \in KidsOf(n) : k \in Fields <=> Kind[n] = "object"
      BY <2>1 DEF Fields
    <3>2. res[n] = "null" <=>
            \/ Failed(outcome[n])
            \/ \E k \in KidsOf(n) \cap Fields : k \in NonNull /\ res[k] = "null"
      BY <2>2 DEF ResponseInv, IInv, NullsPropagate
    <3>3. QED BY <1>2, <2>1, <3>1, <3>2 DEF IsNull
  <2>3. CASE res[n] = "unset"
    <3>1. outcome[n] = "none"
      BY <1>1, <2>3
    <3>2. \A k \in KidsOf(n) : outcome[k] = "none"
      BY <2>1, <3>1 DEF ResponseInv, DoneBelow
    <3>3. \A k \in KidsOf(n) : res[k] # "null"
      BY <1>1, <2>1, <3>2
    <3>4. QED BY <1>2, <2>1, <2>3, <3>1, <3>3 DEF IsNull, Failed
  <2>4. QED BY <2>2, <2>3
<1>4. f = [n \in Nodes |-> IsNull(f, n)]
  <2>1. f = [n \in Nodes |-> f[n]] /\ \A n \in Nodes : f[n] \in BOOLEAN
    BY DEF f
  <2>2. \A n \in Nodes : IsNull(f, n) \in BOOLEAN
    BY DEF IsNull
  <2>3. \A n \in Nodes : f[n] = IsNull(f, n)
    <3>1. \A n \in Nodes : f[n] <=> IsNull(f, n)
      BY <1>2, <1>3
    <3>2. QED BY <2>1, <2>2, <3>1
  <2>4. QED BY <2>1, <2>3
<1>5. Tree!Null = f
  BY <1>4, NullIs
<1>6. \A n \in Nodes : res[n] = "null" => outcome[n] # "none"
  BY <1>1
<1>7. Tree!Nulls = {n \in Nodes : outcome[n] # "none" /\ Tree!Null[n]}
  BY DEF Tree!Nulls
<1>8. QED BY <1>2, <1>5, <1>6, <1>7

\* And every cause of a null is one error.
LEMMA ErrorsAre ==
  ASSUME ResponseInv, answer # "none"
  PROVE  Tree!Errors = errs
<1>1. \A n \in Nodes : errs[n] = IF Cause(n) THEN 1 ELSE 0
  <2>1. ASSUME NEW n \in Nodes PROVE errs[n] = IF Cause(n) THEN 1 ELSE 0
    <3>1. RaisedAt(n) /\ pc[n] \in {"idle", "stored"}
      BY AllIsStill DEF ResponseInv
    <3>2. QED BY <3>1 DEF RaisedAt, Cause
  <2>2. QED BY <2>1
<1>2. errs = [n \in Nodes |-> errs[n]]
  BY DEF ResponseInv, IInv, TypeOK
<1>3. Tree!Errors = [n \in Nodes |-> IF Cause(n) THEN 1 ELSE 0]
  BY DEF Tree!Errors, Cause
<1>4. QED BY <1>1, <1>2, <1>3

\* The answer of Selection.
TheAnswer ==
    {[nulls |-> {n \in Nodes : res[n] = "null"}, errors |-> sent] : a \in {answer} \cap {"sent"}}

LEMMA TreeIs ==
  /\ Tree!Init <=> outcome = [n \in Nodes |-> "none"] /\ TheAnswer = {}
  /\ \A n : Tree!Resolve(n) <=>
        /\ outcome[n] = "none" /\ (n = Root \/ outcome[Parent[n]] = "ok")
        /\ \E o \in Outcomes[n] : outcome' = [outcome EXCEPT ![n] = o]
        /\ TheAnswer' = TheAnswer
  /\ Tree!Answer <=>
        /\ TheAnswer = {}
        /\ \A n \in Nodes : outcome[n] = "none" => ~(n = Root \/ outcome[Parent[n]] = "ok")
        /\ TheAnswer' = {[nulls |-> Tree!Nulls, errors |-> Tree!Errors]}
        /\ outcome' = outcome
BY DEF Tree!Init, Tree!Resolve, Tree!Answer, Tree!Reachable, TheAnswer

LEMMA StepRefines ==
  ASSUME NoElementPanics, ResponseInv, [Next]_vars
  PROVE  \/ Tree!Answer \/ \E n \in Nodes : Tree!Resolve(n)
         \/ outcome' = outcome /\ TheAnswer' = TheAnswer
<1>1. answer # "sent" => TheAnswer = {}
  BY DEF TheAnswer
<1>2. answer' # "sent" => TheAnswer' = {}
  BY DEF TheAnswer
<1>3. ASSUME NEW n \in Nodes, Step(n)
      PROVE  Tree!Resolve(n) \/ (outcome' = outcome /\ TheAnswer' = TheAnswer)
  <2>1. answer = "none"
    BY <1>3, NothingStarts
  <2>2. TheAnswer' = TheAnswer
    BY <1>1, <1>2, <1>3, <2>1, OthersStay
  <2>3. CASE Resolve(n)
    <3>1. outcome[n] = "none" /\ CanStart(n)
      BY <2>3 DEF Resolve, ResponseInv, RaisedAt
    <3>2. n = Root \/ outcome[Parent[n]] = "ok"
      BY <3>1, SelectionAssumption DEF CanStart, ResponseInv, IInv, Explained
    <3>3. \E o \in Outcomes[n] : outcome' = [outcome EXCEPT ![n] = o]
      BY <2>3 DEF Resolve
    <3>4. QED BY <2>2, <3>1, <3>2, <3>3, TreeIs
  <2>4. CASE ~Resolve(n)
    BY <1>3, <2>2, <2>4 DEF Step, Look, Raise, Close, Store, UnwindElement
  <2>5. QED BY <2>3, <2>4
<1>4. CASE Marshal
  BY <1>1, <1>2, <1>4 DEF Marshal
<1>5. CASE Send
  <2>1. answer = "written" /\ answer' = "sent" /\ sent' = errs /\ UNCHANGED <<outcome, res, pc>>
    BY <1>5 DEF Send
  <2>2. TheAnswer' = {[nulls |-> {n \in Nodes : res[n] = "null"}, errors |-> errs]}
    BY <2>1 DEF TheAnswer
  <2>3. ASSUME NEW n \in Nodes, outcome[n] = "none" PROVE n # Root /\ outcome[Parent[n]] # "ok"
    <3>1. pc[n] = "idle" /\ n # Root
      BY <2>1, <2>3, AllIsStill DEF ResponseInv, RaisedAt
    <3>2. DoneBelow(n) /\ Parent[n] \in Nodes
      BY <3>1, SelectionAssumption DEF ResponseInv
    <3>3. pc[Parent[n]] # "idle" => pc[Parent[n]] = "stored"
      BY <2>1, <3>2, AllIsStill
    <3>4. pc[Parent[n]] = "idle" => outcome[Parent[n]] = "none"
      BY <3>2 DEF ResponseInv, RaisedAt
    <3>5. QED BY <3>1, <3>2, <3>3, <3>4 DEF DoneBelow
  <2>4. Tree!Answer
    BY <1>1, <2>1, <2>2, <2>3, NullsAre, ErrorsAre, TreeIs
  <2>5. QED BY <2>4
<1>6. CASE UNCHANGED vars
  BY <1>6 DEF vars, TheAnswer
<1>7. QED BY <1>3, <1>4, <1>5, <1>6 DEF Next

\* For every selection, every outcome of its resolvers and every interleaving, the
\* response has the nulls and the errors of a sequential execution, unless elements of
\* lists panic (object.gotpl:34-82, context_response.go:45-76).
THEOREM ResponseIsSelection ==
  ASSUME NoElementPanics
  PROVE  Spec => ImplementsSelection
<1>1. Init => Tree!Init
  BY TreeIs DEF Init, TheAnswer
<1>2. ResponseInv /\ [Next]_vars =>
        [Tree!Answer \/ \E n \in Nodes : Tree!Resolve(n)]_<<outcome, TheAnswer>>
  BY StepRefines
<1>3. QED BY <1>1, <1>2, ResponseInit, ResponseNext, TypeCorrect, PTL
          DEF Spec, ImplementsSelection, Tree!Spec, TheAnswer
=============================================================================
