-------------------------- MODULE Operation_proofs --------------------------
(***************************************************************************)
(* What holds of every document, Collection and Complexity, and of a whole *)
(* operation.                                                              *)
(*                                                                         *)
(* Their recursive functions are defined because a selection is deeper     *)
(* than what is below it; that, and what holds of every step of a loop, is *)
(* shown of a least number of which it would not hold.                     *)
(*                                                                         *)
(* What CollectFields collects has the fields the specification asks for,  *)
(* but not in the same places: what a fragment brings along is there       *)
(* twice, and what is spread again is left out, also where the first       *)
(* spread is still being collected.  So lists are compared by what is met  *)
(* first in them (SameOrder, Alike).  Each selection adds as much as the   *)
(* specification has for it behind all that is collected before it, if     *)
(* every fragment visited is Complete there, or is one that the selection  *)
(* itself is in (Ready, Fills, Emits): that is shown of a selection if it  *)
(* holds of all that are less deep.  The induction over an execution is    *)
(* then short (CollectionInv).                                             *)
(***************************************************************************)
EXTENDS Operation, Responses_proofs, Uploads_proofs

---------------------------------------------------------------------------
(* Recursion *)

\* f has the values that B gives it where N is less than d.
Solves(f, B, N, d) == \A s \in DOMAIN N : N[s] < d => f[s] = B[s][f]

\* B needs the values of a function only where N is less.
Descends(B, N, S, V) ==
    \A s \in S : \A f, g \in [S -> V] :
        (\A t \in S : N[t] < N[s] => f[t] = g[t]) => B[s][f] = B[s][g]

LEMMA SolutionsAgree ==
  ASSUME NEW S, NEW V, NEW N \in [S -> Nat], NEW B, Descends(B, N, S, V),
         NEW d \in Nat, NEW e \in Nat, NEW f \in [S -> V], NEW g \in [S -> V],
         Solves(f, B, N, d), Solves(g, B, N, e), NEW s \in S, N[s] < d, N[s] < e
  PROVE  f[s] = g[s]
<1> DEFINE Differ == {t \in S : N[t] < d /\ N[t] < e /\ f[t] # g[t]}
           Fails == {N[t] : t \in Differ}
<1>1. ASSUME Fails # {} PROVE FALSE
  <2>1. PICK n \in Fails : \A k \in Fails : n <= k
    <3>1. Fails \subseteq Nat
      OBVIOUS
    <3> HIDE DEF Fails
    <3>2. QED BY <1>1, <3>1, Least
  <2>2. PICK t \in Differ : n = N[t]
    BY <2>1
  <2>3. ASSUME NEW u \in S, N[u] < N[t] PROVE f[u] = g[u]
    <3>1. N[u] < d /\ N[u] < e /\ N[u] \in Nat /\ n \in Nat /\ ~(n <= N[u])
      BY <2>2, <2>3
    <3>2. N[u] \notin Fails
      <4> HIDE DEF Fails
      <4>1. QED BY <2>1, <3>1
    <3>3. QED BY <3>1, <3>2
  <2>4. B[t][f] = B[t][g]
    BY <2>2, <2>3 DEF Descends
  <2>5. f[t] = B[t][f] /\ g[t] = B[t][g]
    BY <2>2 DEF Solves
  <2>6. QED BY <2>2, <2>4, <2>5
<1>2. s \notin Differ
  BY <1>1
<1>3. QED BY <1>2

LEMMA SolutionsBelow ==
  ASSUME NEW S, NEW V, NEW v \in V, NEW N \in [S -> Nat], NEW B \in [S -> [[S -> V] -> V]],
         Descends(B, N, S, V), NEW d \in Nat
  PROVE  \E f \in [S -> V] : Solves(f, B, N, d)
<1> DEFINE Fails == {n \in Nat : ~ \E f \in [S -> V] : Solves(f, B, N, n)}
<1>1. ASSUME Fails # {} PROVE FALSE
  <2>1. PICK n \in Fails : \A k \in Fails : n <= k
    <3>1. Fails \subseteq Nat
      OBVIOUS
    <3> HIDE DEF Fails
    <3>2. QED BY <1>1, <3>1, Least
  <2>2. n \in Nat /\ ~ \E f \in [S -> V] : Solves(f, B, N, n)
    BY <2>1
  <2>3. CASE n = 0
    <3>1. [s \in S |-> v] \in [S -> V] /\ \A s \in DOMAIN N : ~(N[s] < 0)
      OBVIOUS
    <3>2. Solves([s \in S |-> v], B, N, 0)
      BY <3>1 DEF Solves
    <3>3. QED BY <2>2, <2>3, <3>1, <3>2
  <2>4. CASE n # 0
    <3>1. n - 1 \in Nat /\ n - 1 \notin Fails
      <4>1. n - 1 \in Nat /\ ~(n <= n - 1)
        BY <2>2, <2>4
      <4> HIDE DEF Fails
      <4>2. QED BY <2>1, <4>1
    <3>2. PICK f \in [S -> V] : Solves(f, B, N, n - 1)
      BY <3>1
    <3> DEFINE g == [s \in S |-> B[s][f]]
    <3>3. g \in [S -> V]
      OBVIOUS
    <3>4. ASSUME NEW s \in S, N[s] < n PROVE g[s] = B[s][g]
      <4>1. ASSUME NEW t \in S, N[t] < N[s] PROVE f[t] = g[t]
        <5>1. N[t] < n - 1
          BY <2>2, <3>4, <4>1
        <5>2. f[t] = B[t][f]
          BY <3>2, <5>1 DEF Solves
        <5>3. QED BY <5>2
      <4> HIDE DEF g
      <4>2. B[s][f] = B[s][g]
        BY <3>3, <4>1 DEF Descends
      <4>3. QED BY <4>2 DEF g
    <3> HIDE DEF g
    <3>5. Solves(g, B, N, n)
      BY <3>4 DEF Solves
    <3>6. QED BY <2>2, <3>3, <3>5
  <2>5. QED BY <2>3, <2>4
<1>2. QED BY <1>1

\* B defines the values of a function from S to V by recursion.
Recurses(B, N, S, V) ==
    V # {} /\ N \in [S -> Nat] /\ B \in [S -> [[S -> V] -> V]] /\ Descends(B, N, S, V)

\* Such a function.
HasSolution(B, S, V) == \E f \in [S -> V] : \A s \in S : f[s] = B[s][f]

LEMMA RecursionExists ==
  ASSUME NEW S, NEW V, NEW N, NEW B, Recurses(B, N, S, V)
  PROVE  HasSolution(B, S, V)
<1>0. PICK v \in V : TRUE
  BY DEF Recurses
<1> USE DEF Recurses
<1> DEFINE solved == [d \in Nat |-> CHOOSE f \in [S -> V] : Solves(f, B, N, d)]
           f == [s \in S |-> solved[N[s] + 1][s]]
<1>1. \A d \in Nat : solved[d] \in [S -> V] /\ Solves(solved[d], B, N, d)
  BY <1>0, SolutionsBelow
<1> HIDE DEF solved
<1>2. f \in [S -> V]
  BY <1>1
<1>3. ASSUME NEW s \in S PROVE f[s] = B[s][f]
  <2> DEFINE d == N[s] + 1
  <2>1. d \in Nat /\ N[s] < d /\ solved[d] \in [S -> V] /\ Solves(solved[d], B, N, d)
    BY <1>1
  <2>2. ASSUME NEW t \in S, N[t] < N[s] PROVE solved[d][t] = f[t]
    <3> DEFINE e == N[t] + 1
    <3>1. /\ e \in Nat /\ N[t] < e /\ solved[e] \in [S -> V] /\ Solves(solved[e], B, N, e)
          /\ N[t] < d
      BY <1>1, <2>1, <2>2
    <3>2. f[t] = solved[e][t]
      OBVIOUS
    <3> HIDE DEF e, d, f
    <3>3. solved[d][t] = solved[e][t]
      BY <2>1, <3>1, SolutionsAgree
    <3>4. QED BY <3>2, <3>3
  <2>3. f[s] = solved[d][s]
    OBVIOUS
  <2> HIDE DEF d, f
  <2>4. solved[d][s] = B[s][solved[d]]
    BY <2>1 DEF Solves
  <2>5. B[s][solved[d]] = B[s][f]
    BY <1>2, <2>1, <2>2 DEF Descends
  <2>6. QED BY <2>3, <2>4, <2>5
<1> HIDE DEF f
<1>4. QED BY <1>2, <1>3 DEF HasSolution

\* Functions that agree where they agree on all that is less are the same.
Agree(f, g, N, S) ==
    /\ f = [s \in S |-> f[s]] /\ g = [s \in S |-> g[s]]
    /\ \A s \in S : (\A t \in S : N[t] < N[s] => f[t] = g[t]) => f[s] = g[s]

LEMMA AllAgree ==
  ASSUME NEW S, NEW N \in [S -> Nat], NEW f, NEW g, Agree(f, g, N, S)
  PROVE  f = g
<1> USE DEF Agree
<1> DEFINE Differ == {s \in S : f[s] # g[s]}
           Fails == {N[s] : s \in Differ}
<1>1. ASSUME Fails # {} PROVE FALSE
  <2>1. PICK n \in Fails : \A k \in Fails : n <= k
    <3>1. Fails \subseteq Nat
      OBVIOUS
    <3> HIDE DEF Fails
    <3>2. QED BY <1>1, <3>1, Least
  <2>2. PICK s \in Differ : n = N[s]
    BY <2>1
  <2>3. ASSUME NEW t \in S, N[t] < N[s] PROVE f[t] = g[t]
    <3>1. ~(n <= N[t])
      BY <2>2, <2>3
    <3>2. N[t] \notin Fails
      <4> HIDE DEF Fails
      <4>1. QED BY <2>1, <3>1
    <3>3. QED BY <3>2
  <2>4. s \in S /\ f[s] # g[s]
    BY <2>2
  <2>5. QED BY <2>3, <2>4
<1>2. ASSUME NEW s \in S PROVE f[s] = g[s]
  <2>1. N[s] \notin Fails
    <3> HIDE DEF Fails
    <3>1. QED BY <1>1
  <2>2. QED BY <2>1
<1> HIDE DEF Differ, Fails
<1>3. [s \in S |-> f[s]] = [s \in S |-> g[s]]
  BY <1>2
<1>4. QED BY <1>3

---------------------------------------------------------------------------
(* Sequences, and what comes first in them *)

LEMMA ConcatIs ==
  ASSUME NEW S, NEW q \in Seq(S), NEW r \in Seq(S)
  PROVE  /\ q \o r \in Seq(S) /\ Len(q) \in Nat /\ Len(r) \in Nat
         /\ Len(q \o r) = Len(q) + Len(r)
         /\ DOMAIN q = 1..Len(q) /\ DOMAIN r = 1..Len(r)
         /\ DOMAIN (q \o r) = 1..Len(q) + Len(r)
         /\ \A i \in 1..Len(q) : (q \o r)[i] = q[i]
         /\ \A i \in 1..Len(r) : (q \o r)[Len(q) + i] = r[i]
OBVIOUS

LEMMA RangeConcat ==
  ASSUME NEW S, NEW q \in Seq(S), NEW r \in Seq(S)
  PROVE  Range(q \o r) = Range(q) \cup Range(r)
<1> DEFINE whole == q \o r
<1>0. /\ Len(q) \in Nat /\ Len(r) \in Nat
      /\ DOMAIN q = 1..Len(q) /\ DOMAIN r = 1..Len(r) /\ DOMAIN whole = 1..Len(q) + Len(r)
      /\ \A i \in 1..Len(q) : whole[i] = q[i]
      /\ \A i \in 1..Len(r) : whole[Len(q) + i] = r[i]
  BY ConcatIs
<1> HIDE DEF whole
<1>1. ASSUME NEW x \in Range(whole) PROVE x \in Range(q) \cup Range(r)
  <2>1. PICK i \in 1..Len(q) + Len(r) : whole[i] = x
    BY <1>0 DEF Range
  <2>2. CASE i <= Len(q)
    BY <2>1, <2>2, <1>0 DEF Range
  <2>3. CASE ~(i <= Len(q))
    <3>1. i - Len(q) \in 1..Len(r) /\ Len(q) + (i - Len(q)) = i
      BY <2>1, <2>3, <1>0
    <3>2. r[i - Len(q)] = x
      BY <2>1, <3>1, <1>0
    <3>3. QED BY <3>1, <3>2, <1>0 DEF Range
  <2>4. QED BY <2>2, <2>3
<1>2. ASSUME NEW x \in Range(q) PROVE x \in Range(whole)
  <2>1. PICK i \in 1..Len(q) : q[i] = x
    BY <1>0 DEF Range
  <2>2. i \in 1..Len(q) + Len(r) /\ whole[i] = x
    BY <2>1, <1>0
  <2>3. QED BY <2>2, <1>0 DEF Range
<1>3. ASSUME NEW x \in Range(r) PROVE x \in Range(whole)
  <2>1. PICK i \in 1..Len(r) : r[i] = x
    BY <1>0 DEF Range
  <2>2. Len(q) + i \in 1..Len(q) + Len(r) /\ whole[Len(q) + i] = x
    BY <2>1, <1>0
  <2>3. QED BY <2>2, <1>0 DEF Range
<1>4. QED BY <1>1, <1>2, <1>3 DEF whole

LEMMA BeforeConcat ==
  ASSUME NEW S, NEW q \in Seq(S), NEW r \in Seq(S), NEW x, NEW y
  PROVE  Before(q \o r, x, y) <=> Before(q, x, y) \/ (y \notin Range(q) /\ Before(r, x, y))
<1> DEFINE whole == q \o r
<1>0. /\ Len(q) \in Nat /\ Len(r) \in Nat
      /\ DOMAIN q = 1..Len(q) /\ DOMAIN r = 1..Len(r) /\ DOMAIN whole = 1..Len(q) + Len(r)
      /\ \A i \in 1..Len(q) : whole[i] = q[i]
      /\ \A i \in 1..Len(r) : whole[Len(q) + i] = r[i]
  BY ConcatIs
<1> HIDE DEF whole
<1>1. ASSUME Before(whole, x, y)
      PROVE  Before(q, x, y) \/ (y \notin Range(q) /\ Before(r, x, y))
  <2>1. PICK i \in 1..Len(q) + Len(r) : whole[i] = x /\ \A j \in 1..i : whole[j] # y
    BY <1>0, <1>1 DEF Before
  <2>2. CASE i <= Len(q)
    <3>1. i \in 1..Len(q) /\ \A j \in 1..i : j \in 1..Len(q)
      BY <1>0, <2>1, <2>2
    <3>2. q[i] = x /\ \A j \in 1..i : q[j] # y
      BY <1>0, <2>1, <3>1
    <3>3. QED BY <1>0, <3>1, <3>2 DEF Before
  <2>3. CASE ~(i <= Len(q))
    <3> DEFINE k == i - Len(q)
    <3>1. k \in 1..Len(r) /\ Len(q) + k = i /\ \A j \in 1..Len(q) : j \in 1..i
      <4>1. i \in 1..Len(q) + Len(r) /\ Len(q) \in Nat /\ Len(r) \in Nat
        BY <1>0, <2>1
      <4>2. QED BY ONLY <2>3, <4>1
    <3>2. r[k] = x /\ \A j \in 1..Len(q) : q[j] # y
      BY <1>0, <2>1, <3>1
    <3>3. ASSUME NEW j \in 1..k PROVE r[j] # y
      <4>1. j \in 1..Len(r) /\ Len(q) + j \in 1..i
        BY <1>0, <3>1
      <4>2. QED BY <1>0, <2>1, <4>1
    <3>4. y \notin Range(q)
      BY <1>0, <3>2 DEF Range
    <3> HIDE DEF k
    <3>5. QED BY <1>0, <3>1, <3>2, <3>3, <3>4 DEF Before
  <2>4. QED BY <2>2, <2>3
<1>2. ASSUME Before(q, x, y) PROVE Before(whole, x, y)
  <2>1. PICK i \in 1..Len(q) : q[i] = x /\ \A j \in 1..i : q[j] # y
    BY <1>0, <1>2 DEF Before
  <2>2. i \in 1..Len(q) + Len(r) /\ \A j \in 1..i : j \in 1..Len(q)
    BY <1>0, <2>1
  <2>3. whole[i] = x /\ \A j \in 1..i : whole[j] # y
    BY <1>0, <2>1, <2>2
  <2>4. QED BY <1>0, <2>2, <2>3 DEF Before
<1>3. ASSUME y \notin Range(q), Before(r, x, y) PROVE Before(whole, x, y)
  <2>1. PICK i \in 1..Len(r) : r[i] = x /\ \A j \in 1..i : r[j] # y
    BY <1>0, <1>3 DEF Before
  <2>2. \A j \in 1..Len(q) : q[j] # y
    BY <1>0, <1>3 DEF Range
  <2>3. Len(q) + i \in 1..Len(q) + Len(r) /\ whole[Len(q) + i] = x
    BY <1>0, <2>1
  <2>4. ASSUME NEW j \in 1..Len(q) + i PROVE whole[j] # y
    <3>1. CASE j <= Len(q)
      <4>1. j \in 1..Len(q)
        BY <1>0, <3>1
      <4>2. QED BY <1>0, <2>2, <4>1
    <3>2. CASE ~(j <= Len(q))
      <4> DEFINE k == j - Len(q)
      <4>1. k \in 1..i /\ k \in 1..Len(r) /\ Len(q) + k = j
        BY <1>0, <2>1, <3>2
      <4> HIDE DEF k
      <4>2. whole[Len(q) + k] = r[k] /\ r[k] # y
        BY <1>0, <2>1, <4>1
      <4>3. QED BY <4>1, <4>2
    <3>3. QED BY <3>1, <3>2
  <2>5. QED BY <1>0, <2>3, <2>4 DEF Before
<1>4. QED BY <1>1, <1>2, <1>3 DEF whole

LEMMA BeforeIn ==
  ASSUME NEW S, NEW q \in Seq(S), NEW x, NEW y
  PROVE  /\ Before(q, x, y) => x \in Range(q)
         /\ x \in Range(q) /\ y \notin Range(q) => Before(q, x, y)
<1>1. DOMAIN q = 1..Len(q) /\ Len(q) \in Nat
  OBVIOUS
<1>2. ASSUME Before(q, x, y) PROVE x \in Range(q)
  BY <1>2 DEF Before, Range
<1>3. ASSUME x \in Range(q), y \notin Range(q) PROVE Before(q, x, y)
  <2>1. PICK i \in DOMAIN q : q[i] = x
    BY <1>3 DEF Range
  <2>2. \A j \in 1..i : j \in DOMAIN q
    BY <1>1, <2>1
  <2>3. \A j \in 1..i : q[j] # y
    BY <1>3, <2>2 DEF Range
  <2>4. QED BY <2>1, <2>3 DEF Before
<1>4. QED BY <1>2, <1>3

\* SameOrder, of all values.
LEMMA SameOrderIs ==
  ASSUME NEW S, NEW q \in Seq(S), NEW r \in Seq(S)
  PROVE  SameOrder(q, r) <=>
           Range(q) = Range(r) /\ \A x, y : Before(q, x, y) <=> Before(r, x, y)
<1>1. ASSUME SameOrder(q, r), NEW x, NEW y PROVE Before(q, x, y) <=> Before(r, x, y)
  <2>1. Range(q) = Range(r) /\ \A u, v \in Range(q) : Before(q, u, v) <=> Before(r, u, v)
    BY <1>1 DEF SameOrder
  <2>2. CASE x \in Range(q) /\ y \in Range(q)
    BY <2>1, <2>2
  <2>3. CASE x \notin Range(q)
    BY <2>1, <2>3, BeforeIn
  <2>4. CASE x \in Range(q) /\ y \notin Range(q)
    BY <2>1, <2>4, BeforeIn
  <2>5. QED BY <2>2, <2>3, <2>4
<1>2. QED BY <1>1 DEF SameOrder

LEMMA SameOrderConcat ==
  ASSUME NEW S, NEW q \in Seq(S), NEW r \in Seq(S), NEW s \in Seq(S), NEW t \in Seq(S),
         SameOrder(q, r), SameOrder(s, t)
  PROVE  SameOrder(q \o s, r \o t)
<1>1. Range(q \o s) = Range(r \o t)
  <2>1. Range(q) = Range(r) /\ Range(s) = Range(t)
    BY ONLY SameOrder(q, r), SameOrder(s, t) DEF SameOrder
  <2>2. Range(q \o s) = Range(q) \cup Range(s) /\ Range(r \o t) = Range(r) \cup Range(t)
    BY RangeConcat
  <2>3. QED BY <2>1, <2>2
<1>2. ASSUME NEW x, NEW y PROVE Before(q \o s, x, y) <=> Before(r \o t, x, y)
  <2>1. /\ Range(q) = Range(r) /\ (Before(q, x, y) <=> Before(r, x, y))
        /\ (Before(s, x, y) <=> Before(t, x, y))
    BY SameOrderIs
  <2>2. QED BY <2>1, BeforeConcat
<1>3. QED BY <1>1, <1>2 DEF SameOrder

\* What has been met before makes no difference.
LEMMA SameOrderCovers ==
  ASSUME NEW S, NEW q \in Seq(S), NEW r \in Seq(S), Range(r) \subseteq Range(q)
  PROVE  SameOrder(q \o r, q)
<1>1. Range(q \o r) = Range(q)
  <2>1. Range(q \o r) = Range(q) \cup Range(r)
    BY RangeConcat
  <2>2. QED BY <2>1
<1>2. ASSUME NEW x \in Range(q \o r), NEW y \in Range(q \o r)
      PROVE  Before(q \o r, x, y) <=> Before(q, x, y)
  <2>1. y \in Range(q)
    BY <1>1
  <2>2. Before(q \o r, x, y) <=> Before(q, x, y) \/ (y \notin Range(q) /\ Before(r, x, y))
    BY BeforeConcat
  <2>3. QED BY <2>1, <2>2
<1>3. QED BY <1>1, <1>2 DEF SameOrder

LEMMA AppendIs ==
  ASSUME NEW S, NEW q \in Seq(S), NEW e \in S
  PROVE  /\ Append(q, e) \in Seq(S) /\ Append(q, e) = q \o <<e>> /\ <<e>> \in Seq(S)
         /\ Len(q) \in Nat /\ Len(Append(q, e)) = Len(q) + 1
         /\ DOMAIN q = 1..Len(q) /\ DOMAIN Append(q, e) = 1..Len(q) + 1
         /\ \A i \in 1..Len(q) : Append(q, e)[i] = q[i]
         /\ Append(q, e)[Len(q) + 1] = e
OBVIOUS

LEMMA ConcatConcat ==
  ASSUME NEW S, NEW q \in Seq(S), NEW r \in Seq(S), NEW s \in Seq(S)
  PROVE  (q \o r) \o s = q \o (r \o s)
OBVIOUS

LEMMA ConcatEmpty ==
  ASSUME NEW S, NEW q \in Seq(S)
  PROVE  q \o <<>> = q /\ <<>> \o q = q /\ <<>> \in Seq(S)
OBVIOUS

LEMMA FrontOf ==
  ASSUME NEW S, NEW q \in Seq(S), Len(q) # 0
  PROVE  \E front \in Seq(S), e \in S : q = Append(front, e) /\ Len(front) < Len(q)
<1> DEFINE n == Len(q)
           front == SubSeq(q, 1, n - 1)
<1>1. /\ n \in Nat /\ n \in 1..n /\ q[n] \in S
      /\ DOMAIN q = 1..n /\ \A i \in 1..n - 1 : q[i] \in S
  OBVIOUS
<1>2. front = [i \in 1..n - 1 |-> q[i]]
  BY <1>1
<1> HIDE DEF n, front
<1>3. front \in Seq(S)
  <2>1. n - 1 \in Nat /\ front \in [1..n - 1 -> S]
    BY <1>1, <1>2
  <2>2. QED BY <2>1
<1>4. Len(front) = n - 1 /\ \A i \in 1..n - 1 : front[i] = q[i]
  BY <1>1, <1>2, <1>3
<1> DEFINE whole == Append(front, q[n])
<1>5. /\ whole \in Seq(S) /\ Len(whole) = n
      /\ \A i \in 1..n - 1 : whole[i] = front[i]
      /\ whole[n] = q[n]
  BY <1>1, <1>3, <1>4
<1> HIDE DEF whole
<1>6. \A i \in 1..n : whole[i] = q[i]
  <2>1. \A i \in 1..n : i = n \/ i \in 1..n - 1
    BY <1>1
  <2>2. QED BY <1>4, <1>5, <2>1
<1>7. q = whole
  BY <1>5, <1>6 DEF n
<1>8. q = Append(front, q[n])
  BY <1>7 DEF whole
<1>9. Len(front) < Len(q)
  BY <1>1, <1>4 DEF n
<1>10. QED BY <1>1, <1>3, <1>8, <1>9

\* What holds of the empty sequence, and of a longer one if of a shorter.
LEMMA AllSequences ==
  ASSUME NEW S, NEW P, P \subseteq Seq(S), <<>> \in P,
         \A q \in P : \A e \in S : Append(q, e) \in P
  PROVE  \A q \in Seq(S) : q \in P
<1> DEFINE Missing == {q \in Seq(S) : q \notin P}
           Fails == {Len(q) : q \in Missing}
<1>1. ASSUME Fails # {} PROVE FALSE
  <2>1. PICK n \in Fails : \A k \in Fails : n <= k
    <3>1. Fails \subseteq Nat
      OBVIOUS
    <3> HIDE DEF Fails
    <3>2. QED BY <1>1, <3>1, Least
  <2>2. PICK q \in Missing : n = Len(q)
    BY <2>1
  <2>3. q \in Seq(S) /\ q \notin P /\ Len(q) # 0
    BY <2>2
  <2>4. PICK front \in Seq(S), e \in S : q = Append(front, e) /\ Len(front) < Len(q)
    BY <2>3, FrontOf
  <2>5. Len(front) \notin Fails
    <3>1. ~(n <= Len(front))
      BY <2>2, <2>4
    <3> HIDE DEF Fails
    <3>2. QED BY <2>1, <3>1
  <2>6. front \in P
    BY <2>4, <2>5
  <2>7. QED BY <2>3, <2>4, <2>6
<1>2. QED BY <1>1

---------------------------------------------------------------------------
(* Putting sequences behind one another *)

\* The function that FlattenSeq computes.
Flattens(seqs, f) == f = [i \in 1..Len(seqs) |-> IF i = 1 THEN seqs[i] ELSE f[i - 1] \o seqs[i]]

LEMMA FlattensExists ==
  ASSUME NEW T, NEW seqs \in Seq(Seq(T))
  PROVE  \E f : Flattens(seqs, f)
<1> DEFINE S == 1..Len(seqs)
           V == Seq(T)
           N == [i \in S |-> i]
           B == [i \in S |-> [f \in [S -> V] |-> IF i = 1 THEN seqs[i] ELSE f[i - 1] \o seqs[i]]]
<1>1. Len(seqs) \in Nat /\ \A i \in S : seqs[i] \in V /\ i \in Nat /\ (i # 1 => i - 1 \in S)
  OBVIOUS
<1>2. <<>> \in V /\ N \in [S -> Nat]
  BY <1>1
<1>3. B \in [S -> [[S -> V] -> V]]
  <2>1. ASSUME NEW i \in S, NEW f \in [S -> V]
        PROVE  (IF i = 1 THEN seqs[i] ELSE f[i - 1] \o seqs[i]) \in V
    <3>1. CASE i = 1
      BY <1>1, <3>1
    <3>2. CASE i # 1
      <4>1. f[i - 1] \in V /\ seqs[i] \in V
        BY <1>1, <3>2
      <4>2. f[i - 1] \o seqs[i] \in V
        BY <4>1
      <4>3. QED BY <3>2, <4>2
    <3>3. QED BY <3>1, <3>2
  <2> HIDE DEF S, V
  <2>2. QED BY <2>1
<1>4. Descends(B, N, S, V)
  <2>1. ASSUME NEW i \in S, NEW f \in [S -> V], NEW g \in [S -> V],
               \A t \in S : N[t] < N[i] => f[t] = g[t]
        PROVE  B[i][f] = B[i][g]
    <3>1. CASE i = 1
      BY <3>1
    <3>2. CASE i # 1
      <4>1. i - 1 \in S /\ N[i - 1] < N[i]
        BY <1>1, <3>2
      <4>2. f[i - 1] = g[i - 1]
        BY <2>1, <4>1
      <4>3. QED BY <4>2
    <3>3. QED BY <3>1, <3>2
  <2> HIDE DEF B, N, S, V
  <2>2. QED BY <2>1 DEF Descends
<1> HIDE DEF N, V
<1>5. PICK f \in [S -> V] : \A i \in S : f[i] = B[i][f]
  <2> HIDE DEF B, S
  <2>1. Recurses(B, N, S, V)
    BY <1>2, <1>3, <1>4 DEF Recurses
  <2>2. HasSolution(B, S, V)
    BY <2>1, RecursionExists
  <2>3. QED BY <2>2 DEF HasSolution
<1>6. \A i \in S : f[i] = IF i = 1 THEN seqs[i] ELSE f[i - 1] \o seqs[i]
  BY <1>5
<1>7. f = [i \in S |-> f[i]]
  BY <1>5
<1>8. f = [i \in S |-> IF i = 1 THEN seqs[i] ELSE f[i - 1] \o seqs[i]]
  BY <1>6, <1>7
<1>9. QED BY <1>8 DEF Flattens

\* Each value is the one before it and one sequence more.
Piles(seqs, f, T) ==
    /\ Len(seqs) # 0 => f[1] = seqs[1]
    /\ \A i \in 2..Len(seqs) : f[i] = f[i - 1] \o seqs[i]
    /\ \A i \in 1..Len(seqs) : f[i] \in Seq(T)

LEMMA FlattensPiles ==
  ASSUME NEW T, NEW seqs \in Seq(Seq(T)), NEW f, Flattens(seqs, f)
  PROVE  Piles(seqs, f, T)
<1> DEFINE Fails == {i \in 1..Len(seqs) : f[i] \notin Seq(T)}
<1>0. Len(seqs) \in Nat /\ \A i \in 1..Len(seqs) : seqs[i] \in Seq(T)
  OBVIOUS
<1>1. \A i \in 1..Len(seqs) : f[i] = IF i = 1 THEN seqs[i] ELSE f[i - 1] \o seqs[i]
  <2>1. f = [i \in 1..Len(seqs) |-> IF i = 1 THEN seqs[i] ELSE f[i - 1] \o seqs[i]]
    BY DEF Flattens
  <2>2. QED BY <2>1
<1>2. Len(seqs) # 0 => f[1] = seqs[1]
  BY <1>0, <1>1
<1>3. \A i \in 2..Len(seqs) : f[i] = f[i - 1] \o seqs[i]
  <2>1. \A i \in 2..Len(seqs) : i \in 1..Len(seqs) /\ i # 1
    BY <1>0
  <2>2. QED BY <1>1, <2>1
<1>4. ASSUME Fails # {} PROVE FALSE
  <2>1. PICK n \in Fails : \A k \in Fails : n <= k
    <3>1. Fails \subseteq Nat
      BY <1>0
    <3> HIDE DEF Fails
    <3>2. QED BY <1>4, <3>1, Least
  <2>2. n \in 1..Len(seqs) /\ f[n] \notin Seq(T)
    BY <2>1
  <2>3. n # 1
    BY <1>0, <1>2, <2>2
  <2>4. n \in 2..Len(seqs) /\ n - 1 \in 1..Len(seqs) /\ ~(n <= n - 1)
    BY <1>0, <2>2, <2>3
  <2>5. f[n - 1] \in Seq(T)
    BY <2>1, <2>4
  <2>6. f[n] = f[n - 1] \o seqs[n] /\ seqs[n] \in Seq(T)
    BY <1>0, <1>3, <2>2, <2>4
  <2> HIDE DEF Fails
  <2>7. f[n] \in Seq(T)
    BY <2>5, <2>6
  <2>8. QED BY <2>2, <2>7
<1>5. \A i \in 1..Len(seqs) : f[i] \in Seq(T)
  BY <1>4
<1>6. QED BY <1>2, <1>3, <1>5 DEF Piles

\* f leads to what FlattenSeq makes of seqs.
Flattened(seqs, f, T) ==
    /\ Piles(seqs, f, T)
    /\ FlattenSeq(seqs) = IF Len(seqs) = 0 THEN <<>> ELSE f[Len(seqs)]

LEMMA FlattenIs ==
  ASSUME NEW T, NEW seqs \in Seq(Seq(T))
  PROVE  (\E f : Flattened(seqs, f, T)) /\ FlattenSeq(seqs) \in Seq(T)
<1> DEFINE f == CHOOSE f : Flattens(seqs, f)
<1>1. Flattens(seqs, f)
  BY FlattensExists
<1>2. FlattenSeq(seqs) = IF Len(seqs) = 0 THEN <<>> ELSE f[Len(seqs)]
  BY DEF FlattenSeq, Flattens
<1> HIDE DEF f
<1>3. Piles(seqs, f, T)
  BY <1>1, FlattensPiles
<1>4. FlattenSeq(seqs) \in Seq(T)
  <2>1. CASE Len(seqs) = 0
    BY <1>2, <2>1
  <2>2. CASE Len(seqs) # 0
    <3>1. Len(seqs) \in 1..Len(seqs)
      BY <2>2
    <3>2. QED BY <1>2, <1>3, <2>2, <3>1 DEF Piles
  <2>3. QED BY <2>1, <2>2
<1>5. Flattened(seqs, f, T)
  BY <1>2, <1>3 DEF Flattened
<1>6. QED BY <1>4, <1>5

LEMMA FlattenAppend ==
  ASSUME NEW T, NEW seqs \in Seq(Seq(T)), NEW s \in Seq(T)
  PROVE  FlattenSeq(Append(seqs, s)) = FlattenSeq(seqs) \o s
<1> DEFINE more == Append(seqs, s)
<1>0. /\ more \in Seq(Seq(T)) /\ Len(seqs) \in Nat /\ Len(more) = Len(seqs) + 1
      /\ \A i \in 1..Len(seqs) : more[i] = seqs[i]
      /\ more[Len(more)] = s
  OBVIOUS
<1> HIDE DEF more
<1>1. PICK g : Flattened(more, g, T)
  BY <1>0, FlattenIs
<1>2. /\ FlattenSeq(more) = g[Len(more)]
      /\ g[1] = more[1] /\ \A i \in 2..Len(more) : g[i] = g[i - 1] \o more[i]
  <2>1. Len(more) # 0
    BY <1>0
  <2>2. QED BY <1>1, <2>1 DEF Flattened, Piles
<1>6. PICK f : Flattened(seqs, f, T)
  BY FlattenIs
<1>3. CASE Len(seqs) = 0
  <2>1. FlattenSeq(seqs) = <<>>
    BY <1>3, <1>6 DEF Flattened
  <2>2. FlattenSeq(more) = s
    BY <1>0, <1>2, <1>3
  <2>3. <<>> \o s = s
    OBVIOUS
  <2>4. QED BY <2>1, <2>2, <2>3 DEF more
<1>4. CASE Len(seqs) # 0
  <2>1. FlattenSeq(seqs) = f[Len(seqs)]
    BY <1>4, <1>6 DEF Flattened
  <2>2. f[1] = seqs[1] /\ \A i \in 2..Len(seqs) : f[i] = f[i - 1] \o seqs[i]
    BY <1>4, <1>6 DEF Flattened, Piles
  <2> DEFINE Fails == {i \in 1..Len(seqs) : f[i] # g[i]}
  <2>3. ASSUME Fails # {} PROVE FALSE
    <3>1. PICK n \in Fails : \A k \in Fails : n <= k
      <4>1. Fails \subseteq Nat
        BY <1>0
      <4> HIDE DEF Fails
      <4>2. QED BY <2>3, <4>1, Least
    <3>2. n \in 1..Len(seqs) /\ f[n] # g[n]
      BY <3>1
    <3>3. n # 1
      BY <1>0, <1>2, <2>2, <3>2
    <3>4. n \in 2..Len(seqs) /\ n \in 2..Len(more) /\ n - 1 \in 1..Len(seqs) /\ ~(n <= n - 1)
      BY <1>0, <3>2, <3>3
    <3>5. f[n - 1] = g[n - 1]
      BY <3>1, <3>4
    <3> HIDE DEF Fails
    <3>6. QED BY <1>0, <1>2, <2>2, <3>2, <3>4, <3>5
  <2>4. Len(seqs) \in 1..Len(seqs) /\ Len(more) \in 2..Len(more) /\ Len(more) - 1 = Len(seqs)
    BY <1>0, <1>4
  <2>5. f[Len(seqs)] = g[Len(seqs)]
    BY <2>3, <2>4
  <2>6. g[Len(more)] = g[Len(seqs)] \o s
    BY <1>0, <1>2, <2>4
  <2>7. QED BY <1>2, <2>1, <2>5, <2>6 DEF more
<1>5. QED BY <1>3, <1>4

\* g makes sequences over T of what is in S.
Gives(g, S, T) == g \in [S -> Seq(T)]

LEMMA EachOf ==
  ASSUME NEW S, NEW T, NEW g, Gives(g, S, T), NEW q \in Seq(S)
  PROVE  [n \in DOMAIN q |-> g[q[n]]] \in Seq(Seq(T))
<1> DEFINE of == [n \in DOMAIN q |-> g[q[n]]]
           V == Seq(T)
<1>1. DOMAIN q = 1..Len(q) /\ Len(q) \in Nat /\ \A n \in 1..Len(q) : q[n] \in S
  OBVIOUS
<1>2. \A n \in 1..Len(q) : g[q[n]] \in V
  BY <1>1 DEF Gives
<1> HIDE DEF V
<1>3. of \in [1..Len(q) -> V]
  BY <1>1, <1>2
<1> HIDE DEF of
<1>4. of \in Seq(V)
  <2>1. \A k \in Nat : \A p \in [1..k -> V] : p \in Seq(V)
    OBVIOUS
  <2>2. QED BY <1>1, <1>3, <2>1
<1>5. QED BY <1>4 DEF of, V

LEMMA FlatMapType ==
  ASSUME NEW S, NEW T, NEW g, Gives(g, S, T), NEW q \in Seq(S)
  PROVE  FlatMap(q, g) \in Seq(T)
<1>1. [n \in DOMAIN q |-> g[q[n]]] \in Seq(Seq(T))
  BY EachOf
<1>2. FlattenSeq([n \in DOMAIN q |-> g[q[n]]]) \in Seq(T)
  BY <1>1, FlattenIs
<1>3. QED BY <1>2 DEF FlatMap

LEMMA FlatMapEmpty ==
  ASSUME NEW g
  PROVE  FlatMap(<<>>, g) = <<>>
<1>1. [n \in DOMAIN <<>> |-> g[<<>>[n]]] = <<>>
  OBVIOUS
<1>2. FlattenSeq(<<>>) = <<>>
  BY DEF FlattenSeq
<1>3. QED BY <1>1, <1>2 DEF FlatMap

LEMMA FlatMapAppend ==
  ASSUME NEW S, NEW T, NEW g, Gives(g, S, T), NEW q \in Seq(S), NEW e \in S
  PROVE  FlatMap(Append(q, e), g) = FlatMap(q, g) \o g[e]
<1> DEFINE of(r) == [n \in DOMAIN r |-> g[r[n]]]
<1>1. of(q) \in Seq(Seq(T))
  BY EachOf
<1>5. g[e] \in Seq(T)
  BY DEF Gives
<1>2. of(Append(q, e)) = Append(of(q), g[e])
  OBVIOUS
<1> HIDE DEF of
<1>3. FlattenSeq(of(Append(q, e))) = FlattenSeq(of(q)) \o g[e]
  BY <1>1, <1>2, <1>5, FlattenAppend
<1>4. QED BY <1>3 DEF FlatMap, of

LEMMA FlatMapConcat ==
  ASSUME NEW S, NEW T, NEW g, Gives(g, S, T), NEW q \in Seq(S), NEW r \in Seq(S)
  PROVE  FlatMap(q \o r, g) = FlatMap(q, g) \o FlatMap(r, g)
<1> DEFINE P == {s \in Seq(S) : FlatMap(q \o s, g) = FlatMap(q, g) \o FlatMap(s, g)}
<1>1. <<>> \in P
  <2>1. <<>> \in Seq(S) /\ q \o <<>> = q /\ FlatMap(<<>>, g) = <<>> /\ FlatMap(q, g) \in Seq(T)
    BY ConcatEmpty, FlatMapEmpty, FlatMapType
  <2>2. FlatMap(q, g) \o <<>> = FlatMap(q, g)
    BY <2>1, ConcatEmpty
  <2>3. QED BY <2>1, <2>2
<1>2. ASSUME NEW s \in P, NEW e \in S PROVE Append(s, e) \in P
  <2>1. /\ s \in Seq(S) /\ Append(s, e) \in Seq(S) /\ q \o s \in Seq(S)
        /\ q \o Append(s, e) = Append(q \o s, e)
    OBVIOUS
  <2>2. FlatMap(q \o Append(s, e), g) = FlatMap(q \o s, g) \o g[e]
    <3>1. \A r1 \in Seq(S) : FlatMap(Append(r1, e), g) = FlatMap(r1, g) \o g[e]
      BY FlatMapAppend
    <3> HIDE DEF P
    <3>2. QED BY <2>1, <3>1
  <2>3. FlatMap(Append(s, e), g) = FlatMap(s, g) \o g[e]
    BY <2>1, FlatMapAppend
  <2>4. FlatMap(q, g) \in Seq(T) /\ FlatMap(s, g) \in Seq(T) /\ g[e] \in Seq(T)
    BY <2>1, FlatMapType DEF Gives
  <2>5. (FlatMap(q, g) \o FlatMap(s, g)) \o g[e] = FlatMap(q, g) \o (FlatMap(s, g) \o g[e])
    <3> HIDE DEF P
    <3>1. ASSUME NEW a \in Seq(T), NEW b \in Seq(T), NEW c \in Seq(T)
          PROVE  (a \o b) \o c = a \o (b \o c)
      BY ONLY SMTT(20), a \in Seq(T), b \in Seq(T), c \in Seq(T)
    <3>2. QED BY <2>4, <3>1
  <2>6. QED BY <2>1, <2>2, <2>3, <2>5
<1> HIDE DEF P
<1>3. r \in P
  <2>1. P \subseteq Seq(S)
    BY DEF P
  <2>2. QED BY <1>1, <1>2, <2>1, AllSequences
<1>4. QED BY <1>3 DEF P

\* x comes before y in what g makes of q: from u, which comes before what makes a y.
Meets(q, g, x, y) ==
    \E u \in Range(q) :
        /\ Before(g[u], x, y)
        /\ \A v \in Range(q) : y \in Range(g[v]) => v = u \/ Before(q, u, v)

\* All that g makes of the elements of q.
Ranges(q, g) == UNION {Range(g[u]) : u \in Range(q)}

LEMMA RangeAppend ==
  ASSUME NEW S, NEW q \in Seq(S), NEW e \in S
  PROVE  Range(Append(q, e)) = Range(q) \cup {e}
<1>1. Append(q, e) = q \o <<e>> /\ <<e>> \in Seq(S)
  BY AppendIs
<1>2. Range(<<e>>) = {e}
  BY DEF Range
<1>3. \A r \in Seq(S) : Range(q \o r) = Range(q) \cup Range(r)
  BY RangeConcat
<1>4. QED BY <1>1, <1>2, <1>3

LEMMA BeforeAppend ==
  ASSUME NEW S, NEW q \in Seq(S), NEW e \in S, NEW x, NEW y
  PROVE  Before(Append(q, e), x, y) <=> Before(q, x, y) \/ (y \notin Range(q) /\ x = e /\ y # e)
<1>1. Append(q, e) = q \o <<e>> /\ <<e>> \in Seq(S)
  BY AppendIs
<1>2. Before(<<e>>, x, y) <=> x = e /\ y # e
  <2>1. DOMAIN <<e>> = {1} /\ <<e>>[1] = e /\ 1..1 = {1}
    OBVIOUS
  <2>2. QED BY <2>1 DEF Before
<1>3. Before(q \o <<e>>, x, y) <=> Before(q, x, y) \/ (y \notin Range(q) /\ Before(<<e>>, x, y))
  BY <1>1, BeforeConcat
<1>4. QED BY <1>1, <1>2, <1>3

LEMMA RangeFlatMap ==
  ASSUME NEW S, NEW T, NEW g, Gives(g, S, T), NEW q \in Seq(S)
  PROVE  Range(FlatMap(q, g)) = Ranges(q, g)
<1> DEFINE P == {s \in Seq(S) : Range(FlatMap(s, g)) = Ranges(s, g)}
<1>1. <<>> \in P
  <2>1. FlatMap(<<>>, g) = <<>> /\ <<>> \in Seq(S)
    BY FlatMapEmpty
  <2>2. Range(<<>>) = {}
    BY DEF Range
  <2>3. QED BY <2>1, <2>2 DEF Ranges
<1>2. ASSUME NEW s \in P, NEW e \in S PROVE Append(s, e) \in P
  <2>1. s \in Seq(S) /\ Append(s, e) \in Seq(S) /\ Range(FlatMap(s, g)) = Ranges(s, g)
    OBVIOUS
  <2> HIDE DEF P
  <2>2. FlatMap(Append(s, e), g) = FlatMap(s, g) \o g[e]
    BY <2>1, FlatMapAppend
  <2>3. FlatMap(s, g) \in Seq(T) /\ g[e] \in Seq(T)
    BY <2>1, FlatMapType DEF Gives
  <2>4. Range(FlatMap(s, g) \o g[e]) = Range(FlatMap(s, g)) \cup Range(g[e])
    BY <2>3, RangeConcat
  <2>5. Range(Append(s, e)) = Range(s) \cup {e}
    BY <2>1, RangeAppend
  <2>6. Ranges(Append(s, e), g) = Ranges(s, g) \cup Range(g[e])
    BY <2>5 DEF Ranges
  <2>7. QED BY <2>1, <2>2, <2>4, <2>6 DEF P
<1> HIDE DEF P
<1>3. q \in P
  <2>1. P \subseteq Seq(S)
    BY DEF P
  <2>2. QED BY <1>1, <1>2, <2>1, AllSequences
<1>4. QED BY <1>3 DEF P

LEMMA MeetsAppend ==
  ASSUME NEW S, NEW q \in Seq(S), NEW e \in S, NEW g, NEW x, NEW y
  PROVE  Meets(Append(q, e), g, x, y)
           <=> Meets(q, g, x, y) \/ (y \notin Ranges(q, g) /\ Before(g[e], x, y))
<1> DEFINE more == Append(q, e)
<1>1. Range(more) = Range(q) \cup {e}
  BY RangeAppend
<1>2. \A u, v : Before(more, u, v) <=> Before(q, u, v) \/ (v \notin Range(q) /\ u = e /\ v # e)
  BY BeforeAppend
<1>3. /\ \A u, v : Before(q, u, v) => u \in Range(q)
      /\ \A u, v : u \in Range(q) /\ v \notin Range(q) => Before(q, u, v)
  BY BeforeIn
<1> HIDE DEF more
<1>4. ASSUME Meets(more, g, x, y)
      PROVE  Meets(q, g, x, y) \/ (y \notin Ranges(q, g) /\ Before(g[e], x, y))
  <2>1. PICK u \in Range(more) :
           /\ Before(g[u], x, y)
           /\ \A v \in Range(more) : y \in Range(g[v]) => v = u \/ Before(more, u, v)
    BY <1>4 DEF Meets
  <2>2. CASE u \in Range(q)
    <3>1. ASSUME NEW v \in Range(q), y \in Range(g[v]) PROVE v = u \/ Before(q, u, v)
      BY <1>1, <1>2, <2>1, <3>1
    <3>2. QED BY <2>1, <2>2, <3>1 DEF Meets
  <2>3. CASE u \notin Range(q)
    <3>1. u = e
      BY <1>1, <2>1, <2>3
    <3>2. ASSUME NEW v \in Range(q) PROVE y \notin Range(g[v])
      <4>1. v # u /\ v \in Range(more) /\ ~Before(q, u, v) /\ ~Before(more, u, v)
        BY <1>1, <1>2, <1>3, <2>3, <3>2
      <4>2. QED BY <2>1, <4>1
    <3>3. QED BY <2>1, <3>1, <3>2 DEF Ranges
  <2>4. QED BY <2>2, <2>3
<1>5. ASSUME Meets(q, g, x, y) PROVE Meets(more, g, x, y)
  <2>1. PICK u \in Range(q) :
           /\ Before(g[u], x, y)
           /\ \A v \in Range(q) : y \in Range(g[v]) => v = u \/ Before(q, u, v)
    BY <1>5 DEF Meets
  <2>2. ASSUME NEW v \in Range(more), y \in Range(g[v]) PROVE v = u \/ Before(more, u, v)
    BY <1>1, <1>2, <1>3, <2>1, <2>2
  <2>3. QED BY <1>1, <2>1, <2>2 DEF Meets
<1>6. ASSUME y \notin Ranges(q, g), Before(g[e], x, y) PROVE Meets(more, g, x, y)
  <2>1. ASSUME NEW v \in Range(more), y \in Range(g[v]) PROVE v = e
    BY <1>1, <1>6, <2>1 DEF Ranges
  <2>2. QED BY <1>1, <1>6, <2>1 DEF Meets
<1>7. QED BY <1>4, <1>5, <1>6 DEF more

LEMMA BeforeFlatMap ==
  ASSUME NEW S, NEW T, NEW g, Gives(g, S, T), NEW q \in Seq(S), NEW x, NEW y
  PROVE  Before(FlatMap(q, g), x, y) <=> Meets(q, g, x, y)
<1> DEFINE P == {s \in Seq(S) : Before(FlatMap(s, g), x, y) <=> Meets(s, g, x, y)}
<1>1. <<>> \in P
  <2>1. FlatMap(<<>>, g) = <<>> /\ <<>> \in Seq(S)
    BY FlatMapEmpty
  <2>2. Range(<<>>) = {} /\ DOMAIN <<>> = {}
    BY DEF Range
  <2>3. ~Before(<<>>, x, y) /\ ~Meets(<<>>, g, x, y)
    BY <2>2 DEF Meets, Before
  <2>4. QED BY <2>1, <2>3
<1>2. ASSUME NEW s \in P, NEW e \in S PROVE Append(s, e) \in P
  <2>1. /\ s \in Seq(S) /\ Append(s, e) \in Seq(S)
        /\ Before(FlatMap(s, g), x, y) <=> Meets(s, g, x, y)
    OBVIOUS
  <2> HIDE DEF P
  <2>2. FlatMap(Append(s, e), g) = FlatMap(s, g) \o g[e]
    BY <2>1, FlatMapAppend
  <2>3. FlatMap(s, g) \in Seq(T) /\ g[e] \in Seq(T)
    BY <2>1, FlatMapType DEF Gives
  <2>4. Before(FlatMap(s, g) \o g[e], x, y) <=>
          Before(FlatMap(s, g), x, y) \/ (y \notin Range(FlatMap(s, g)) /\ Before(g[e], x, y))
    BY <2>3, BeforeConcat
  <2>5. Range(FlatMap(s, g)) = Ranges(s, g)
    BY <2>1, RangeFlatMap
  <2>6. Meets(Append(s, e), g, x, y)
          <=> Meets(s, g, x, y) \/ (y \notin Ranges(s, g) /\ Before(g[e], x, y))
    BY <2>1, MeetsAppend
  <2>7. Before(FlatMap(Append(s, e), g), x, y) <=> Meets(Append(s, e), g, x, y)
    BY <2>1, <2>2, <2>4, <2>5, <2>6
  <2>8. QED BY <2>1, <2>7 DEF P
<1> HIDE DEF P
<1>3. q \in P
  <2>1. P \subseteq Seq(S)
    BY DEF P
  <2>2. QED BY <1>1, <1>2, <2>1, AllSequences
<1>4. QED BY <1>3 DEF P

\* What is made of the same, in the same order, is in the same order.
LEMMA SameOrderFlatMap ==
  ASSUME NEW S, NEW T, NEW g, Gives(g, S, T), NEW q \in Seq(S), NEW r \in Seq(S),
         SameOrder(q, r)
  PROVE  SameOrder(FlatMap(q, g), FlatMap(r, g))
<1>1. Range(q) = Range(r) /\ \A x, y : Before(q, x, y) <=> Before(r, x, y)
  BY SameOrderIs
<1>2. Range(FlatMap(q, g)) = Ranges(q, g) /\ Range(FlatMap(r, g)) = Ranges(r, g)
  BY RangeFlatMap
<1>3. Ranges(q, g) = Ranges(r, g)
  BY <1>1 DEF Ranges
<1>4. ASSUME NEW x, NEW y
      PROVE  Before(FlatMap(q, g), x, y) <=> Before(FlatMap(r, g), x, y)
  <2>1. /\ Before(FlatMap(q, g), x, y) <=> Meets(q, g, x, y)
        /\ Before(FlatMap(r, g), x, y) <=> Meets(r, g, x, y)
    BY BeforeFlatMap
  <2>2. Meets(q, g, x, y) <=> Meets(r, g, x, y)
    BY <1>1 DEF Meets
  <2>3. QED BY <2>1, <2>2
<1>5. QED BY <1>2, <1>3, <1>4 DEF SameOrder

LEMMA FlatMapSingle ==
  ASSUME NEW S, NEW T, NEW g, Gives(g, S, T), NEW e \in S
  PROVE  FlatMap(<<e>>, g) = g[e]
<1>1. <<>> \in Seq(S) /\ <<e>> = Append(<<>>, e) /\ g[e] \in Seq(T)
  BY DEF Gives
<1>2. \A q \in Seq(S) : FlatMap(Append(q, e), g) = FlatMap(q, g) \o g[e]
  BY FlatMapAppend
<1>3. FlatMap(<<>>, g) = <<>> /\ <<>> \o g[e] = g[e]
  BY <1>1, FlatMapEmpty, ConcatEmpty
<1>4. QED BY <1>1, <1>2, <1>3

\* Where g makes nothing of all but one, there is what it makes of that.
LEMMA FlatMapOne ==
  ASSUME NEW S, NEW T, NEW g, Gives(g, S, T), NEW q \in Seq(S)
  PROVE  /\ (\A n \in DOMAIN q : g[q[n]] = <<>>) => FlatMap(q, g) = <<>>
         /\ \A i \in DOMAIN q :
              (\A n \in DOMAIN q : n # i => g[q[n]] = <<>>) => FlatMap(q, g) = g[q[i]]
<1> DEFINE None(s) == (\A n \in DOMAIN s : g[s[n]] = <<>>) => FlatMap(s, g) = <<>>
           One(s, i) == (\A n \in DOMAIN s : n # i => g[s[n]] = <<>>) => FlatMap(s, g) = g[s[i]]
           P == {s \in Seq(S) : None(s) /\ \A i \in DOMAIN s : One(s, i)}
<1>1. <<>> \in P
  <2>1. FlatMap(<<>>, g) = <<>> /\ <<>> \in Seq(S) /\ DOMAIN <<>> = {}
    BY FlatMapEmpty
  <2>2. QED BY <2>1
<1>2. ASSUME NEW s \in P, NEW e \in S PROVE Append(s, e) \in P
  <2> DEFINE more == Append(s, e)
  <2>1. /\ s \in Seq(S) /\ more \in Seq(S) /\ Len(s) \in Nat
        /\ DOMAIN s = 1..Len(s) /\ DOMAIN more = 1..Len(s) + 1
        /\ \A n \in 1..Len(s) : more[n] = s[n]
        /\ more[Len(s) + 1] = e
    BY AppendIs
  <2>2. None(s) /\ \A i \in DOMAIN s : One(s, i)
    OBVIOUS
  <2>3. FlatMap(more, g) = FlatMap(s, g) \o g[e]
    BY <2>1, FlatMapAppend
  <2>4. FlatMap(s, g) \in Seq(T) /\ g[e] \in Seq(T)
    <3> HIDE DEF P
    <3>1. QED BY <2>1, FlatMapType DEF Gives
  <2>5. /\ FlatMap(s, g) \o <<>> = FlatMap(s, g)
        /\ <<>> \o g[e] = g[e]
    BY <2>4, ConcatEmpty
  <2> HIDE DEF more, P
  <2>6. ASSUME \A n \in DOMAIN more : g[more[n]] = <<>> PROVE FlatMap(more, g) = <<>>
    <3>1. g[e] = <<>>
      BY <2>1, <2>6
    <3>2. \A n \in DOMAIN s : g[s[n]] = <<>>
      BY <2>1, <2>6
    <3>3. QED BY <2>2, <2>3, <2>5, <3>1, <3>2
  <2>7. ASSUME NEW i \in DOMAIN more, \A n \in DOMAIN more : n # i => g[more[n]] = <<>>
        PROVE  FlatMap(more, g) = g[more[i]]
    <3>1. CASE i = Len(s) + 1
      <4>1. \A n \in DOMAIN s : g[s[n]] = <<>>
        BY <2>1, <2>7, <3>1
      <4>2. g[more[i]] = g[e]
        BY <2>1, <3>1
      <4>3. QED BY <2>2, <2>3, <2>5, <4>1, <4>2
    <3>2. CASE i # Len(s) + 1
      <4>1. i \in DOMAIN s /\ g[e] = <<>> /\ more[i] = s[i]
        BY <2>1, <2>7, <3>2
      <4>2. \A n \in DOMAIN s : n # i => g[s[n]] = <<>>
        BY <2>1, <2>7
      <4>3. FlatMap(s, g) = g[s[i]]
        BY <2>2, <4>1, <4>2
      <4>4. QED BY <2>3, <2>5, <4>1, <4>3
    <3>3. QED BY <3>1, <3>2
  <2>8. None(more) /\ \A i \in DOMAIN more : One(more, i)
    BY <2>6, <2>7
  <2> HIDE DEF None, One
  <2>9. QED BY <2>1, <2>8 DEF P, more
<1> HIDE DEF P
<1>3. q \in P
  <2>1. P \subseteq Seq(S)
    BY DEF P
  <2>2. QED BY <1>1, <1>2, <2>1, AllSequences
<1>4. QED BY <1>3 DEF P

\* FlatMap looks at what g makes of each.
LEMMA FlatMapSame ==
  ASSUME NEW q, NEW r, NEW g, DOMAIN q = DOMAIN r, \A n \in DOMAIN q : g[q[n]] = g[r[n]]
  PROVE  FlatMap(q, g) = FlatMap(r, g)
<1>1. [n \in DOMAIN q |-> g[q[n]]] = [n \in DOMAIN r |-> g[r[n]]]
  OBVIOUS
<1>2. QED BY <1>1 DEF FlatMap

---------------------------------------------------------------------------
(* Loops *)

LEMMA UpToLast ==
  ASSUME NEW m \in Nat, NEW P, 0 \in P, \A n \in 0..m : n \in P /\ n # m => n + 1 \in P
  PROVE  \A n \in 0..m : n \in P
<1> DEFINE Fails == {n \in 0..m : n \notin P}
<1>1. ASSUME Fails # {} PROVE FALSE
  <2>1. PICK n \in Fails : \A k \in Fails : n <= k
    <3>1. Fails \subseteq Nat
      OBVIOUS
    <3> HIDE DEF Fails
    <3>2. QED BY <1>1, <3>1, Least
  <2>2. n \in 0..m /\ n \notin P /\ n # 0
    BY <2>1
  <2>3. n - 1 \in 0..m /\ n - 1 # m /\ (n - 1) + 1 = n /\ ~(n <= n - 1)
    BY <2>2
  <2>4. n - 1 \in P
    BY <2>1, <2>3
  <2>5. QED BY <2>2, <2>3, <2>4
<1>2. QED BY <1>1

\* The values that a loop goes through: first, then what each step makes of the last.
Runs(loop, m, begin, step, V) ==
    /\ loop[0] = begin
    /\ \A n \in 0..m : loop[n] \in V
    /\ \A n \in 0..m : n # m => loop[n + 1] = step[n + 1][loop[n]]

\* The steps of a loop, each from one value to the next.
Steps(step, m, V) == step \in [1..m -> [V -> V]]

\* loop is defined by that recursion.
Loops(loop, m, begin, step, V) ==
    /\ loop \in [0..m -> V]
    /\ \A n \in 0..m : loop[n] = IF n = 0 THEN begin ELSE step[n][loop[n - 1]]

LEMMA LoopExists ==
  ASSUME NEW V, NEW m \in Nat, NEW begin \in V, NEW step, Steps(step, m, V)
  PROVE  \E loop : Loops(loop, m, begin, step, V)
<1> DEFINE S == 0..m
           N == [n \in S |-> n]
           B == [n \in S |-> [f \in [S -> V] |-> IF n = 0 THEN begin ELSE step[n][f[n - 1]]]]
<1> USE DEF Steps
<1>1. \A n \in S : n \in Nat /\ (n # 0 => n \in 1..m /\ n - 1 \in S)
  OBVIOUS
<1>2. N \in [S -> Nat]
  BY <1>1
<1>3. B \in [S -> [[S -> V] -> V]]
  <2>1. ASSUME NEW n \in S, NEW f \in [S -> V]
        PROVE  (IF n = 0 THEN begin ELSE step[n][f[n - 1]]) \in V
    <3>1. CASE n = 0
      BY <3>1
    <3>2. CASE n # 0
      <4>1. f[n - 1] \in V /\ step[n] \in [V -> V]
        BY <1>1, <3>2
      <4>2. step[n][f[n - 1]] \in V
        BY <4>1
      <4>3. QED BY <3>2, <4>2
    <3>3. QED BY <3>1, <3>2
  <2> HIDE DEF S
  <2>2. QED BY <2>1
<1>4. Descends(B, N, S, V)
  <2>1. ASSUME NEW n \in S, NEW f \in [S -> V], NEW g \in [S -> V],
               \A t \in S : N[t] < N[n] => f[t] = g[t]
        PROVE  B[n][f] = B[n][g]
    <3>1. CASE n = 0
      BY <3>1
    <3>2. CASE n # 0
      <4>1. n - 1 \in S /\ N[n - 1] < N[n]
        BY <1>1, <3>2
      <4>2. f[n - 1] = g[n - 1]
        BY <2>1, <4>1
      <4>3. QED BY <4>2
    <3>3. QED BY <3>1, <3>2
  <2> HIDE DEF B, N, S
  <2>2. QED BY <2>1 DEF Descends
<1> HIDE DEF N
<1>5. PICK f \in [S -> V] : \A n \in S : f[n] = B[n][f]
  <2> HIDE DEF B, S
  <2>1. Recurses(B, N, S, V)
    BY <1>2, <1>3, <1>4 DEF Recurses
  <2>2. HasSolution(B, S, V)
    BY <2>1, RecursionExists
  <2>3. QED BY <2>2 DEF HasSolution
<1>6. \A n \in S : f[n] = IF n = 0 THEN begin ELSE step[n][f[n - 1]]
  BY <1>5
<1>7. Loops(f, m, begin, step, V)
  BY <1>5, <1>6 DEF Loops
<1>8. QED BY <1>7

LEMMA LoopRuns ==
  ASSUME NEW V, NEW m \in Nat, NEW begin \in V, NEW step \in [1..m -> [V -> V]], NEW loop,
         \A n \in 0..m : loop[n] = IF n = 0 THEN begin ELSE step[n][loop[n - 1]]
  PROVE  Runs(loop, m, begin, step, V)
<1> DEFINE S == 0..m
<1>1. \A n \in S : loop[n] = IF n = 0 THEN begin ELSE step[n][loop[n - 1]]
  OBVIOUS
<1>2. loop[0] = begin
  BY <1>1
<1>3. ASSUME NEW n \in S, n # m PROVE loop[n + 1] = step[n + 1][loop[n]]
  <2>1. n + 1 \in S /\ n + 1 # 0 /\ (n + 1) - 1 = n
    BY <1>3
  <2>2. QED BY <1>1, <2>1
<1> DEFINE P == {n \in S : loop[n] \in V}
<1>4. \A n \in 0..m : n \in P
  <2>1. 0 \in P
    BY <1>2
  <2>2. ASSUME NEW n \in 0..m, n \in P, n # m PROVE n + 1 \in P
    <3>1. n + 1 \in S /\ n + 1 \in 1..m
      BY <2>2
    <3>2. step[n + 1] \in [V -> V] /\ loop[n] \in V
      BY <2>2, <3>1
    <3>3. step[n + 1][loop[n]] \in V
      BY <3>2
    <3>4. QED BY <1>3, <2>2, <3>1, <3>3
  <2> HIDE DEF P
  <2>3. QED BY <2>1, <2>2, UpToLast
<1>5. \A n \in 0..m : loop[n] \in V
  BY <1>4
<1>6. QED BY <1>2, <1>3, <1>5 DEF Runs

\* The first n of q.
Prefix(q, n) == [i \in 1..n |-> q[i]]

LEMMA PrefixIs ==
  ASSUME NEW S, NEW q \in Seq(S)
  PROVE  /\ Prefix(q, 0) = <<>> /\ Prefix(q, Len(q)) = q
         /\ \A n \in 0..Len(q) : Prefix(q, n) \in Seq(S)
         /\ \A n \in 0..Len(q) : n # Len(q) =>
              q[n + 1] \in S /\ Prefix(q, n + 1) = Append(Prefix(q, n), q[n + 1])
<1>1. Len(q) \in Nat /\ q = [i \in 1..Len(q) |-> q[i]] /\ \A i \in 1..Len(q) : q[i] \in S
  OBVIOUS
<1>2. Prefix(q, 0) = <<>>
  BY DEF Prefix
<1>3. Prefix(q, Len(q)) = q
  BY <1>1 DEF Prefix
<1>4. ASSUME NEW n \in 0..Len(q)
      PROVE  Prefix(q, n) \in Seq(S) /\ Len(Prefix(q, n)) = n
  <2>1. n \in Nat /\ Prefix(q, n) \in [1..n -> S]
    BY <1>1 DEF Prefix
  <2>2. QED BY <2>1
<1>5. ASSUME NEW n \in 0..Len(q), n # Len(q)
      PROVE  q[n + 1] \in S /\ Prefix(q, n + 1) = Append(Prefix(q, n), q[n + 1])
  <2>1. n \in Nat /\ n + 1 \in 0..Len(q) /\ n + 1 \in 1..Len(q)
    BY <1>1, <1>5
  <2> DEFINE p == Prefix(q, n)
             w == Append(p, q[n + 1])
             r == Prefix(q, n + 1)
  <2>2. p \in Seq(S) /\ Len(p) = n /\ r \in Seq(S) /\ Len(r) = n + 1 /\ q[n + 1] \in S
    BY <1>1, <1>4, <2>1
  <2>3. \A i \in 1..n : p[i] = q[i]
    BY DEF Prefix
  <2>4. \A i \in 1..n + 1 : r[i] = q[i]
    BY DEF Prefix
  <2> HIDE DEF p, r
  <2>5. /\ w \in Seq(S) /\ Len(w) = n + 1 /\ w[n + 1] = q[n + 1]
        /\ \A i \in 1..n : w[i] = p[i]
    BY <2>1, <2>2
  <2> HIDE DEF w
  <2>6. \A i \in 1..n + 1 : w[i] = r[i]
    <3>1. \A i \in 1..n + 1 : i = n + 1 \/ i \in 1..n
      BY <2>1
    <3>2. QED BY <2>3, <2>4, <2>5, <3>1
  <2>7. w = r
    BY <2>2, <2>5, <2>6
  <2>8. QED BY <2>2, <2>7 DEF w, r, p
<1>6. QED BY <1>2, <1>3, <1>4, <1>5

---------------------------------------------------------------------------
(* Lists of fields with the same fields, and the same below each *)

\* Which field it is, and what is selected below it if it is the same field as f.
IdOf == [e \in CollectedField |-> <<<<e.key, e.on>>>>]
BelowOf(f) == [e \in CollectedField |-> IF Same(e, f) THEN e.selections ELSE <<>>]

\* What FieldsAsSpecified looks at.
Looks == {IdOf} \cup {BelowOf(f) : f \in CollectedField}
\* What there is to see.
Seen == {<<e.key, e.on>> : e \in CollectedField} \cup Selections

LEMMA LooksGive ==
  ASSUME NEW g \in Looks
  PROVE  Gives(g, CollectedField, Seen)
<1>1. IdOf \in [CollectedField -> Seq(Seen)]
  <2>1. ASSUME NEW e \in CollectedField PROVE <<<<e.key, e.on>>>> \in Seq(Seen)
    <3>1. <<e.key, e.on>> \in Seen
      BY DEF Seen
    <3>2. \A x \in Seen : <<x>> \in Seq(Seen)
      OBVIOUS
    <3>3. QED BY <3>1, <3>2
  <2>2. QED BY <2>1 DEF IdOf
<1>2. ASSUME NEW f \in CollectedField PROVE BelowOf(f) \in [CollectedField -> Seq(Seen)]
  <2>1. ASSUME NEW e \in CollectedField PROVE e.selections \in Seq(Seen) /\ <<>> \in Seq(Seen)
    <3>1. e.selections \in Seq(Selections)
      BY DEF CollectedField
    <3>2. Selections \subseteq Seen
      BY DEF Seen
    <3>3. QED BY <3>1, <3>2
  <2>2. \A e \in CollectedField :
           (IF Same(e, f) THEN e.selections ELSE <<>>) \in Seq(Seen)
    BY <2>1
  <2>3. QED BY <2>2 DEF BelowOf
<1>3. QED BY <1>1, <1>2 DEF Looks, Gives

\* Both have the same fields in order, and the same below each.
Alike(q, r) == \A g \in Looks : SameOrder(FlatMap(q, g), FlatMap(r, g))

\* All there is to see of b is seen of fields.
Covers(fields, b) == \A g \in Looks : Range(FlatMap(b, g)) \subseteq Range(FlatMap(fields, g))

LEMMA LooksConcat ==
  ASSUME NEW q \in Seq(CollectedField), NEW r \in Seq(CollectedField), NEW g \in Looks
  PROVE  /\ FlatMap(q, g) \in Seq(Seen) /\ FlatMap(r, g) \in Seq(Seen)
         /\ FlatMap(q \o r, g) = FlatMap(q, g) \o FlatMap(r, g)
         /\ Range(FlatMap(q \o r, g)) = Range(FlatMap(q, g)) \cup Range(FlatMap(r, g))
<1>1. Gives(g, CollectedField, Seen)
  BY LooksGive
<1>2. FlatMap(q, g) \in Seq(Seen) /\ FlatMap(r, g) \in Seq(Seen)
  BY <1>1, FlatMapType
<1>3. FlatMap(q \o r, g) = FlatMap(q, g) \o FlatMap(r, g)
  BY <1>1, FlatMapConcat
<1>4. Range(FlatMap(q, g) \o FlatMap(r, g)) = Range(FlatMap(q, g)) \cup Range(FlatMap(r, g))
  BY <1>2, RangeConcat
<1>5. QED BY <1>2, <1>3, <1>4

LEMMA AlikeSame ==
  ASSUME NEW q
  PROVE  Alike(q, q)
BY DEF Alike, SameOrder

LEMMA AlikeTurns ==
  ASSUME NEW q, NEW r, Alike(q, r)
  PROVE  Alike(r, q)
<1>1. ASSUME NEW g \in Looks PROVE SameOrder(FlatMap(r, g), FlatMap(q, g))
  <2>1. SameOrder(FlatMap(q, g), FlatMap(r, g))
    BY DEF Alike
  <2>2. QED BY <2>1 DEF SameOrder
<1>2. QED BY <1>1 DEF Alike

LEMMA AlikeChains ==
  ASSUME NEW q, NEW r, NEW s, Alike(q, r), Alike(r, s)
  PROVE  Alike(q, s)
<1>1. ASSUME NEW g \in Looks PROVE SameOrder(FlatMap(q, g), FlatMap(s, g))
  <2>1. SameOrder(FlatMap(q, g), FlatMap(r, g)) /\ SameOrder(FlatMap(r, g), FlatMap(s, g))
    BY DEF Alike
  <2>2. QED BY ONLY <2>1 DEF SameOrder
<1>2. QED BY <1>1 DEF Alike

LEMMA AlikeConcat ==
  ASSUME NEW q \in Seq(CollectedField), NEW r \in Seq(CollectedField),
         NEW s \in Seq(CollectedField), NEW t \in Seq(CollectedField),
         Alike(q, r), Alike(s, t)
  PROVE  Alike(q \o s, r \o t)
<1>1. ASSUME NEW g \in Looks PROVE SameOrder(FlatMap(q \o s, g), FlatMap(r \o t, g))
  <2>1. SameOrder(FlatMap(q, g), FlatMap(r, g)) /\ SameOrder(FlatMap(s, g), FlatMap(t, g))
    BY DEF Alike
  <2>0. \A a, b \in Seq(CollectedField) :
          /\ FlatMap(a, g) \in Seq(Seen) /\ FlatMap(b, g) \in Seq(Seen)
          /\ FlatMap(a \o b, g) = FlatMap(a, g) \o FlatMap(b, g)
    BY ZenonT(30), LooksConcat
  <2>2. /\ FlatMap(q, g) \in Seq(Seen) /\ FlatMap(s, g) \in Seq(Seen)
        /\ FlatMap(q \o s, g) = FlatMap(q, g) \o FlatMap(s, g)
    BY <2>0, Zenon
  <2>3. /\ FlatMap(r, g) \in Seq(Seen) /\ FlatMap(t, g) \in Seq(Seen)
        /\ FlatMap(r \o t, g) = FlatMap(r, g) \o FlatMap(t, g)
    BY <2>0, Zenon
  <2>4. SameOrder(FlatMap(q, g) \o FlatMap(s, g), FlatMap(r, g) \o FlatMap(t, g))
    BY <2>1, <2>2, <2>3, SameOrderConcat
  <2>5. QED BY <2>2, <2>3, <2>4
<1>2. QED BY <1>1 DEF Alike

LEMMA AlikeCovers ==
  ASSUME NEW q \in Seq(CollectedField), NEW r \in Seq(CollectedField), Covers(q, r)
  PROVE  Alike(q \o r, q)
<1>1. ASSUME NEW g \in Looks PROVE SameOrder(FlatMap(q \o r, g), FlatMap(q, g))
  <2>1. /\ FlatMap(q, g) \in Seq(Seen) /\ FlatMap(r, g) \in Seq(Seen)
        /\ FlatMap(q \o r, g) = FlatMap(q, g) \o FlatMap(r, g)
    BY LooksConcat
  <2>2. Range(FlatMap(r, g)) \subseteq Range(FlatMap(q, g))
    BY DEF Covers
  <2>3. SameOrder(FlatMap(q, g) \o FlatMap(r, g), FlatMap(q, g))
    BY <2>1, <2>2, SameOrderCovers
  <2>4. QED BY <2>1, <2>3
<1>2. QED BY <1>1 DEF Alike

LEMMA CoversMore ==
  ASSUME NEW q \in Seq(CollectedField), NEW r \in Seq(CollectedField), NEW b, Covers(q, b)
  PROVE  Covers(q \o r, b)
<1>1. ASSUME NEW g \in Looks
      PROVE  Range(FlatMap(b, g)) \subseteq Range(FlatMap(q \o r, g))
  <2>1. Range(FlatMap(b, g)) \subseteq Range(FlatMap(q, g))
    BY DEF Covers
  <2>2. Range(FlatMap(q \o r, g)) = Range(FlatMap(q, g)) \cup Range(FlatMap(r, g))
    BY LooksConcat
  <2>3. QED BY <2>1, <2>2
<1>2. QED BY <1>1 DEF Covers

LEMMA CoversPart ==
  ASSUME NEW q \in Seq(CollectedField), NEW r \in Seq(CollectedField), NEW s, Alike(s, q \o r)
  PROVE  Covers(s, r)
<1>1. ASSUME NEW g \in Looks
      PROVE  Range(FlatMap(r, g)) \subseteq Range(FlatMap(s, g))
  <2>1. Range(FlatMap(s, g)) = Range(FlatMap(q \o r, g))
    BY DEF Alike, SameOrder
  <2>2. Range(FlatMap(q \o r, g)) = Range(FlatMap(q, g)) \cup Range(FlatMap(r, g))
    BY LooksConcat
  <2>3. QED BY <2>1, <2>2
<1>2. QED BY <1>1 DEF Covers

---------------------------------------------------------------------------
(* getOrCreateAndAppendField *)

\* Every field is there once.
Distinct(fields) == \A i, j \in DOMAIN fields : Same(fields[i], fields[j]) => i = j

\* What is appended is either all there is, or put behind the same.
Brings(new, more) == more \in Seq(Selections) /\ new.selections \in {<<>>, more}

\* The field with the selections.
With(new, more) == [new EXCEPT !.selections = more]

LEMMA WithIs ==
  ASSUME NEW new \in CollectedField, NEW more \in Seq(Selections)
  PROVE  /\ With(new, more) \in CollectedField
         /\ With(new, more).selections = more
         /\ With(new, more).key = new.key /\ With(new, more).on = new.on
         /\ new.selections \in Seq(Selections)
BY DEF With, CollectedField

LEMMA BelowIs ==
  ASSUME NEW e \in CollectedField, NEW f \in CollectedField
  PROVE  BelowOf(f)[e] = IF Same(e, f) THEN e.selections ELSE <<>>
BY DEF BelowOf

LEMMA IdIs ==
  ASSUME NEW e \in CollectedField
  PROVE  IdOf[e] = <<<<e.key, e.on>>>>
BY DEF IdOf

LEMMA FieldsAre ==
  ASSUME NEW fields \in Seq(CollectedField)
  PROVE  /\ DOMAIN fields = 1..Len(fields) /\ Len(fields) \in Nat
         /\ \A i \in DOMAIN fields : fields[i] \in CollectedField
OBVIOUS

\* A list where all are distinct has below a field what the one has that is the same.
LEMMA BelowDistinct ==
  ASSUME NEW fields \in Seq(CollectedField), Distinct(fields), NEW f \in CollectedField,
         NEW i \in DOMAIN fields, Same(fields[i], f)
  PROVE  FlatMap(fields, BelowOf(f)) = fields[i].selections
<1>1. Gives(BelowOf(f), CollectedField, Seen)
  <2>1. BelowOf(f) \in Looks
    BY DEF Looks
  <2>2. QED BY <2>1, LooksGive
<1>2. ASSUME NEW n \in DOMAIN fields, n # i PROVE BelowOf(f)[fields[n]] = <<>>
  <2>1. ~Same(fields[n], fields[i])
    BY <1>2 DEF Distinct
  <2>2. ~Same(fields[n], f)
    BY <2>1 DEF Same
  <2>3. fields[n] \in CollectedField
    BY FieldsAre
  <2>4. QED BY <2>2, <2>3, BelowIs
<1>3. FlatMap(fields, BelowOf(f)) = BelowOf(f)[fields[i]]
  BY <1>1, <1>2, FlatMapOne
<1>4. fields[i] \in CollectedField
  BY FieldsAre
<1>5. QED BY <1>3, <1>4, BelowIs

\* What GetOrAppend does to a field that is there.
Changed(fields, i, e) == [fields EXCEPT ![i] = e]

LEMMA ChangedIs ==
  ASSUME NEW fields \in Seq(CollectedField), NEW i \in DOMAIN fields, NEW e \in CollectedField
  PROVE  /\ Changed(fields, i, e) \in Seq(CollectedField)
         /\ DOMAIN Changed(fields, i, e) = DOMAIN fields
         /\ Changed(fields, i, e)[i] = e
         /\ \A n \in DOMAIN fields : n # i => Changed(fields, i, e)[n] = fields[n]
BY DEF Changed

LEMMA AppendsToIt ==
  ASSUME NEW fields \in Seq(CollectedField), Distinct(fields), NEW new \in CollectedField,
         NEW more, Brings(new, more), NEW i \in DOMAIN fields, Same(fields[i], new),
         NEW after, after = Changed(fields, i, With(fields[i], fields[i].selections \o more))
  PROVE  /\ after \in Seq(CollectedField) /\ Distinct(after)
         /\ Alike(after, fields \o <<With(new, more)>>)
<1> DEFINE longer == fields[i].selections \o more
           it == With(fields[i], longer)
           whole == With(new, more)
<1>1. /\ fields[i] \in CollectedField /\ \A n \in DOMAIN fields : fields[n] \in CollectedField
  BY FieldsAre
<1>2. more \in Seq(Selections) /\ fields[i].selections \in Seq(Selections)
  BY <1>1, WithIs DEF Brings
<1>3. longer \in Seq(Selections)
  BY <1>2
<1>4. /\ it \in CollectedField /\ it.selections = longer
      /\ it.key = fields[i].key /\ it.on = fields[i].on
  BY <1>1, <1>3, WithIs
<1>5. /\ whole \in CollectedField /\ whole.selections = more
      /\ whole.key = new.key /\ whole.on = new.on
  BY <1>2, WithIs
<1>6. after = Changed(fields, i, it)
  OBVIOUS
<1> HIDE DEF it
<1>7. /\ after \in Seq(CollectedField) /\ DOMAIN after = DOMAIN fields
      /\ after[i] = it /\ \A n \in DOMAIN fields : n # i => after[n] = fields[n]
  BY <1>4, <1>6, ChangedIs
<1>8. \A n \in DOMAIN fields : after[n].key = fields[n].key /\ after[n].on = fields[n].on
  BY <1>4, <1>7
<1>9. Distinct(after)
  BY <1>7, <1>8 DEF Distinct, Same
<1>10. \A n \in DOMAIN fields : after[n] \in CollectedField
  BY <1>1, <1>4, <1>7
<1> HIDE DEF longer, whole
<1>11. <<whole>> \in Seq(CollectedField)
  BY <1>5
<1>12. SameOrder(FlatMap(after, IdOf), FlatMap(fields \o <<whole>>, IdOf))
  <2>1. IdOf \in Looks /\ Gives(IdOf, CollectedField, Seen)
    BY LooksGive DEF Looks
  <2>2. \A n \in DOMAIN fields : IdOf[after[n]] = IdOf[fields[n]]
    <3>1. ASSUME NEW n \in DOMAIN fields PROVE IdOf[after[n]] = IdOf[fields[n]]
      <4>1. fields[n] \in CollectedField /\ after[n] \in CollectedField
        BY <1>1, <1>10
      <4>2. IdOf[after[n]] = <<<<after[n].key, after[n].on>>>>
        BY <4>1, IdIs
      <4>3. IdOf[fields[n]] = <<<<fields[n].key, fields[n].on>>>>
        BY <4>1, IdIs
      <4>4. QED BY <1>8, <4>2, <4>3
    <3>2. QED BY <3>1
  <2>3. FlatMap(after, IdOf) = FlatMap(fields, IdOf)
    BY <1>7, <2>2, FlatMapSame
  <2>4. /\ FlatMap(fields, IdOf) \in Seq(Seen) /\ FlatMap(<<whole>>, IdOf) \in Seq(Seen)
        /\ FlatMap(fields \o <<whole>>, IdOf) = FlatMap(fields, IdOf) \o FlatMap(<<whole>>, IdOf)
    BY <1>11, <2>1, LooksConcat
  <2>5. FlatMap(<<whole>>, IdOf) = IdOf[whole]
    BY <1>5, <2>1, FlatMapSingle
  <2>6. IdOf[whole] = IdOf[fields[i]]
    BY <1>1, <1>5, IdIs DEF Same
  <2>7. Range(IdOf[fields[i]]) \subseteq Range(FlatMap(fields, IdOf))
    <3>1. Range(FlatMap(fields, IdOf)) = Ranges(fields, IdOf)
      BY <2>1, RangeFlatMap
    <3>2. fields[i] \in Range(fields)
      BY DEF Range
    <3>3. QED BY <3>1, <3>2 DEF Ranges
  <2>8. SameOrder(FlatMap(fields, IdOf) \o FlatMap(<<whole>>, IdOf), FlatMap(fields, IdOf))
    BY <2>4, <2>5, <2>6, <2>7, SameOrderCovers
  <2>9. QED BY <2>3, <2>4, <2>8 DEF SameOrder
<1>13. ASSUME NEW f \in CollectedField
       PROVE  FlatMap(after, BelowOf(f)) = FlatMap(fields \o <<whole>>, BelowOf(f))
  <2>1. BelowOf(f) \in Looks /\ Gives(BelowOf(f), CollectedField, Seen)
    BY LooksGive DEF Looks
  <2>2. /\ FlatMap(fields, BelowOf(f)) \in Seq(Seen)
        /\ FlatMap(fields \o <<whole>>, BelowOf(f))
             = FlatMap(fields, BelowOf(f)) \o FlatMap(<<whole>>, BelowOf(f))
    BY <1>11, <2>1, LooksConcat
  <2>3. FlatMap(<<whole>>, BelowOf(f)) = BelowOf(f)[whole]
    BY <1>5, <2>1, FlatMapSingle
  <2>4. CASE Same(fields[i], f)
    <3>1. Same(after[i], f) /\ Same(whole, f)
      BY <1>5, <1>8, <2>4 DEF Same
    <3>2. FlatMap(after, BelowOf(f)) = longer
      BY <1>4, <1>7, <1>9, <3>1, BelowDistinct
    <3>3. FlatMap(fields, BelowOf(f)) = fields[i].selections
      BY <2>4, BelowDistinct
    <3>4. BelowOf(f)[whole] = more
      BY <1>5, <3>1, BelowIs
    <3>5. QED BY <2>2, <2>3, <3>2, <3>3, <3>4 DEF longer
  <2>5. CASE ~Same(fields[i], f)
    <3>1. ~Same(after[i], f) /\ ~Same(whole, f)
      BY <1>5, <1>8, <2>5 DEF Same
    <3>2. BelowOf(f)[whole] = <<>>
      BY <1>5, <3>1, BelowIs
    <3>3. \A n \in DOMAIN fields : BelowOf(f)[after[n]] = BelowOf(f)[fields[n]]
      <4>1. BelowOf(f)[after[i]] = <<>> /\ BelowOf(f)[fields[i]] = <<>>
        BY <1>1, <1>10, <2>5, <3>1, BelowIs
      <4>2. QED BY <1>7, <4>1
    <3>4. FlatMap(after, BelowOf(f)) = FlatMap(fields, BelowOf(f))
      BY <1>7, <3>3, FlatMapSame
    <3>5. FlatMap(fields, BelowOf(f)) \o <<>> = FlatMap(fields, BelowOf(f))
      BY <2>2, ConcatEmpty
    <3>6. QED BY <2>2, <2>3, <3>2, <3>4, <3>5
  <2>6. QED BY <2>4, <2>5
<1>14. Alike(after, fields \o <<whole>>)
  BY <1>12, <1>13 DEF Alike, Looks, SameOrder
<1>15. QED BY <1>7, <1>9, <1>14 DEF whole

LEMMA AppendsIt ==
  ASSUME NEW fields \in Seq(CollectedField), Distinct(fields), NEW new \in CollectedField,
         NEW more, Brings(new, more), \A i \in DOMAIN fields : ~Same(fields[i], new),
         NEW after, after = Append(fields, With(new, new.selections \o more))
  PROVE  /\ after \in Seq(CollectedField) /\ Distinct(after)
         /\ Alike(after, fields \o <<With(new, more)>>)
<1> DEFINE longer == new.selections \o more
           it == With(new, longer)
           whole == With(new, more)
<1>1. more \in Seq(Selections) /\ new.selections \in Seq(Selections)
  BY WithIs DEF Brings
<1>2. longer \in Seq(Selections)
  BY <1>1
<1>3. /\ it \in CollectedField /\ it.selections = longer
      /\ it.key = new.key /\ it.on = new.on
  BY <1>2, WithIs
<1>4. /\ whole \in CollectedField /\ whole.selections = more
      /\ whole.key = new.key /\ whole.on = new.on
  BY <1>1, WithIs
<1>5. SameOrder(longer, more)
  <2>1. CASE new.selections = <<>>
    <3>1. longer = more
      BY <1>1, <2>1, ConcatEmpty
    <3>2. QED BY <3>1 DEF SameOrder
  <2>2. CASE new.selections = more
    <3>1. SameOrder(more \o more, more)
      BY <1>1, SameOrderCovers
    <3>2. QED BY <2>2, <3>1
  <2>3. QED BY <2>1, <2>2 DEF Brings
<1>6. after = Append(fields, it)
  OBVIOUS
<1> HIDE DEF longer, it, whole
<1>7. /\ after \in Seq(CollectedField) /\ after = fields \o <<it>>
      /\ Len(fields) \in Nat /\ DOMAIN fields = 1..Len(fields)
      /\ DOMAIN after = 1..Len(fields) + 1 /\ after[Len(fields) + 1] = it
      /\ \A i \in 1..Len(fields) : after[i] = fields[i]
  BY <1>3, <1>6, AppendIs
<1>8. Distinct(after)
  <2>1. ASSUME NEW i \in DOMAIN after, NEW j \in DOMAIN after, Same(after[i], after[j])
        PROVE  i = j
    <3>1. \A n \in DOMAIN after : n = Len(fields) + 1 \/ n \in DOMAIN fields
      BY <1>7
    <3>2. \A n \in DOMAIN fields : ~Same(after[n], it) /\ ~Same(it, after[n])
      BY <1>3, <1>7 DEF Same
    <3>3. CASE i \in DOMAIN fields /\ j \in DOMAIN fields
      BY <1>7, <2>1, <3>3 DEF Distinct
    <3>4. QED BY <1>7, <2>1, <3>1, <3>2, <3>3
  <2>2. QED BY <2>1 DEF Distinct
<1>9. <<whole>> \in Seq(CollectedField) /\ <<it>> \in Seq(CollectedField)
  BY <1>3, <1>4
<1>10. ASSUME NEW g \in Looks PROVE SameOrder(FlatMap(<<it>>, g), FlatMap(<<whole>>, g))
  <2>1. Gives(g, CollectedField, Seen)
    BY LooksGive
  <2>2. FlatMap(<<it>>, g) = g[it] /\ FlatMap(<<whole>>, g) = g[whole]
    BY <1>3, <1>4, <2>1, FlatMapSingle
  <2>3. CASE g = IdOf
    <3>1. g[it] = g[whole]
      BY <1>3, <1>4, <2>3, IdIs
    <3>2. QED BY <2>2, <3>1 DEF SameOrder
  <2>4. ASSUME NEW f \in CollectedField, g = BelowOf(f)
        PROVE  SameOrder(g[it], g[whole])
    <3>1. Same(it, f) <=> Same(whole, f)
      BY <1>3, <1>4 DEF Same
    <3>2. CASE Same(it, f)
      <4>1. g[it] = longer /\ g[whole] = more
        BY <1>3, <1>4, <2>4, <3>1, <3>2, BelowIs
      <4>2. QED BY <1>5, <4>1
    <3>3. CASE ~Same(it, f)
      <4>1. g[it] = <<>> /\ g[whole] = <<>>
        BY <1>3, <1>4, <2>4, <3>1, <3>3, BelowIs
      <4>2. QED BY <4>1 DEF SameOrder
    <3>4. QED BY <3>2, <3>3
  <2>5. QED BY <2>2, <2>3, <2>4 DEF Looks
<1>11. Alike(<<it>>, <<whole>>)
  BY <1>10 DEF Alike
<1>12. Alike(fields, fields)
  BY AlikeSame
<1>13. Alike(fields \o <<it>>, fields \o <<whole>>)
  BY <1>9, <1>11, <1>12, AlikeConcat
<1>14. QED BY <1>7, <1>8, <1>13 DEF whole

\* after has what fields have and what more is, each once.
Adds(after, fields, more) ==
    /\ after \in Seq(CollectedField) /\ Distinct(after)
    /\ Alike(after, fields \o more)

LEMMA GetOrAppendAdds ==
  ASSUME NEW fields \in Seq(CollectedField), Distinct(fields), NEW new \in CollectedField,
         NEW more, Brings(new, more)
  PROVE  Adds(GetOrAppend(fields, new, more), fields, <<With(new, more)>>)
<1> DEFINE after == GetOrAppend(fields, new, more)
<1>1. CASE \E i \in DOMAIN fields : Same(fields[i], new)
  <2> DEFINE i == CHOOSE i \in DOMAIN fields : Same(fields[i], new)
  <2>1. i \in DOMAIN fields /\ Same(fields[i], new)
    BY <1>1
  <2>2. after = Changed(fields, i, With(fields[i], fields[i].selections \o more))
    BY <1>1 DEF GetOrAppend, Changed, With
  <2> HIDE DEF i, after
  <2>3. QED BY <2>1, <2>2, AppendsToIt DEF Adds, after
<1>2. CASE ~ \E i \in DOMAIN fields : Same(fields[i], new)
  <2>1. after = Append(fields, With(new, new.selections \o more))
    BY <1>2 DEF GetOrAppend, With
  <2>2. \A i \in DOMAIN fields : ~Same(fields[i], new)
    BY <1>2
  <2> HIDE DEF after
  <2>3. QED BY <2>1, <2>2, AppendsIt DEF Adds, after
<1>3. QED BY <1>1, <1>2

LEMMA AddsThen ==
  ASSUME NEW a \in Seq(CollectedField), NEW x \in Seq(CollectedField),
         NEW y \in Seq(CollectedField), NEW b, NEW c, Adds(b, a, x), Adds(c, b, y)
  PROVE  Adds(c, a, x \o y)
<1>1. /\ b \in Seq(CollectedField) /\ Alike(b, a \o x)
      /\ c \in Seq(CollectedField) /\ Distinct(c) /\ Alike(c, b \o y)
  BY DEF Adds
<1>2. a \o x \in Seq(CollectedField)
  OBVIOUS
<1>3. Alike(b \o y, (a \o x) \o y)
  BY <1>1, <1>2, AlikeSame, AlikeConcat
<1>4. Alike(c, (a \o x) \o y)
  BY <1>1, <1>3, AlikeChains
<1>5. (a \o x) \o y = a \o (x \o y)
  <2> DEFINE V == Seq(CollectedField)
  <2>1. a \in V /\ x \in V /\ y \in V
    OBVIOUS
  <2>2. QED BY ONLY SMTT(20), <2>1
<1>6. QED BY <1>1, <1>4, <1>5 DEF Adds

LEMMA AddsNothing ==
  ASSUME NEW a \in Seq(CollectedField), Distinct(a)
  PROVE  Adds(a, a, <<>>)
<1>1. a \o <<>> = a
  BY ConcatEmpty
<1>2. QED BY <1>1, AlikeSame DEF Adds

LEMMA GetOrAppendType ==
  ASSUME NEW fields \in Seq(CollectedField), NEW new \in CollectedField,
         NEW more \in Seq(Selections)
  PROVE  GetOrAppend(fields, new, more) \in Seq(CollectedField)
<1>1. CASE \E i \in DOMAIN fields : Same(fields[i], new)
  <2> DEFINE i == CHOOSE i \in DOMAIN fields : Same(fields[i], new)
             longer == fields[i].selections \o more
  <2>1. i \in DOMAIN fields
    BY <1>1
  <2>2. GetOrAppend(fields, new, more) = Changed(fields, i, With(fields[i], longer))
    BY <1>1 DEF GetOrAppend, Changed, With
  <2> HIDE DEF i
  <2>3. fields[i] \in CollectedField
    BY <2>1, FieldsAre
  <2>4. fields[i].selections \in Seq(Selections)
    BY <2>3 DEF CollectedField
  <2>5. longer \in Seq(Selections)
    BY <2>4
  <2> HIDE DEF longer
  <2>6. With(fields[i], longer) \in CollectedField
    BY <2>3, <2>5, WithIs
  <2>7. QED BY <2>1, <2>2, <2>6, ChangedIs
<1>2. CASE ~ \E i \in DOMAIN fields : Same(fields[i], new)
  <2> DEFINE longer == new.selections \o more
  <2>1. GetOrAppend(fields, new, more) = Append(fields, With(new, longer))
    BY <1>2 DEF GetOrAppend, With
  <2>2. new.selections \in Seq(Selections)
    BY DEF CollectedField
  <2>3. longer \in Seq(Selections)
    BY <2>2
  <2> HIDE DEF longer
  <2>4. With(new, longer) \in CollectedField
    BY <2>3, WithIs
  <2>5. QED BY <2>1, <2>4, AppendIs
<1>3. QED BY <1>1, <1>2

\* join leads to what Join makes of fields.
Joins(join, fields, children) ==
    /\ join[0] = fields
    /\ \A n \in 0..Len(children) : n # Len(children) =>
         join[n + 1] = GetOrAppend(join[n], children[n + 1], children[n + 1].selections)
    /\ Join(fields, children) = join[Len(children)]

LEMMA JoinExists ==
  ASSUME NEW fields \in Seq(CollectedField), NEW children \in Seq(CollectedField)
  PROVE  (\E join : Joins(join, fields, children)) /\ Join(fields, children) \in Seq(CollectedField)
<1> DEFINE V == Seq(CollectedField)
           m == Len(children)
           next(f, n) == GetOrAppend(f, children[n], children[n].selections)
           step == [n \in 1..m |-> [f \in V |-> next(f, n)]]
           Solved(join) == join = [n \in 0..m |-> IF n = 0 THEN fields ELSE next(join[n - 1], n)]
<1>1. m \in Nat /\ \A n \in 1..m : children[n] \in CollectedField
  OBVIOUS
<1>2. step \in [1..m -> [V -> V]]
  <2>1. ASSUME NEW n \in 1..m, NEW f \in V PROVE next(f, n) \in V
    <3>1. children[n] \in CollectedField
      BY <1>1
    <3>2. children[n].selections \in Seq(Selections)
      BY <3>1 DEF CollectedField
    <3>3. QED BY <3>1, <3>2, GetOrAppendType
  <2> HIDE DEF V, m, next
  <2>2. QED BY <2>1
<1>3. fields \in V
  OBVIOUS
<1>4. PICK f : Loops(f, m, fields, step, V)
  <2> HIDE DEF V, m, step
  <2>1. Steps(step, m, V)
    BY <1>2 DEF Steps
  <2>2. QED BY <1>1, <1>3, <2>1, LoopExists
<1>5. Solved(f)
  <2>1. ASSUME NEW n \in 0..m
        PROVE  f[n] = IF n = 0 THEN fields ELSE next(f[n - 1], n)
    <3>1. CASE n = 0
      BY <1>4, <3>1 DEF Loops
    <3>2. CASE n # 0
      <4>1. n \in 1..m /\ n - 1 \in 0..m
        BY <1>1, <3>2
      <4>2. f[n - 1] \in V /\ f[n] = step[n][f[n - 1]]
        BY <1>4, <3>2, <4>1 DEF Loops
      <4> HIDE DEF V, next
      <4>3. step[n][f[n - 1]] = next(f[n - 1], n)
        BY <4>1, <4>2
      <4>4. QED BY <3>2, <4>2, <4>3
    <3>3. QED BY <3>1, <3>2
  <2>2. f = [n \in 0..m |-> f[n]]
    BY <1>4 DEF Loops
  <2> HIDE DEF next
  <2>3. QED BY <2>1, <2>2
<1> DEFINE join == CHOOSE j : Solved(j)
<1>6. Solved(join)
  <2> HIDE DEF Solved
  <2>1. QED BY <1>5
<1>7. Join(fields, children) = join[m]
  BY DEF Join
<1> HIDE DEF join
<1>8. \A n \in 0..m : join[n] = IF n = 0 THEN fields ELSE next(join[n - 1], n)
  <2> HIDE DEF next
  <2>1. join = [n \in 0..m |-> IF n = 0 THEN fields ELSE next(join[n - 1], n)]
    BY <1>6
  <2>2. QED BY <2>1
<1>9. join[0] = fields
  BY <1>1, <1>8
<1>10. ASSUME NEW n \in 0..m, n # m PROVE join[n + 1] = next(join[n], n + 1)
  <2>1. n + 1 \in 0..m /\ n + 1 # 0 /\ (n + 1) - 1 = n
    BY <1>1, <1>10
  <2> HIDE DEF next
  <2>2. QED BY <1>8, <2>1
<1>11. join[m] \in V
  <2> DEFINE P == {n \in 0..m : join[n] \in V}
  <2>1. 0 \in P
    BY <1>1, <1>9
  <2>2. ASSUME NEW n \in 0..m, n \in P, n # m PROVE n + 1 \in P
    <3>1. n + 1 \in 0..m /\ n + 1 \in 1..m /\ join[n] \in V
      BY <1>1, <2>2
    <3>2. children[n + 1] \in CollectedField
      BY <1>1, <3>1
    <3>3. children[n + 1].selections \in Seq(Selections)
      BY <3>2 DEF CollectedField
    <3>4. next(join[n], n + 1) \in V
      BY <3>1, <3>2, <3>3, GetOrAppendType
    <3> HIDE DEF V, next, m
    <3>5. QED BY <1>10, <2>2, <3>1, <3>4
  <2> HIDE DEF P, m
  <2>3. m \in P
    <3>1. \A n \in 0..m : n \in P
      BY <1>1, <2>1, <2>2, UpToLast
    <3>2. QED BY <1>1, <3>1
  <2>4. QED BY <2>3 DEF P
<1>12. Joins(join, fields, children)
  BY <1>7, <1>9, <1>10 DEF Joins
<1>13. QED BY <1>7, <1>11, <1>12

LEMMA JoinAdds ==
  ASSUME NEW fields \in Seq(CollectedField), Distinct(fields),
         NEW children \in Seq(CollectedField)
  PROVE  Adds(Join(fields, children), fields, children)
<1> DEFINE m == Len(children)
<1>0. PICK join : Joins(join, fields, children)
  BY JoinExists
<1>1. /\ join[0] = fields
      /\ \A n \in 0..m : n # m =>
           join[n + 1] = GetOrAppend(join[n], children[n + 1], children[n + 1].selections)
      /\ Join(fields, children) = join[m]
  BY <1>0 DEF Joins
<1>2. /\ Prefix(children, 0) = <<>> /\ Prefix(children, m) = children
      /\ \A n \in 0..m : Prefix(children, n) \in Seq(CollectedField)
      /\ \A n \in 0..m : n # m =>
           /\ children[n + 1] \in CollectedField
           /\ Prefix(children, n + 1) = Append(Prefix(children, n), children[n + 1])
  BY PrefixIs
<1> DEFINE P == {n \in 0..m : Adds(join[n], fields, Prefix(children, n))}
<1>3. m \in Nat
  OBVIOUS
<1> HIDE DEF m
<1>4. 0 \in P
  BY <1>1, <1>2, <1>3, AddsNothing
<1>5. ASSUME NEW n \in 0..m, n \in P, n # m PROVE n + 1 \in P
  <2> DEFINE child == children[n + 1]
             front == Prefix(children, n)
  <2>1. /\ Adds(join[n], fields, front) /\ front \in Seq(CollectedField)
        /\ child \in CollectedField /\ Prefix(children, n + 1) = Append(front, child)
        /\ join[n + 1] = GetOrAppend(join[n], child, child.selections)
    BY <1>1, <1>2, <1>5
  <2>2. With(child, child.selections) = child /\ Brings(child, child.selections)
    BY <2>1 DEF With, Brings, CollectedField
  <2> HIDE DEF P, child, front
  <2>3. join[n] \in Seq(CollectedField) /\ Distinct(join[n])
    BY <2>1 DEF Adds
  <2>4. Adds(join[n + 1], join[n], <<With(child, child.selections)>>)
    BY <2>1, <2>2, <2>3, GetOrAppendAdds
  <2>5. Adds(join[n + 1], join[n], <<child>>)
    BY <2>2, <2>4
  <2>6. <<child>> \in Seq(CollectedField) /\ Append(front, child) = front \o <<child>>
    BY <2>1
  <2>7. Adds(join[n + 1], fields, front \o <<child>>)
    BY <2>1, <2>5, <2>6, AddsThen
  <2>8. n + 1 \in 0..m
    BY <1>3, <1>5
  <2>9. QED BY <2>1, <2>6, <2>7, <2>8 DEF P
<1>6. \A n \in 0..m : n \in P
  <2> HIDE DEF P
  <2>1. QED BY <1>3, <1>4, <1>5, UpToLast
<1>7. m \in P
  BY <1>3, <1>6
<1>8. QED BY <1>1, <1>2, <1>7

---------------------------------------------------------------------------
(* What Flat and Collect compute *)

LEMMA SubIs ==
  ASSUME NEW s \in Selections
  PROVE  /\ Body(s).sub \in Seq(Selections)
         /\ \A n \in DOMAIN Body(s).sub :
              Body(s).sub[n] \in Selections /\ Depth[Body(s).sub[n]] < Depth[s]
         /\ s.kind = "field" => Collected(s) \in CollectedField /\ s.sub \in Seq(Selections)
<1> DEFINE sub == Body(s).sub
           Deeper == {t \in Selections : Depth[t] < Depth[s]}
<1>1. sub \in Seq(Deeper)
  BY CollectionAssumption
<1> HIDE DEF sub
<1>2. \A n \in DOMAIN sub : sub[n] \in Deeper
  BY <1>1
<1>3. sub \in Seq(Selections)
  BY <1>1
<1>4. ASSUME s.kind = "field" PROVE Collected(s) \in CollectedField /\ s.sub \in Seq(Selections)
  <2>1. s \in Fields
    BY <1>4 DEF Fields
  <2>2. <<>> \in Seq(Selections)
    OBVIOUS
  <2>3. Collected(s) \in CollectedField
    BY <2>1, <2>2 DEF Collected, CollectedField
  <2>4. Body(s) = s
    BY <1>4 DEF Body
  <2>5. QED BY <1>3, <2>3, <2>4 DEF sub
<1>5. QED BY <1>2, <1>3, <1>4 DEF sub

\* What Flat has for a selection, by what it has for those below.
FlatOf(s, types, flat) ==
    IF ~s.include THEN <<>>
    ELSE IF s.kind = "field" THEN <<[Collected(s) EXCEPT !.selections = s.sub]>>
    ELSE IF Body(s).type \in types THEN FlatMap(Body(s).sub, flat) ELSE <<>>

\* flat is the function that Flat defines.
IsFlat(flat, types) ==
    /\ Gives(flat, Selections, CollectedField)
    /\ \A s \in Selections : flat[s] = FlatOf(s, types, flat)

LEMMA FlatOfType ==
  ASSUME NEW types, NEW s \in Selections, NEW f, Gives(f, Selections, CollectedField)
  PROVE  FlatOf(s, types, f) \in Seq(CollectedField)
<1>1. <<>> \in Seq(CollectedField)
  OBVIOUS
<1>2. ASSUME s.kind = "field"
      PROVE  <<[Collected(s) EXCEPT !.selections = s.sub]>> \in Seq(CollectedField)
  <2>1. With(Collected(s), s.sub) \in CollectedField
    BY <1>2, SubIs, WithIs
  <2>2. <<With(Collected(s), s.sub)>> \in Seq(CollectedField)
    BY <2>1
  <2>3. QED BY <2>2 DEF With
<1>3. FlatMap(Body(s).sub, f) \in Seq(CollectedField)
  BY SubIs, FlatMapType
<1>4. QED BY <1>1, <1>2, <1>3 DEF FlatOf

LEMMA FlatOfBelow ==
  ASSUME NEW types, NEW s \in Selections, NEW f, NEW g,
         \A t \in Selections : Depth[t] < Depth[s] => f[t] = g[t]
  PROVE  FlatOf(s, types, f) = FlatOf(s, types, g)
<1> DEFINE sub == Body(s).sub
<1>1. \A n \in DOMAIN sub : f[sub[n]] = g[sub[n]]
  BY SubIs
<1>2. [n \in DOMAIN sub |-> f[sub[n]]] = [n \in DOMAIN sub |-> g[sub[n]]]
  BY <1>1
<1>3. FlatMap(sub, f) = FlatMap(sub, g)
  BY <1>2 DEF FlatMap
<1>4. QED BY <1>3 DEF FlatOf

LEMMA FlatExists ==
  ASSUME NEW types
  PROVE  \E flat : IsFlat(flat, types) /\ \A set : Flat(set, types) = FlatMap(set, flat)
<1> DEFINE V == Seq(CollectedField)
           B == [s \in Selections |-> [f \in [Selections -> V] |-> FlatOf(s, types, f)]]
           Solved(f) == f = [s \in Selections |-> FlatOf(s, types, f)]
<1>1. B \in [Selections -> [[Selections -> V] -> V]]
  <2>1. ASSUME NEW s \in Selections, NEW f \in [Selections -> V]
        PROVE  FlatOf(s, types, f) \in V
    <3>1. Gives(f, Selections, CollectedField)
      BY DEF Gives
    <3>2. QED BY <3>1, FlatOfType
  <2> HIDE DEF V
  <2>2. QED BY <2>1
<1>2. Descends(B, Depth, Selections, V)
  <2>1. ASSUME NEW s \in Selections, NEW f \in [Selections -> V], NEW g \in [Selections -> V],
               \A t \in Selections : Depth[t] < Depth[s] => f[t] = g[t]
        PROVE  B[s][f] = B[s][g]
    <3>1. FlatOf(s, types, f) = FlatOf(s, types, g)
      BY <2>1, FlatOfBelow
    <3> HIDE DEF V
    <3>2. QED BY <3>1
  <2> HIDE DEF B, V
  <2>2. QED BY <2>1 DEF Descends
<1>3. <<>> \in V
  OBVIOUS
<1>4. Depth \in [Selections -> Nat]
  BY CollectionAssumption
<1>5. PICK f \in [Selections -> V] : \A s \in Selections : f[s] = B[s][f]
  <2> HIDE DEF B, V
  <2>1. Recurses(B, Depth, Selections, V)
    BY <1>1, <1>2, <1>3, <1>4 DEF Recurses
  <2>2. HasSolution(B, Selections, V)
    BY <2>1, RecursionExists
  <2>3. QED BY <2>2 DEF HasSolution
<1>6. Solved(f)
  <2> HIDE DEF V
  <2>1. \A s \in Selections : f[s] = FlatOf(s, types, f)
    BY <1>5
  <2>2. f = [s \in Selections |-> f[s]]
    BY <1>5
  <2>3. QED BY <2>1, <2>2
<1> DEFINE flat == CHOOSE g : Solved(g)
<1>7. Solved(flat)
  <2> HIDE DEF Solved
  <2>1. QED BY <1>6
<1>8. \A set : Flat(set, types) = FlatMap(set, flat)
  BY DEF Flat, FlatOf
<1> HIDE DEF flat
<1>9. DOMAIN flat = Selections /\ \A s \in Selections : flat[s] = FlatOf(s, types, flat)
  <2>1. flat = [s \in Selections |-> FlatOf(s, types, flat)]
    BY <1>7
  <2>2. QED BY <2>1
<1>10. flat = f
  <2>1. flat = [s \in Selections |-> flat[s]]
    <3>1. flat = [s \in Selections |-> FlatOf(s, types, flat)]
      BY <1>7
    <3>2. QED BY <1>9, <3>1
  <2>2. f = [s \in Selections |-> f[s]]
    BY <1>5
  <2>3. \A s \in Selections : f[s] = FlatOf(s, types, f)
    <3>1. f = [s \in Selections |-> FlatOf(s, types, f)]
      BY <1>6
    <3>2. QED BY <3>1
  <2>4. ASSUME NEW s \in Selections, \A t \in Selections : Depth[t] < Depth[s] => flat[t] = f[t]
        PROVE  flat[s] = f[s]
    <3>1. FlatOf(s, types, flat) = FlatOf(s, types, f)
      BY <2>4, FlatOfBelow
    <3>2. QED BY <1>9, <2>3, <3>1
  <2>5. Agree(flat, f, Depth, Selections)
    BY <2>1, <2>2, <2>4 DEF Agree
  <2>6. QED BY <1>4, <2>5, AllAgree
<1>11. Gives(flat, Selections, CollectedField)
  BY <1>5, <1>10 DEF Gives
<1>12. IsFlat(flat, types)
  BY <1>9, <1>11 DEF IsFlat
<1>13. QED BY <1>8, <1>12

\* What CollectInto starts from, and the steps it takes.
Start(visited) == [fields |-> <<>>, visited |-> visited]

StepsOf(set, collect) == [n \in DOMAIN set |-> collect[set[n]]]

\* collect has what every selection adds, whatever there is.
Collecting(collect) == collect \in [Selections -> [Collections -> Collections]]

\* loop leads to what CollectInto collects.
LoopsInto(loop, set, visited, collect) ==
    /\ Runs(loop, Len(set), Start(visited), StepsOf(set, collect), Collections)
    /\ CollectInto(set, visited, collect) = loop[Len(set)]

LEMMA StartIs ==
  ASSUME NEW visited, visited \subseteq DOMAIN Fragments
  PROVE  Start(visited) \in Collections
<1>1. <<>> \in Seq(CollectedField)
  OBVIOUS
<1>2. QED BY <1>1 DEF Start, Collections

LEMMA CollectIntoLoops ==
  ASSUME NEW set \in Seq(Selections), NEW visited, visited \subseteq DOMAIN Fragments,
         NEW collect, Collecting(collect)
  PROVE  /\ \E loop : LoopsInto(loop, set, visited, collect)
         /\ CollectInto(set, visited, collect) \in Collections
<1> DEFINE m == Len(set)
           steps == StepsOf(set, collect)
           V == Collections
           Solved(f) == f = [n \in 0..m |-> IF n = 0 THEN Start(visited) ELSE steps[n][f[n - 1]]]
<1>1. m \in Nat /\ DOMAIN set = 1..m /\ \A n \in 1..m : set[n] \in Selections
  OBVIOUS
<1>2. Steps(steps, m, V)
  <2>1. \A n \in 1..m : collect[set[n]] \in [V -> V]
    <3> HIDE DEF V, m
    <3>1. QED BY <1>1 DEF Collecting, V
  <2> HIDE DEF V, m
  <2>2. QED BY <1>1, <2>1 DEF Steps, StepsOf
<1>3. Start(visited) \in V
  BY StartIs
<1>4. PICK f : Loops(f, m, Start(visited), steps, V)
  <2> HIDE DEF m, steps, V
  <2>1. QED BY <1>1, <1>2, <1>3, LoopExists
<1>5. Solved(f)
  <2> HIDE DEF m, steps, V
  <2>1. f = [n \in 0..m |-> f[n]]
    BY <1>4 DEF Loops
  <2>2. \A n \in 0..m : f[n] = IF n = 0 THEN Start(visited) ELSE steps[n][f[n - 1]]
    BY <1>4 DEF Loops
  <2>3. QED BY <2>1, <2>2
<1> DEFINE loop == CHOOSE g : Solved(g)
<1>6. Solved(loop)
  <2> HIDE DEF Solved
  <2>1. QED BY <1>5
<1>7. CollectInto(set, visited, collect) = loop[m]
  BY DEF CollectInto, StepsOf, Start
<1> HIDE DEF loop, steps, m, V
<1>8. \A n \in 0..m : loop[n] = IF n = 0 THEN Start(visited) ELSE steps[n][loop[n - 1]]
  <2>1. loop = [n \in 0..m |-> IF n = 0 THEN Start(visited) ELSE steps[n][loop[n - 1]]]
    BY <1>6
  <2>2. QED BY <2>1
<1>9. Runs(loop, m, Start(visited), steps, V)
  BY <1>1, <1>2, <1>3, <1>8, LoopRuns DEF Steps
<1>10. m \in 0..m
  BY <1>1
<1>11. loop[m] \in V
  BY <1>9, <1>10 DEF Runs
<1>12. LoopsInto(loop, set, visited, collect)
  BY <1>7, <1>9 DEF LoopsInto, m, V, steps
<1>13. QED BY <1>7, <1>11, <1>12 DEF V

\* What Collect has for a selection, by what it has for those below.
CollectOf(s, c, types, collect) ==
    IF ~s.include \/ (s.kind = "spread" /\ s.name \in c.visited) THEN c
    ELSE IF s.kind = "field" THEN [c EXCEPT !.fields = GetOrAppend(@, Collected(s), s.sub)]
    ELSE IF Body(s).type \notin types THEN [c EXCEPT !.visited = Visit(s, @)]
    ELSE LET inner == CollectInto(Body(s).sub, Visit(s, c.visited), collect)
         IN  [fields |-> Join(c.fields, inner.fields), visited |-> inner.visited]

\* collect is the function that Collect defines.
IsCollect(collect, types) ==
    /\ Collecting(collect)
    /\ \A s \in Selections : \A c \in Collections :
         collect[s][c] = CollectOf(s, c, types, collect)

LEMMA CollectionsAre ==
  ASSUME NEW c \in Collections
  PROVE  /\ c.fields \in Seq(CollectedField) /\ c.visited \subseteq DOMAIN Fragments
         /\ c = [fields |-> c.fields, visited |-> c.visited]
BY DEF Collections

LEMMA VisitIs ==
  ASSUME NEW s \in Selections, NEW visited, visited \subseteq DOMAIN Fragments
  PROVE  Visit(s, visited) \subseteq DOMAIN Fragments
BY CollectionAssumption DEF Visit

LEMMA CollectOfType ==
  ASSUME NEW types, NEW s \in Selections, NEW c \in Collections,
         NEW collect, Collecting(collect)
  PROVE  CollectOf(s, c, types, collect) \in Collections
<1> DEFINE inner == CollectInto(Body(s).sub, Visit(s, c.visited), collect)
<1>1. c.fields \in Seq(CollectedField) /\ c.visited \subseteq DOMAIN Fragments
  BY CollectionsAre
<1>2. ASSUME s.kind = "field"
      PROVE  [c EXCEPT !.fields = GetOrAppend(@, Collected(s), s.sub)] \in Collections
  <2>1. GetOrAppend(c.fields, Collected(s), s.sub) \in Seq(CollectedField)
    BY <1>1, <1>2, SubIs, GetOrAppendType
  <2>2. QED BY <2>1 DEF Collections
<1>3. Visit(s, c.visited) \subseteq DOMAIN Fragments
  BY <1>1, VisitIs
<1>4. [c EXCEPT !.visited = Visit(s, @)] \in Collections
  BY <1>3 DEF Collections
<1>5. inner \in Collections
  BY <1>3, SubIs, CollectIntoLoops
<1> HIDE DEF inner
<1>6. [fields |-> Join(c.fields, inner.fields), visited |-> inner.visited] \in Collections
  <2>1. inner.fields \in Seq(CollectedField) /\ inner.visited \subseteq DOMAIN Fragments
    BY <1>5, CollectionsAre
  <2>2. Join(c.fields, inner.fields) \in Seq(CollectedField)
    BY <1>1, <2>1, JoinExists
  <2>3. QED BY <2>1, <2>2 DEF Collections
<1>7. QED BY <1>2, <1>4, <1>6 DEF CollectOf, inner

LEMMA CollectOfBelow ==
  ASSUME NEW types, NEW s \in Selections, NEW c, NEW f, NEW g,
         \A t \in Selections : Depth[t] < Depth[s] => f[t] = g[t]
  PROVE  CollectOf(s, c, types, f) = CollectOf(s, c, types, g)
<1> DEFINE sub == Body(s).sub
           vis == Visit(s, c.visited)
<1>1. \A n \in DOMAIN sub : f[sub[n]] = g[sub[n]]
  BY SubIs
<1>2. StepsOf(sub, f) = StepsOf(sub, g)
  BY <1>1 DEF StepsOf
<1>3. CollectInto(sub, vis, f) = CollectInto(sub, vis, g)
  <2> DEFINE after(steps) ==
               LET loop[n \in 0..Len(sub)] ==
                     IF n = 0 THEN [fields |-> <<>>, visited |-> vis] ELSE steps[n][loop[n - 1]]
               IN  loop[Len(sub)]
  <2>1. /\ CollectInto(sub, vis, f) = after(StepsOf(sub, f))
        /\ CollectInto(sub, vis, g) = after(StepsOf(sub, g))
    BY DEF CollectInto, StepsOf
  <2> HIDE DEF after
  <2>2. QED BY <1>2, <2>1
<1>4. QED BY <1>3 DEF CollectOf

LEMMA CollectIs ==
  ASSUME NEW types
  PROVE  IsCollect(Collect(types), types)
<1> DEFINE V == [Collections -> Collections]
           of(s, f) == [c \in Collections |-> CollectOf(s, c, types, f)]
           B == [s \in Selections |-> [f \in [Selections -> V] |-> of(s, f)]]
           Solved(f) == f = [s \in Selections |-> of(s, f)]
<1>1. B \in [Selections -> [[Selections -> V] -> V]]
  <2>1. ASSUME NEW s \in Selections, NEW f \in [Selections -> V]
        PROVE  of(s, f) \in V
    <3>1. Collecting(f)
      BY DEF Collecting
    <3>2. \A c \in Collections : CollectOf(s, c, types, f) \in Collections
      BY <3>1, CollectOfType
    <3>3. QED BY <3>2
  <2> HIDE DEF V, of
  <2>2. QED BY <2>1
<1>2. ASSUME NEW s \in Selections, NEW f, NEW g,
             \A t \in Selections : Depth[t] < Depth[s] => f[t] = g[t]
      PROVE  of(s, f) = of(s, g)
  <2>1. \A c \in Collections : CollectOf(s, c, types, f) = CollectOf(s, c, types, g)
    BY <1>2, CollectOfBelow
  <2>2. QED BY <2>1
<1> HIDE DEF of
<1>3. Descends(B, Depth, Selections, V)
  <2>1. ASSUME NEW s \in Selections, NEW f \in [Selections -> V], NEW g \in [Selections -> V],
               \A t \in Selections : Depth[t] < Depth[s] => f[t] = g[t]
        PROVE  B[s][f] = B[s][g]
    <3>1. of(s, f) = of(s, g)
      BY <1>2, <2>1
    <3> HIDE DEF V
    <3>2. QED BY <3>1
  <2> HIDE DEF B, V
  <2>2. QED BY <2>1 DEF Descends
<1>4. V # {}
  <2>1. [c \in Collections |-> c] \in V
    OBVIOUS
  <2>2. QED BY <2>1
<1>5. Depth \in [Selections -> Nat]
  BY CollectionAssumption
<1>6. PICK f \in [Selections -> V] : \A s \in Selections : f[s] = B[s][f]
  <2> HIDE DEF B, V
  <2>1. Recurses(B, Depth, Selections, V)
    BY <1>1, <1>3, <1>4, <1>5 DEF Recurses
  <2>2. HasSolution(B, Selections, V)
    BY <2>1, RecursionExists
  <2>3. QED BY <2>2 DEF HasSolution
<1>7. (\A s \in Selections : f[s] = of(s, f)) /\ f = [s \in Selections |-> f[s]]
  <2> HIDE DEF V
  <2>1. QED BY <1>6
<1>8. Solved(f)
  BY <1>7
<1> DEFINE collect == CHOOSE g : Solved(g)
<1>9. Solved(collect)
  <2> HIDE DEF Solved
  <2>1. QED BY <1>8
<1>10. Collect(types) = collect
  BY DEF Collect, CollectOf, of
<1> HIDE DEF collect
<1>11. /\ \A s \in Selections : collect[s] = of(s, collect)
       /\ collect = [s \in Selections |-> collect[s]]
  <2>1. collect = [s \in Selections |-> of(s, collect)]
    BY <1>9
  <2>2. QED BY <2>1
<1>12. collect = f
  <2>1. ASSUME NEW s \in Selections,
               \A t \in Selections : Depth[t] < Depth[s] => collect[t] = f[t]
        PROVE  collect[s] = f[s]
    <3>1. of(s, collect) = of(s, f)
      BY <1>2, <2>1
    <3>2. QED BY <1>7, <1>11, <3>1
  <2>2. Agree(collect, f, Depth, Selections)
    BY <1>7, <1>11, <2>1 DEF Agree
  <2>3. QED BY <1>5, <2>2, AllAgree
<1>13. Collecting(collect)
  BY <1>6, <1>12 DEF Collecting
<1>14. ASSUME NEW s \in Selections, NEW c \in Collections
       PROVE  collect[s][c] = CollectOf(s, c, types, collect)
  BY <1>11 DEF of
<1>15. QED BY <1>10, <1>13, <1>14 DEF IsCollect

---------------------------------------------------------------------------
(* Collecting a field once, a fragment once, and all that there is *)

\* There is a field yet to come of the fragment: it is being collected.
StillOpen(n, s) ==
    \E t \in Range(Fragments[n].sub) : t \in Selections /\ Depth[t] >= Depth[s]

\* A fragment has nothing that is not in fields.
Complete(n, fields, types, flat) ==
    Fragments[n].type \in types => Covers(fields, FlatMap(Fragments[n].sub, flat))

\* For the fragments that are visited, and not collected again, before selections.
Ready(fields, visited, some, types, flat) ==
    \A n \in visited :
        Complete(n, fields, types, flat) \/ \A s \in some : StillOpen(n, s)

\* Behind fields, more is as good as all, and completes what is visited meanwhile.
Fills(fields, from, to, more, all, types, flat) ==
    /\ Alike(fields \o more, fields \o all)
    /\ \A n \in to \ from : Complete(n, fields \o more, types, flat)

\* From c to d, more is added for all that there is of some selections.
Emits(c, d, more, all, some, types, flat) ==
    /\ more \in Seq(CollectedField)
    /\ d \in Collections /\ c.visited \subseteq d.visited
    /\ Adds(d.fields, c.fields, more)
    /\ \A fields \in Seq(CollectedField) :
         Ready(fields, c.visited, some, types, flat)
           => Fills(fields, c.visited, d.visited, more, all, types, flat)

LEMMA CompleteMore ==
  ASSUME NEW n, NEW types, NEW flat, NEW q \in Seq(CollectedField),
         NEW r \in Seq(CollectedField), Complete(n, q, types, flat)
  PROVE  Complete(n, q \o r, types, flat)
<1>1. ASSUME Fragments[n].type \in types
      PROVE  Covers(q \o r, FlatMap(Fragments[n].sub, flat))
  <2>1. Covers(q, FlatMap(Fragments[n].sub, flat))
    BY <1>1 DEF Complete
  <2>2. QED BY <2>1, CoversMore
<1>2. QED BY <1>1 DEF Complete

LEMMA EmitsNothing ==
  ASSUME NEW types, NEW flat, NEW c \in Collections, Distinct(c.fields), NEW some
  PROVE  Emits(c, c, <<>>, <<>>, some, types, flat)
<1>1. <<>> \in Seq(CollectedField) /\ c.fields \in Seq(CollectedField)
  BY CollectionsAre
<1>2. Adds(c.fields, c.fields, <<>>)
  BY <1>1, AddsNothing
<1>3. \A fields : Fills(fields, c.visited, c.visited, <<>>, <<>>, types, flat)
  BY AlikeSame DEF Fills
<1>4. QED BY <1>1, <1>2, <1>3 DEF Emits

LEMMA EmitsThen ==
  ASSUME NEW types, NEW flat, NEW a \in Collections, NEW b, NEW c, NEW some, NEW s \in some,
         NEW more, NEW all \in Seq(CollectedField), Emits(a, b, more, all, some, types, flat),
         NEW next, NEW rest \in Seq(CollectedField), Emits(b, c, next, rest, {s}, types, flat)
  PROVE  Emits(a, c, more \o next, all \o rest, some, types, flat)
<1>1. /\ more \in Seq(CollectedField) /\ a.visited \subseteq b.visited
      /\ Adds(b.fields, a.fields, more)
      /\ \A fields \in Seq(CollectedField) :
           Ready(fields, a.visited, some, types, flat)
             => Fills(fields, a.visited, b.visited, more, all, types, flat)
  BY DEF Emits
<1>2. /\ next \in Seq(CollectedField) /\ c \in Collections /\ b.visited \subseteq c.visited
      /\ Adds(c.fields, b.fields, next)
      /\ \A fields \in Seq(CollectedField) :
           Ready(fields, b.visited, {s}, types, flat)
             => Fills(fields, b.visited, c.visited, next, rest, types, flat)
  BY DEF Emits
<1>3. more \o next \in Seq(CollectedField)
  BY <1>1, <1>2
<1>4. Adds(c.fields, a.fields, more \o next)
  <2>1. a.fields \in Seq(CollectedField)
    BY CollectionsAre
  <2>2. QED BY <1>1, <1>2, <2>1, AddsThen
<1>5. ASSUME NEW fields \in Seq(CollectedField), Ready(fields, a.visited, some, types, flat)
      PROVE  Fills(fields, a.visited, c.visited, more \o next, all \o rest, types, flat)
  <2> DEFINE then == fields \o more
  <2>1. /\ Alike(then, fields \o all)
        /\ \A n \in b.visited \ a.visited : Complete(n, then, types, flat)
    BY <1>1, <1>5 DEF Fills
  <2>2. then \in Seq(CollectedField)
    BY <1>1
  <2>3. Ready(then, b.visited, {s}, types, flat)
    <3>1. ASSUME NEW n \in b.visited
          PROVE  Complete(n, then, types, flat) \/ StillOpen(n, s)
      <4>1. CASE n \in a.visited
        <5>1. Complete(n, fields, types, flat) \/ StillOpen(n, s)
          BY <1>5, <4>1 DEF Ready
        <5>2. Complete(n, fields, types, flat) => Complete(n, then, types, flat)
          BY <1>1, CompleteMore
        <5>3. QED BY <5>1, <5>2
      <4>2. CASE n \notin a.visited
        BY <2>1, <4>2
      <4>3. QED BY <4>1, <4>2
    <3> HIDE DEF then
    <3>2. QED BY <3>1 DEF Ready
  <2> HIDE DEF then
  <2>4. /\ Alike(then \o next, then \o rest)
        /\ \A n \in c.visited \ b.visited : Complete(n, then \o next, types, flat)
    BY <1>2, <2>2, <2>3 DEF Fills
  <2>5. then \o next = fields \o (more \o next)
    BY SMTT(20), <1>1, <1>2, ConcatConcat DEF then
  <2>6. fields \o all \in Seq(CollectedField) /\ (fields \o all) \o rest = fields \o (all \o rest)
    <3>1. /\ fields \in Seq(CollectedField) /\ all \in Seq(CollectedField)
          /\ rest \in Seq(CollectedField)
      OBVIOUS
    <3>2. QED BY ONLY <3>1
  <2>7. Alike(then \o rest, fields \o (all \o rest))
    <3>1. Alike(then \o rest, (fields \o all) \o rest)
      BY <2>1, <2>2, <2>6, AlikeSame, AlikeConcat
    <3>2. QED BY <2>6, <3>1
  <2>8. Alike(fields \o (more \o next), fields \o (all \o rest))
    <3>1. Alike(then \o next, fields \o (all \o rest))
      BY <2>4, <2>7, AlikeChains
    <3>2. QED BY <2>5, <3>1
  <2>9. ASSUME NEW n \in c.visited \ a.visited
        PROVE  Complete(n, fields \o (more \o next), types, flat)
    <3>1. Complete(n, then \o next, types, flat)
      <4>1. CASE n \in b.visited
        <5>1. Complete(n, then, types, flat)
          BY <2>1, <2>9, <4>1
        <5>2. QED BY <1>2, <2>2, <5>1, CompleteMore
      <4>2. CASE n \notin b.visited
        BY <2>4, <2>9, <4>2
      <4>3. QED BY <4>1, <4>2
    <3>2. QED BY <2>5, <3>1
  <2>10. QED BY <2>8, <2>9 DEF Fills
<1>6. a.visited \subseteq c.visited
  BY <1>1, <1>2
<1>7. QED BY <1>2, <1>3, <1>4, <1>5, <1>6 DEF Emits

\* Whatever there is, collect adds all that there is of s.
EmitsAll(s, collect, types, flat) ==
    \A c \in Collections :
        Distinct(c.fields)
          => \E more : Emits(c, collect[s][c], more, flat[s], {s}, types, flat)

LEMMA LoopEmits ==
  ASSUME NEW types, NEW flat, IsFlat(flat, types), NEW collect, IsCollect(collect, types),
         NEW set \in Seq(Selections), \A n \in DOMAIN set : EmitsAll(set[n], collect, types, flat),
         NEW visited, visited \subseteq DOMAIN Fragments
  PROVE  \E more :
           Emits(Start(visited), CollectInto(set, visited, collect), more,
                 FlatMap(set, flat), Range(set), types, flat)
<1> DEFINE m == Len(set)
           all(n) == FlatMap(Prefix(set, n), flat)
           begin == Start(visited)
           some == Range(set)
<1>1. Gives(flat, Selections, CollectedField) /\ Collecting(collect)
  BY DEF IsFlat, IsCollect
<1>2. PICK loop : LoopsInto(loop, set, visited, collect)
  BY <1>1, CollectIntoLoops
<1>3. /\ loop[0] = begin /\ CollectInto(set, visited, collect) = loop[m]
      /\ \A n \in 0..m : loop[n] \in Collections
      /\ \A n \in 0..m : n # m => loop[n + 1] = StepsOf(set, collect)[n + 1][loop[n]]
  BY <1>2 DEF LoopsInto, Runs
<1>4. /\ Prefix(set, 0) = <<>> /\ Prefix(set, m) = set
      /\ \A n \in 0..m : Prefix(set, n) \in Seq(Selections)
      /\ \A n \in 0..m : n # m =>
           /\ set[n + 1] \in Selections
           /\ Prefix(set, n + 1) = Append(Prefix(set, n), set[n + 1])
  BY PrefixIs
<1>5. m \in Nat /\ DOMAIN set = 1..m
  OBVIOUS
<1> DEFINE P == {n \in 0..m : \E more : Emits(begin, loop[n], more, all(n), some, types, flat)}
<1> HIDE DEF m, begin
<1>6. begin \in Collections /\ Distinct(begin.fields)
  <2>1. begin \in Collections
    BY StartIs DEF begin
  <2>2. begin.fields = <<>> /\ DOMAIN <<>> = {}
    BY DEF begin, Start
  <2>3. QED BY <2>1, <2>2 DEF Distinct
<1>7. 0 \in P
  <2>1. all(0) = <<>>
    BY <1>4, FlatMapEmpty
  <2>2. Emits(begin, begin, <<>>, <<>>, some, types, flat)
    BY <1>6, EmitsNothing
  <2> HIDE DEF all, some
  <2>3. Emits(begin, loop[0], <<>>, all(0), some, types, flat)
    BY <1>3, <2>1, <2>2
  <2>4. 0 \in 0..m
    BY <1>5
  <2>5. QED BY <2>3, <2>4
<1>8. ASSUME NEW n \in 0..m, n \in P, n # m PROVE n + 1 \in P
  <2> DEFINE s == set[n + 1]
  <2>1. n + 1 \in 0..m /\ n + 1 \in DOMAIN set
    BY <1>5, <1>8
  <2>2. s \in Selections /\ s \in some /\ EmitsAll(s, collect, types, flat)
    BY <1>4, <1>8, <2>1 DEF Range
  <2>3. all(n + 1) = all(n) \o flat[s]
    <3>1. Prefix(set, n) \in Seq(Selections) /\ Prefix(set, n + 1) = Append(Prefix(set, n), s)
      BY <1>4, <1>8
    <3> DEFINE front == Prefix(set, n)
    <3>2. front \in Seq(Selections)
      BY <3>1
    <3> HIDE DEF P, s, front
    <3>3. FlatMap(Append(front, s), flat) = FlatMap(front, flat) \o flat[s]
      BY <1>1, <2>2, <3>2, FlatMapAppend
    <3>4. QED BY <3>1, <3>3 DEF front
  <2>4. all(n) \in Seq(CollectedField) /\ flat[s] \in Seq(CollectedField)
    <3>1. Prefix(set, n) \in Seq(Selections)
      BY <1>4, <1>8
    <3>2. FlatMap(Prefix(set, n), flat) \in Seq(CollectedField)
      BY <1>1, <3>1, FlatMapType
    <3>3. QED BY <1>1, <2>2, <3>2 DEF Gives
  <2>5. loop[n + 1] = collect[s][loop[n]] /\ loop[n] \in Collections
    BY <1>3, <1>8, <2>1 DEF StepsOf
  <2> HIDE DEF all, some, s
  <2>6. PICK more : Emits(begin, loop[n], more, all(n), some, types, flat)
    BY <1>8
  <2> HIDE DEF P
  <2>7. Distinct(loop[n].fields)
    BY <2>6 DEF Emits, Adds
  <2>8. PICK next : Emits(loop[n], loop[n + 1], next, flat[s], {s}, types, flat)
    BY <2>2, <2>5, <2>7 DEF EmitsAll
  <2>9. Emits(begin, loop[n + 1], more \o next, all(n) \o flat[s], some, types, flat)
    BY <1>6, <2>2, <2>4, <2>6, <2>8, EmitsThen
  <2>10. QED BY <2>1, <2>3, <2>9 DEF P
<1>9. m \in P
  <2> HIDE DEF P
  <2>1. \A n \in 0..m : n \in P
    BY <1>5, <1>7, <1>8, UpToLast
  <2>2. QED BY <1>5, <2>1
<1>10. all(m) = FlatMap(set, flat)
  BY <1>4
<1> HIDE DEF all, some
<1>11. QED BY <1>3, <1>9, <1>10 DEF begin, some

\* A selection that is not collected, or is spread again.
LEMMA SkipEmits ==
  ASSUME NEW types, NEW flat, IsFlat(flat, types), NEW s \in Selections,
         NEW c \in Collections, Distinct(c.fields),
         ~s.include \/ (s.kind = "spread" /\ s.name \in c.visited)
  PROVE  Emits(c, c, <<>>, flat[s], {s}, types, flat)
<1>1. /\ <<>> \in Seq(CollectedField)
      /\ Adds(c.fields, c.fields, <<>>)
      /\ \A fields \in Seq(CollectedField) : fields \o <<>> = fields
  <2>1. c.fields \in Seq(CollectedField)
    BY CollectionsAre
  <2>2. QED BY <2>1, AddsNothing, ConcatEmpty
<1>2. flat[s] = FlatOf(s, types, flat) /\ Gives(flat, Selections, CollectedField)
  BY DEF IsFlat
<1>3. flat[s] \in Seq(CollectedField)
  BY <1>2, FlatOfType
<1>4. ASSUME NEW fields \in Seq(CollectedField), Ready(fields, c.visited, {s}, types, flat)
      PROVE  Alike(fields, fields \o flat[s])
  <2>1. CASE flat[s] = <<>>
    BY <1>1, <2>1, AlikeSame
  <2>2. CASE flat[s] # <<>>
    <3>1. s.include /\ s.kind = "spread" /\ s.name \in c.visited
      BY <1>2, <2>2 DEF FlatOf
    <3>2. Body(s).type \in types /\ flat[s] = FlatMap(Body(s).sub, flat)
      BY <1>2, <2>2, <3>1 DEF FlatOf
    <3>3. Body(s) = Fragments[s.name]
      BY <3>1 DEF Body
    <3>4. ~StillOpen(s.name, s)
      <4> DEFINE sub == Body(s).sub
      <4>1. ASSUME NEW t \in Range(sub) PROVE t \in Selections /\ Depth[t] < Depth[s]
        <5>1. PICK n \in DOMAIN sub : t = sub[n]
          BY DEF Range
        <5>2. QED BY <5>1, SubIs
      <4>2. Depth \in [Selections -> Nat]
        BY CollectionAssumption
      <4>3. \A t \in Range(sub) : ~(Depth[t] >= Depth[s])
        <5>1. ASSUME NEW t \in Range(sub) PROVE ~(Depth[t] >= Depth[s])
          <6>1. t \in Selections /\ Depth[t] < Depth[s]
            BY <4>1
          <6>2. Depth[t] \in Nat /\ Depth[s] \in Nat
            BY <4>2, <6>1
          <6>3. QED BY <6>1, <6>2
        <5>2. QED BY <5>1
      <4>4. QED BY <3>3, <4>3 DEF StillOpen
    <3>5. Complete(s.name, fields, types, flat)
      BY <1>4, <3>1, <3>4 DEF Ready
    <3>6. Covers(fields, flat[s])
      BY <3>2, <3>3, <3>5 DEF Complete
    <3>7. Alike(fields \o flat[s], fields)
      BY <1>3, <3>6, AlikeCovers
    <3>8. QED BY <3>7, AlikeTurns
  <2>3. QED BY <2>1, <2>2
<1>5. ASSUME NEW fields \in Seq(CollectedField), Ready(fields, c.visited, {s}, types, flat)
      PROVE  Fills(fields, c.visited, c.visited, <<>>, flat[s], types, flat)
  BY <1>1, <1>4, <1>5 DEF Fills
<1>6. QED BY <1>1, <1>5 DEF Emits

LEMMA FieldEmits ==
  ASSUME NEW types, NEW flat, IsFlat(flat, types), NEW s \in Selections,
         NEW c \in Collections, Distinct(c.fields), s.include, s.kind = "field"
  PROVE  Emits(c, [c EXCEPT !.fields = GetOrAppend(@, Collected(s), s.sub)],
               flat[s], flat[s], {s}, types, flat)
<1> DEFINE new == Collected(s)
           after == GetOrAppend(c.fields, new, s.sub)
           d == [c EXCEPT !.fields = after]
<1>1. c.fields \in Seq(CollectedField) /\ c.visited \subseteq DOMAIN Fragments
  BY CollectionsAre
<1>2. new \in CollectedField /\ s.sub \in Seq(Selections)
  BY SubIs
<1>3. Brings(new, s.sub)
  BY <1>2 DEF Brings, Collected
<1>4. flat[s] = <<With(new, s.sub)>>
  <2>1. flat[s] = FlatOf(s, types, flat)
    BY DEF IsFlat
  <2>2. QED BY <2>1 DEF FlatOf, With
<1>5. flat[s] \in Seq(CollectedField)
  <2>1. flat[s] = FlatOf(s, types, flat) /\ Gives(flat, Selections, CollectedField)
    BY DEF IsFlat
  <2>2. QED BY <2>1, FlatOfType
<1> HIDE DEF new
<1>6. Adds(after, c.fields, flat[s])
  BY <1>1, <1>2, <1>3, <1>4, GetOrAppendAdds
<1>7. after \in Seq(CollectedField)
  BY <1>6 DEF Adds
<1> HIDE DEF after
<1>8. d \in Collections /\ d.fields = after /\ d.visited = c.visited
  BY <1>7 DEF Collections
<1> HIDE DEF d
<1>9. \A fields : Fills(fields, c.visited, d.visited, flat[s], flat[s], types, flat)
  BY <1>8, AlikeSame DEF Fills
<1>10. Emits(c, d, flat[s], flat[s], {s}, types, flat)
  BY <1>5, <1>6, <1>8, <1>9 DEF Emits
<1>11. QED BY <1>10 DEF d, after, new

\* A fragment whose type does not apply.
LEMMA OtherEmits ==
  ASSUME NEW types, NEW flat, IsFlat(flat, types), NEW s \in Selections,
         NEW c \in Collections, Distinct(c.fields), s.include, s.kind # "field",
         Body(s).type \notin types
  PROVE  Emits(c, [c EXCEPT !.visited = Visit(s, @)], <<>>, flat[s], {s}, types, flat)
<1> DEFINE d == [c EXCEPT !.visited = Visit(s, @)]
<1>1. c.fields \in Seq(CollectedField) /\ c.visited \subseteq DOMAIN Fragments
  BY CollectionsAre
<1>2. Visit(s, c.visited) \subseteq DOMAIN Fragments
  BY <1>1, VisitIs
<1>3. d \in Collections /\ d.fields = c.fields /\ d.visited = Visit(s, c.visited)
  BY <1>2 DEF Collections
<1>4. flat[s] = <<>>
  <2>1. flat[s] = FlatOf(s, types, flat)
    BY DEF IsFlat
  <2>2. QED BY <2>1 DEF FlatOf
<1> HIDE DEF d
<1>5. Adds(d.fields, c.fields, <<>>) /\ <<>> \in Seq(CollectedField)
  BY <1>1, <1>3, AddsNothing
<1>6. c.visited \subseteq d.visited
  BY <1>3 DEF Visit
<1>7. ASSUME NEW n \in d.visited \ c.visited PROVE Fragments[n].type \notin types
  <2>1. s.kind = "spread" /\ n = s.name
    BY <1>3, <1>7 DEF Visit
  <2>2. QED BY <2>1 DEF Body
<1>8. \A fields : Fills(fields, c.visited, d.visited, <<>>, <<>>, types, flat)
  BY <1>7, AlikeSame DEF Fills, Complete
<1>9. Emits(c, d, <<>>, <<>>, {s}, types, flat)
  BY <1>3, <1>5, <1>6, <1>8 DEF Emits
<1>10. QED BY <1>4, <1>9 DEF d

\* A fragment that is collected: it is complete behind what it adds.
LEMMA InnerEmits ==
  ASSUME NEW types, NEW flat, IsFlat(flat, types), NEW collect, IsCollect(collect, types),
         NEW s \in Selections,
         \A t \in Selections : Depth[t] < Depth[s] => EmitsAll(t, collect, types, flat),
         NEW c \in Collections, Distinct(c.fields), s.include, s.kind # "field",
         ~(s.kind = "spread" /\ s.name \in c.visited), Body(s).type \in types,
         NEW inner, inner = CollectInto(Body(s).sub, Visit(s, c.visited), collect)
  PROVE  \E more :
           Emits(c, [fields |-> Join(c.fields, inner.fields), visited |-> inner.visited],
                 more, flat[s], {s}, types, flat)
<1> DEFINE sub == Body(s).sub
           vis == Visit(s, c.visited)
           start == Start(vis)
           some == Range(sub)
           d == [fields |-> Join(c.fields, inner.fields), visited |-> inner.visited]
<1>1. c.fields \in Seq(CollectedField) /\ c.visited \subseteq DOMAIN Fragments
  BY CollectionsAre
<1>2. /\ sub \in Seq(Selections)
      /\ \A n \in DOMAIN sub : sub[n] \in Selections /\ Depth[sub[n]] < Depth[s]
  BY SubIs
<1>3. vis \subseteq DOMAIN Fragments
  BY <1>1, VisitIs
<1>4. flat[s] = FlatMap(sub, flat) /\ flat[s] \in Seq(CollectedField)
  <2>1. flat[s] = FlatOf(s, types, flat) /\ Gives(flat, Selections, CollectedField)
    BY DEF IsFlat
  <2>2. flat[s] \in Seq(CollectedField)
    BY <2>1, FlatOfType
  <2>3. QED BY <2>1, <2>2 DEF FlatOf
<1>5. start.fields = <<>> /\ start.visited = vis
  BY DEF Start
<1>6. \A n \in DOMAIN sub : EmitsAll(sub[n], collect, types, flat)
  BY <1>2
<1>7. PICK more : Emits(start, inner, more, flat[s], some, types, flat)
  <2> HIDE DEF sub, vis
  <2>1. inner = CollectInto(sub, vis, collect)
    BY DEF sub, vis
  <2>2. QED BY <1>2, <1>3, <1>4, <1>6, <2>1, LoopEmits
<1>8. /\ more \in Seq(CollectedField) /\ inner \in Collections /\ vis \subseteq inner.visited
      /\ Adds(inner.fields, <<>>, more)
      /\ \A fields \in Seq(CollectedField) :
           Ready(fields, vis, some, types, flat)
             => Fills(fields, vis, inner.visited, more, flat[s], types, flat)
  <2> HIDE DEF start, vis, some
  <2>1. QED BY <1>5, <1>7 DEF Emits
<1>9. inner.fields \in Seq(CollectedField) /\ inner.visited \subseteq DOMAIN Fragments
  BY <1>8, CollectionsAre
<1>10. Adds(Join(c.fields, inner.fields), c.fields, more)
  <2>1. Adds(Join(c.fields, inner.fields), c.fields, inner.fields)
    BY <1>1, <1>9, JoinAdds
  <2>2. Alike(inner.fields, more)
    <3>1. <<>> \o more = more
      BY <1>8, ConcatEmpty
    <3>2. QED BY <1>8, <3>1 DEF Adds
  <2>3. Alike(c.fields \o inner.fields, c.fields \o more)
    BY <1>1, <1>8, <1>9, <2>2, AlikeSame, AlikeConcat
  <2>4. Alike(Join(c.fields, inner.fields), c.fields \o more)
    BY <2>1, <2>3, AlikeChains DEF Adds
  <2>5. QED BY <2>1, <2>4 DEF Adds
<1>11. d \in Collections /\ d.fields = Join(c.fields, inner.fields) /\ d.visited = inner.visited
  <2>1. Join(c.fields, inner.fields) \in Seq(CollectedField)
    BY <1>10 DEF Adds
  <2>2. QED BY <1>9, <2>1 DEF Collections
<1>12. c.visited \subseteq vis /\ \A n \in vis \ c.visited : n = s.name /\ Body(s) = Fragments[n]
  BY DEF Visit, Body
<1> HIDE DEF d, start, vis
<1>13. ASSUME NEW fields \in Seq(CollectedField), Ready(fields, c.visited, {s}, types, flat)
       PROVE  Ready(fields, vis, some, types, flat)
  <2>1. ASSUME NEW n \in vis, ~Complete(n, fields, types, flat), NEW t \in some
        PROVE  StillOpen(n, t)
    <3>1. t \in Selections /\ Depth[t] < Depth[s]
      BY <1>2 DEF Range
    <3>2. Depth \in [Selections -> Nat] /\ Depth[t] \in Nat /\ Depth[s] \in Nat
      BY <3>1, CollectionAssumption
    <3>3. CASE n \in c.visited
      <4>1. StillOpen(n, s)
        BY <1>13, <2>1, <3>3 DEF Ready
      <4>2. PICK u \in Range(Fragments[n].sub) : u \in Selections /\ Depth[u] >= Depth[s]
        BY <4>1 DEF StillOpen
      <4>3. Depth[u] \in Nat
        BY <3>2, <4>2
      <4>4. Depth[u] >= Depth[t]
        BY <3>1, <3>2, <4>2, <4>3
      <4>5. QED BY <4>2, <4>4 DEF StillOpen
    <3>4. CASE n \notin c.visited
      <4>1. t \in Range(Fragments[n].sub)
        BY <1>12, <2>1, <3>4
      <4>2. Depth[t] >= Depth[t]
        BY <3>2
      <4>3. QED BY <3>1, <4>1, <4>2 DEF StillOpen
    <3>5. QED BY <3>3, <3>4
  <2> HIDE DEF some
  <2>2. QED BY <2>1 DEF Ready
<1>14. ASSUME NEW fields \in Seq(CollectedField), Ready(fields, c.visited, {s}, types, flat)
       PROVE  Fills(fields, c.visited, d.visited, more, flat[s], types, flat)
  <2>1. Fills(fields, vis, inner.visited, more, flat[s], types, flat)
    BY <1>8, <1>13, <1>14
  <2>2. /\ Alike(fields \o more, fields \o flat[s])
        /\ \A n \in inner.visited \ vis : Complete(n, fields \o more, types, flat)
    BY <2>1 DEF Fills
  <2>3. Covers(fields \o more, flat[s])
    BY <1>4, <2>2, CoversPart
  <2>4. ASSUME NEW n \in inner.visited \ c.visited
        PROVE  Complete(n, fields \o more, types, flat)
    <3>1. CASE n \in vis
      <4>1. FlatMap(Fragments[n].sub, flat) = flat[s]
        BY <1>4, <1>12, <2>4, <3>1
      <4>2. QED BY <2>3, <4>1 DEF Complete
    <3>2. CASE n \notin vis
      BY <2>2, <2>4, <3>2
    <3>3. QED BY <3>1, <3>2
  <2>5. QED BY <1>11, <2>2, <2>4 DEF Fills
<1>15. c.visited \subseteq d.visited
  BY <1>8, <1>11, <1>12
<1>16. Adds(d.fields, c.fields, more)
  BY <1>10, <1>11
<1>17. Emits(c, d, more, flat[s], {s}, types, flat)
  BY <1>8, <1>11, <1>14, <1>15, <1>16 DEF Emits
<1>18. QED BY <1>17 DEF d

LEMMA StepEmits ==
  ASSUME NEW types, NEW flat, IsFlat(flat, types), NEW collect, IsCollect(collect, types),
         NEW s \in Selections,
         \A t \in Selections : Depth[t] < Depth[s] => EmitsAll(t, collect, types, flat)
  PROVE  EmitsAll(s, collect, types, flat)
<1>1. ASSUME NEW c \in Collections, Distinct(c.fields)
      PROVE  \E more : Emits(c, collect[s][c], more, flat[s], {s}, types, flat)
  <2>1. collect[s][c] = CollectOf(s, c, types, collect)
    BY DEF IsCollect
  <2>2. CASE ~s.include \/ (s.kind = "spread" /\ s.name \in c.visited)
    <3>1. collect[s][c] = c
      BY <2>1, <2>2 DEF CollectOf
    <3>2. Emits(c, c, <<>>, flat[s], {s}, types, flat)
      BY <1>1, <2>2, SkipEmits
    <3>3. QED BY <3>1, <3>2
  <2>3. CASE /\ s.include /\ ~(s.kind = "spread" /\ s.name \in c.visited)
             /\ s.kind = "field"
    <3>1. collect[s][c] = [c EXCEPT !.fields = GetOrAppend(@, Collected(s), s.sub)]
      BY <2>1, <2>3 DEF CollectOf
    <3>2. Emits(c, [c EXCEPT !.fields = GetOrAppend(@, Collected(s), s.sub)],
                flat[s], flat[s], {s}, types, flat)
      BY <1>1, <2>3, FieldEmits
    <3>3. Emits(c, collect[s][c], flat[s], flat[s], {s}, types, flat)
      BY <3>1, <3>2
    <3>4. QED BY <3>3
  <2>4. CASE /\ s.include /\ ~(s.kind = "spread" /\ s.name \in c.visited)
             /\ s.kind # "field" /\ Body(s).type \notin types
    <3>1. collect[s][c] = [c EXCEPT !.visited = Visit(s, @)]
      BY <2>1, <2>4 DEF CollectOf
    <3>2. Emits(c, [c EXCEPT !.visited = Visit(s, @)], <<>>, flat[s], {s}, types, flat)
      BY <1>1, <2>4, OtherEmits
    <3>3. Emits(c, collect[s][c], <<>>, flat[s], {s}, types, flat)
      BY <3>1, <3>2
    <3>4. QED BY <3>3
  <2>5. CASE /\ s.include /\ ~(s.kind = "spread" /\ s.name \in c.visited)
             /\ s.kind # "field" /\ Body(s).type \in types
    <3> DEFINE inner == CollectInto(Body(s).sub, Visit(s, c.visited), collect)
               d == [fields |-> Join(c.fields, inner.fields), visited |-> inner.visited]
    <3>1. collect[s][c] = d
      BY <2>1, <2>5 DEF CollectOf
    <3>2. \E more : Emits(c, d, more, flat[s], {s}, types, flat)
      BY <1>1, <2>5, InnerEmits
    <3> HIDE DEF d
    <3>3. QED BY <3>1, <3>2
  <2>6. s.include \in BOOLEAN
    BY CollectionAssumption
  <2>7. QED BY <2>2, <2>3, <2>4, <2>5, <2>6
<1>2. QED BY <1>1 DEF EmitsAll

LEMMA AllEmit ==
  ASSUME NEW types, NEW flat, IsFlat(flat, types), NEW collect, IsCollect(collect, types)
  PROVE  \A s \in Selections : EmitsAll(s, collect, types, flat)
<1> DEFINE Failing == {s \in Selections : ~EmitsAll(s, collect, types, flat)}
           Fails == {Depth[s] : s \in Failing}
<1>0. Depth \in [Selections -> Nat]
  BY CollectionAssumption
<1>1. ASSUME Fails # {} PROVE FALSE
  <2>1. PICK n \in Fails : \A k \in Fails : n <= k
    <3>1. Fails \subseteq Nat
      BY <1>0
    <3> HIDE DEF Fails
    <3>2. QED BY <1>1, <3>1, Least
  <2>2. PICK s \in Failing : n = Depth[s]
    BY <2>1
  <2>3. ASSUME NEW t \in Selections, Depth[t] < Depth[s]
        PROVE  EmitsAll(t, collect, types, flat)
    <3>1. ~(n <= Depth[t])
      BY <1>0, <2>2, <2>3
    <3>2. Depth[t] \notin Fails
      <4> HIDE DEF Fails
      <4>1. QED BY <2>1, <3>1
    <3>3. QED BY <3>2
  <2>4. s \in Selections /\ ~EmitsAll(s, collect, types, flat)
    BY <2>2
  <2> HIDE DEF Failing, Fails
  <2>5. QED BY <2>3, <2>4, StepEmits
<1>2. QED BY <1>1

LEMMA CollectsAll ==
  ASSUME NEW types, NEW set \in Seq(Selections)
  PROVE  /\ CollectFields(set, types) \in Seq(CollectedField)
         /\ Distinct(CollectFields(set, types))
         /\ Alike(CollectFields(set, types), Flat(set, types))
         /\ Flat(set, types) \in Seq(CollectedField)
<1>1. PICK flat : IsFlat(flat, types) /\ \A s : Flat(s, types) = FlatMap(s, flat)
  BY FlatExists
<1> DEFINE collect == Collect(types)
           start == Start({})
           end == CollectInto(set, {}, collect)
           fields == CollectFields(set, types)
           all == Flat(set, types)
<1>2. IsCollect(collect, types)
  BY CollectIs
<1>3. fields = end.fields
  BY DEF CollectFields
<1>4. all = FlatMap(set, flat)
  BY <1>1
<1>5. all \in Seq(CollectedField)
  <2>1. Gives(flat, Selections, CollectedField)
    BY <1>1 DEF IsFlat
  <2>2. QED BY <1>4, <2>1, FlatMapType
<1> HIDE DEF collect, fields, all
<1>6. \A n \in DOMAIN set : EmitsAll(set[n], collect, types, flat)
  <2>1. \A n \in DOMAIN set : set[n] \in Selections
    OBVIOUS
  <2>2. QED BY <1>1, <1>2, <2>1, AllEmit
<1>7. PICK more : Emits(start, end, more, all, Range(set), types, flat)
  <2>1. {} \subseteq DOMAIN Fragments
    OBVIOUS
  <2>2. QED BY <1>1, <1>2, <1>4, <1>6, <2>1, LoopEmits
<1>8. start.fields = <<>> /\ start.visited = {}
  BY DEF Start
<1> HIDE DEF start, end
<1>9. /\ more \in Seq(CollectedField) /\ <<>> \in Seq(CollectedField)
      /\ <<>> \o more = more /\ <<>> \o all = all
  BY <1>5, <1>7, ConcatEmpty DEF Emits
<1>10. /\ end.fields \in Seq(CollectedField) /\ Distinct(end.fields)
       /\ Alike(end.fields, more)
  BY <1>7, <1>8, <1>9 DEF Emits, Adds
<1>11. Alike(more, all)
  <2>1. Ready(<<>>, start.visited, Range(set), types, flat)
    BY <1>8 DEF Ready
  <2>2. Fills(<<>>, start.visited, end.visited, more, all, types, flat)
    BY <1>7, <1>9, <2>1 DEF Emits
  <2>3. QED BY <1>9, <2>2 DEF Fills
<1>12. Alike(end.fields, all)
  BY <1>10, <1>11, AlikeChains
<1>13. QED BY <1>3, <1>5, <1>10, <1>12 DEF fields, all

---------------------------------------------------------------------------
(* What FieldsAsSpecified says of it *)

LEMMA FlatMapEach ==
  ASSUME NEW S, NEW g, NEW q \in Seq(S)
  PROVE  FlatMap(q, [e \in S |-> <<g[e]>>]) = [n \in DOMAIN q |-> g[q[n]]]
<1> DEFINE T == {g[e] : e \in S}
           one == [e \in S |-> <<g[e]>>]
           each(s) == [n \in DOMAIN s |-> g[s[n]]]
           P == {s \in Seq(S) : FlatMap(s, one) = each(s)}
<1>0. \A e \in S : g[e] \in T
  OBVIOUS
<1> HIDE DEF T
<1>1. Gives(one, S, T)
  BY <1>0 DEF Gives
<1>2. <<>> \in P
  <2>1. FlatMap(<<>>, one) = <<>> /\ <<>> \in Seq(S)
    BY FlatMapEmpty
  <2>2. each(<<>>) = <<>>
    OBVIOUS
  <2>3. QED BY <2>1, <2>2
<1>3. ASSUME NEW s \in P, NEW e \in S PROVE Append(s, e) \in P
  <2>1. s \in Seq(S) /\ Append(s, e) \in Seq(S) /\ FlatMap(s, one) = each(s)
    OBVIOUS
  <2>2. each(Append(s, e)) = each(s) \o one[e]
    <3>1. /\ Len(s) \in Nat /\ DOMAIN s = 1..Len(s) /\ DOMAIN Append(s, e) = 1..Len(s) + 1
          /\ \A i \in 1..Len(s) : Append(s, e)[i] = s[i] /\ s[i] \in S
          /\ Append(s, e)[Len(s) + 1] = e
      BY <2>1, AppendIs
    <3>2. each(s) \in Seq(T) /\ Len(each(s)) = Len(s)
      <4>1. each(s) \in [1..Len(s) -> T]
        BY <1>0, <3>1
      <4> DEFINE es == each(s)
      <4> HIDE DEF P, each, es
      <4>2. es \in [1..Len(s) -> T]
        BY <4>1 DEF es
      <4>3. es \in Seq(T) /\ Len(es) = Len(s)
        BY <3>1, <4>2
      <4>4. QED BY <4>3 DEF es
    <3>3. one[e] = <<g[e]>> /\ g[e] \in T
      BY <1>0
    <3>4. each(s) \o <<g[e]>> = Append(each(s), g[e])
      <4> HIDE DEF each
      <4>1. QED BY <3>2, <3>3
    <3>5. each(Append(s, e)) = Append(each(s), g[e])
      <4> DEFINE q1 == each(Append(s, e))
                 q2 == Append(each(s), g[e])
      <4>1. DOMAIN q1 = 1..Len(s) + 1 /\ q1[Len(s) + 1] = g[e]
        BY <3>1
      <4>2. \A i \in 1..Len(s) : q1[i] = g[s[i]] /\ each(s)[i] = g[s[i]]
        BY <3>1
      <4>3. q1 = [i \in 1..Len(s) + 1 |-> q1[i]]
        BY <3>1
      <4> HIDE DEF each, q1
      <4>4. /\ q2 \in Seq(T) /\ Len(q2) = Len(s) + 1 /\ q2[Len(s) + 1] = g[e]
            /\ \A i \in 1..Len(s) : q2[i] = each(s)[i]
        BY <3>1, <3>2, <3>3
      <4>5. q2 = [i \in 1..Len(s) + 1 |-> q2[i]]
        BY <3>1, <4>4
      <4> HIDE DEF q2
      <4>6. \A i \in 1..Len(s) + 1 : i = Len(s) + 1 \/ i \in 1..Len(s)
        BY <3>1
      <4>7. \A i \in 1..Len(s) + 1 : q1[i] = q2[i]
        BY <4>1, <4>2, <4>4, <4>6
      <4>8. q1 = q2
        BY <4>3, <4>5, <4>7
      <4>9. QED BY <4>8 DEF q1, q2
    <3> HIDE DEF each
    <3>6. QED BY <3>3, <3>4, <3>5
  <2> HIDE DEF P, one, each
  <2>3. FlatMap(Append(s, e), one) = FlatMap(s, one) \o one[e]
    BY <1>1, <2>1, FlatMapAppend
  <2>4. QED BY <2>1, <2>2, <2>3 DEF P
<1> HIDE DEF P
<1>4. q \in P
  <2>1. P \subseteq Seq(S)
    BY DEF P
  <2>2. QED BY <1>2, <1>3, <2>1, AllSequences
<1>5. QED BY <1>4 DEF P

LEMMA LooksAre ==
  ASSUME NEW q \in Seq(CollectedField)
  PROVE  /\ FlatMap(q, IdOf) = Ids(q)
         /\ \A f : FlatMap(q, BelowOf(f)) = Merged(q, f)
         /\ \A f : Merged(q, f) \in Seq(Selections)
<1>1. FlatMap(q, IdOf) = Ids(q)
  <2> DEFINE g == [e \in CollectedField |-> <<e.key, e.on>>]
  <2>1. IdOf = [e \in CollectedField |-> <<g[e]>>]
    BY DEF IdOf
  <2>2. Ids(q) = [n \in DOMAIN q |-> g[q[n]]]
    <3>1. \A n \in DOMAIN q : g[q[n]] = <<q[n].key, q[n].on>>
      BY FieldsAre
    <3> HIDE DEF g
    <3>2. QED BY <3>1 DEF Ids
  <2> HIDE DEF g
  <2>3. FlatMap(q, [e \in CollectedField |-> <<g[e]>>]) = [n \in DOMAIN q |-> g[q[n]]]
    BY FlatMapEach
  <2>4. QED BY <2>1, <2>2, <2>3
<1>2. ASSUME NEW f PROVE FlatMap(q, BelowOf(f)) = Merged(q, f) /\ Merged(q, f) \in Seq(Selections)
  <2>1. [n \in DOMAIN q |-> BelowOf(f)[q[n]]]
          = [n \in DOMAIN q |-> IF Same(q[n], f) THEN q[n].selections ELSE <<>>]
    BY FieldsAre DEF BelowOf
  <2>2. FlatMap(q, BelowOf(f)) = Merged(q, f)
    BY <2>1 DEF FlatMap, Merged
  <2>3. Gives(BelowOf(f), CollectedField, Selections)
    <3>1. ASSUME NEW e \in CollectedField
          PROVE  (IF Same(e, f) THEN e.selections ELSE <<>>) \in Seq(Selections)
      <4>1. e.selections \in Seq(Selections) /\ <<>> \in Seq(Selections)
        BY DEF CollectedField
      <4>2. QED BY <4>1
    <3>2. QED BY <3>1 DEF Gives, BelowOf
  <2>4. FlatMap(q, BelowOf(f)) \in Seq(Selections)
    BY <2>3, FlatMapType
  <2>5. QED BY <2>2, <2>4
<1>3. QED BY <1>1, <1>2

\* What is collected of selections is what they have that are specified.
LEMMA CollectsSpecified ==
  ASSUME NEW types, NEW set \in Seq(Selections), NEW spec \in Seq(Selections),
         SameOrder(set, spec)
  PROVE  /\ Alike(CollectFields(set, types), Flat(spec, types))
         /\ Flat(spec, types) \in Seq(CollectedField)
<1> DEFINE fields == CollectFields(set, types)
<1>1. PICK flat : IsFlat(flat, types) /\ \A s : Flat(s, types) = FlatMap(s, flat)
  BY FlatExists
<1>2. Gives(flat, Selections, CollectedField)
  BY <1>1 DEF IsFlat
<1>3. Alike(fields, Flat(set, types))
  BY CollectsAll
<1>4. FlatMap(set, flat) \in Seq(CollectedField) /\ FlatMap(spec, flat) \in Seq(CollectedField)
  BY <1>2, FlatMapType
<1>5. SameOrder(FlatMap(set, flat), FlatMap(spec, flat))
  BY <1>2, SameOrderFlatMap
<1>6. ASSUME NEW g \in Looks
      PROVE  SameOrder(FlatMap(FlatMap(set, flat), g), FlatMap(FlatMap(spec, flat), g))
  <2>1. Gives(g, CollectedField, Seen)
    BY LooksGive
  <2>2. QED BY <1>4, <1>5, <2>1, SameOrderFlatMap
<1>7. Alike(Flat(set, types), Flat(spec, types))
  BY <1>1, <1>6 DEF Alike
<1> HIDE DEF fields
<1>8. Alike(fields, Flat(spec, types))
  BY <1>3, <1>7, AlikeChains
<1>9. QED BY <1>1, <1>4, <1>8 DEF fields

LEMMA BelowSpecified ==
  ASSUME NEW types, NEW set \in Seq(Selections), NEW spec \in Seq(Selections),
         SameOrder(set, spec), NEW f \in Range(CollectFields(set, types))
  PROVE  /\ f \in CollectedField /\ f.selections \in Seq(Selections)
         /\ Merged(Flat(spec, types), f) \in Seq(Selections)
         /\ SameOrder(f.selections, Merged(Flat(spec, types), f))
<1> DEFINE fields == CollectFields(set, types)
           all == Flat(spec, types)
<1>1. fields \in Seq(CollectedField) /\ Distinct(fields)
  BY CollectsAll
<1>2. Alike(fields, all) /\ all \in Seq(CollectedField)
  BY CollectsSpecified
<1> HIDE DEF fields, all
<1>3. PICK i \in DOMAIN fields : f = fields[i]
  BY DEF Range, fields
<1>4. f \in CollectedField /\ Same(fields[i], f)
  BY <1>1, <1>3, FieldsAre DEF Same
<1>5. f.selections \in Seq(Selections)
  BY <1>4 DEF CollectedField
<1>6. FlatMap(fields, BelowOf(f)) = f.selections
  BY <1>1, <1>3, <1>4, BelowDistinct
<1>7. BelowOf(f) \in Looks
  BY <1>4 DEF Looks
<1>8. SameOrder(FlatMap(fields, BelowOf(f)), FlatMap(all, BelowOf(f)))
  BY <1>2, <1>7 DEF Alike
<1>9. FlatMap(all, BelowOf(f)) = Merged(all, f) /\ Merged(all, f) \in Seq(Selections)
  BY <1>2, LooksAre
<1>10. QED BY <1>4, <1>5, <1>6, <1>8, <1>9 DEF all

\* What is selected is what is specified, in the order in which each is first met: what
\* a fragment brings along twice, or the other spread of it, is in neither what is new.
CollectionInv == CollectionTypeOK /\ SameOrder(selections, specified)

LEMMA InitCollectionInv == CollectionInit => CollectionInv
<1>1. ASSUME CollectionInit PROVE CollectionInv
  <2>1. selections \in Seq(Selections) /\ specified = selections /\ satisfies = Root
    BY <1>1, CollectionAssumption DEF CollectionInit
  <2>2. QED BY <2>1 DEF CollectionInv, CollectionTypeOK, SameOrder
<1>2. QED BY <1>1

LEMMA NextCollectionInv == CollectionInv /\ [Descend]_collectionVars => CollectionInv'
<1> SUFFICES ASSUME CollectionInv, [Descend]_collectionVars PROVE CollectionInv'
  OBVIOUS
<1>1. CASE Descend
  <2>1. PICK f \in Range(CollectFields(selections, satisfies)) :
          \E types \in Results[f.key] :
            /\ satisfies' = types
            /\ selections' = f.selections
            /\ specified' = Merged(Flat(specified, satisfies), f)
    BY <1>1 DEF Descend
  <2>2. /\ selections \in Seq(Selections) /\ specified \in Seq(Selections)
        /\ SameOrder(selections, specified)
    BY DEF CollectionInv, CollectionTypeOK
  <2>3. /\ f \in CollectedField /\ f.selections \in Seq(Selections)
        /\ Merged(Flat(specified, satisfies), f) \in Seq(Selections)
        /\ SameOrder(f.selections, Merged(Flat(specified, satisfies), f))
    BY <2>2, BelowSpecified
  <2>4. f.key \in DOMAIN Results
    <3>1. PICK s \in Fields : f.key = s.key
      BY <2>3 DEF CollectedField
    <3>2. QED BY <3>1, CollectionAssumption DEF Fields
  <2>5. satisfies' \in UNION Range(Results)
    <3>1. satisfies' \in Results[f.key]
      BY <2>1
    <3>2. Results[f.key] \in Range(Results)
      BY <2>4 DEF Range
    <3>3. QED BY <3>1, <3>2
  <2>6. selections' = f.selections /\ specified' = Merged(Flat(specified, satisfies), f)
    BY <2>1
  <2>7. CollectionTypeOK'
    BY <2>3, <2>5, <2>6 DEF CollectionTypeOK
  <2>8. SameOrder(selections, specified)'
    BY <2>3, <2>6 DEF SameOrder, Before
  <2>9. QED BY <2>7, <2>8 DEF CollectionInv
<1>2. CASE UNCHANGED collectionVars
  BY <1>2 DEF CollectionInv, CollectionTypeOK, SameOrder, Before, collectionVars
<1>3. QED BY <1>1, <1>2

LEMMA CollectionInvHolds == CollectionSpec => []CollectionInv
BY InitCollectionInv, NextCollectionInv, PTL DEF CollectionSpec

\* Functions of objects are called with selections of the document, for the types of
\* the object the field may have (CollectFields, object.gotpl:26-36).
THEOREM CollectionTypeCorrect == CollectionSpec => []CollectionTypeOK
<1>1. CollectionInv => CollectionTypeOK
  BY DEF CollectionInv
<1>2. QED BY <1>1, CollectionInvHolds, PTL

\* In every document, however fragments nest, are skipped, are spread again or do not
\* apply, and wherever an execution gets to in it, the fields that CollectFields
\* collects are those that the GraphQL specification asks for, each once, in order
\* and with all that is selected below (executable_schema.go:19-82, 99-110).
THEOREM FieldsAreSpecified == CollectionSpec => []FieldsAsSpecified
<1>1. ASSUME CollectionInv PROVE FieldsAsSpecified
  <2> DEFINE fields == CollectFields(selections, satisfies)
             all == Flat(specified, satisfies)
  <2>1. /\ selections \in Seq(Selections) /\ specified \in Seq(Selections)
        /\ SameOrder(selections, specified)
    BY <1>1 DEF CollectionInv, CollectionTypeOK
  <2>2. fields \in Seq(CollectedField) /\ Distinct(fields)
    BY <2>1, CollectsAll
  <2>3. Alike(fields, all) /\ all \in Seq(CollectedField)
    BY <2>1, CollectsSpecified
  <2>4. \A f \in Range(fields) : SameOrder(f.selections, Merged(all, f))
    BY <2>1, BelowSpecified
  <2> HIDE DEF fields, all
  <2>5. SameOrder(Ids(fields), Ids(all))
    <3>1. SameOrder(FlatMap(fields, IdOf), FlatMap(all, IdOf))
      BY <2>3 DEF Alike, Looks
    <3>2. FlatMap(fields, IdOf) = Ids(fields) /\ FlatMap(all, IdOf) = Ids(all)
      BY <2>2, <2>3, LooksAre
    <3>3. QED BY <3>1, <3>2
  <2>6. QED BY <2>2, <2>4, <2>5 DEF FieldsAsSpecified, Distinct, fields, all
<1>2. QED BY <1>1, CollectionInvHolds, PTL

---------------------------------------------------------------------------
(* The complexity of an operation: the integers of the machine *)

LEMMA WrapIs ==
  ASSUME NEW n \in Nat, n <= 2 * MaxInt
  PROVE  Wrap(n) = IF n <= MaxInt THEN n ELSE n - 2 * (MaxInt + 1)
<1> DEFINE size == 2 * (MaxInt + 1)  m == n + MaxInt + 1
<1>1. MaxInt \in Nat \ {0} /\ size \in Nat \ {0} /\ m \in Nat /\ m <= 3 * MaxInt + 1
  BY ComplexityAssumption
<1>2. CASE n <= MaxInt
  <2>1. 0 <= m /\ m < size
    BY <1>1, <1>2
  <2>2. m % size = m
    <3> HIDE DEF m, size
    <3>1. QED BY <1>1, <2>1
  <2>3. QED BY <1>1, <1>2, <2>2 DEF Wrap
<1>3. CASE n > MaxInt
  <2>1. 0 <= m - size /\ m - size < size /\ m - size \in Nat
    BY <1>1, <1>3
  <2>2. m % size = m - size
    <3> HIDE DEF m, size
    <3>1. QED BY <1>1, <2>1
  <2>3. QED BY <1>1, <1>3, <2>2 DEF Wrap
<1>4. QED BY <1>1, <1>2, <1>3

\* What is not negative is added, up to the greatest int.
Capped(a, b) == IF a + b <= MaxInt THEN a + b ELSE MaxInt

LEMMA CappedIs ==
  ASSUME NEW a \in 0..MaxInt, NEW b \in 0..MaxInt
  PROVE  Capped(a, b) \in 0..MaxInt /\ a <= Capped(a, b) /\ b <= Capped(a, b)
<1>1. MaxInt \in Nat \ {0}
  BY ComplexityAssumption
<1>2. QED BY <1>1 DEF Capped

LEMMA CappedGrows ==
  ASSUME NEW a \in 0..MaxInt, NEW b \in 0..MaxInt, NEW c \in 0..MaxInt, a <= c
  PROVE  Capped(a, b) <= Capped(c, b)
<1>1. MaxInt \in Nat \ {0}
  BY ComplexityAssumption
<1>2. QED BY <1>1 DEF Capped

LEMMA SafeAddIs ==
  ASSUME NEW a \in 0..MaxInt, NEW b \in 0..MaxInt
  PROVE  SafeAdd(a, b) = Capped(a, b)
<1>1. MaxInt \in Nat \ {0} /\ a + b \in Nat /\ a + b <= 2 * MaxInt /\ ~(a < 0) /\ ~(b < 0)
  BY ComplexityAssumption
<1>2. Wrap(a + b) = IF a + b <= MaxInt THEN a + b ELSE a + b - 2 * (MaxInt + 1)
  BY <1>1, WrapIs
<1>3. SafeAdd(a, b) = IF Wrap(a + b) < a THEN MaxInt ELSE Wrap(a + b)
  BY <1>1 DEF SafeAdd
<1>4. QED BY <1>1, <1>2, <1>3 DEF Capped

---------------------------------------------------------------------------
(* A selection costs no less than what is below it *)

LEMMA FieldCost ==
  ASSUME NEW object, NEW field, NEW child \in 0..MaxInt
  PROVE  FieldComplexity(object, field, child) \in child..MaxInt
<1>1. MaxInt \in Nat \ {0} /\ child \in Ints
  BY ComplexityAssumption DEF Ints
<1>2. CASE IsCustom(object, field, child)
  <2> DEFINE f == Custom[<<object, field>>]
  <2>1. <<object, field>> \in DOMAIN Custom /\ f[child] >= child
    BY <1>2 DEF IsCustom
  <2>2. f \in Range(Custom)
    BY <2>1 DEF Range
  <2>3. f[child] \in Ints
    BY <1>1, <2>2, ComplexityAssumption
  <2>4. FieldComplexity(object, field, child) = f[child]
    BY <1>2 DEF FieldComplexity
  <2> HIDE DEF f
  <2>5. QED BY <1>1, <2>1, <2>3, <2>4 DEF Ints
<1>3. CASE ~IsCustom(object, field, child)
  <2>1. FieldComplexity(object, field, child) = SafeAdd(1, child) /\ 1 \in 0..MaxInt
    BY <1>1, <1>3 DEF FieldComplexity
  <2>2. SafeAdd(1, child) = Capped(1, child)
    BY <2>1, SafeAddIs
  <2>3. QED BY <1>1, <2>1, <2>2, CappedIs
<1>4. QED BY <1>2, <1>3

LEMMA InterfaceCost ==
  ASSUME NEW interface \in DOMAIN PossibleTypes, NEW field, NEW child \in 0..MaxInt
  PROVE  InterfaceFieldComplexity(interface, field, child) \in child..MaxInt
<1> DEFINE types == PossibleTypes[interface]
           costs == {FieldComplexity(t, field, child) : t \in types} \cup {0}
           rest == {MaxInt - c : c \in costs}
<1>1. MaxInt \in Nat \ {0}
  BY ComplexityAssumption
<1>2. types # {}
  BY ComplexityAssumption DEF Range
<1>3. \A c \in costs : c \in 0..MaxInt
  <2>1. ASSUME NEW t \in types PROVE FieldComplexity(t, field, child) \in 0..MaxInt
    <3>1. FieldComplexity(t, field, child) \in child..MaxInt
      BY FieldCost
    <3>2. QED BY <1>1, <3>1
  <2>2. QED BY <1>1, <2>1
<1>4. PICK t \in types : FieldComplexity(t, field, child) \in child..MaxInt
  BY <1>2, FieldCost
<1>5. FieldComplexity(t, field, child) \in costs
  OBVIOUS
<1>6. InterfaceFieldComplexity(interface, field, child) = CHOOSE c \in costs : \A d \in costs : c >= d
  BY DEF InterfaceFieldComplexity
<1> HIDE DEF costs
<1>7. PICK r \in rest : \A s \in rest : r <= s
  <2>1. rest \subseteq Nat /\ rest # {}
    BY <1>1, <1>3, <1>5
  <2> HIDE DEF rest
  <2>2. QED BY <2>1, Least
<1>8. \E c \in costs : \A d \in costs : c >= d
  <2>1. PICK c \in costs : r = MaxInt - c
    BY <1>7
  <2>2. ASSUME NEW d \in costs PROVE c >= d
    <3>1. MaxInt - c <= MaxInt - d
      BY <1>7, <2>1
    <3>2. QED BY <1>1, <1>3, <3>1
  <2>3. QED BY <2>2
<1> DEFINE most == CHOOSE c \in costs : \A d \in costs : c >= d
<1>9. most \in costs /\ \A d \in costs : most >= d
  BY <1>8
<1> HIDE DEF most
<1>10. most \in 0..MaxInt /\ most >= FieldComplexity(t, field, child)
  BY <1>3, <1>5, <1>9
<1>11. QED BY <1>1, <1>4, <1>6, <1>10 DEF most

LEMMA SelectionCost ==
  ASSUME NEW s, NEW child \in 0..MaxInt
  PROVE  SelectionComplexity(s, child) \in child..MaxInt
<1>1. child \in child..MaxInt
  BY ComplexityAssumption
<1>2. QED BY <1>1, FieldCost, InterfaceCost DEF SelectionComplexity

---------------------------------------------------------------------------
(* The loop over the selections *)

Sums(costs, m, f) == f = [n \in 0..m |-> IF n = 0 THEN 0 ELSE SafeAdd(f[n - 1], costs[n])]

LEMMA SumsExist ==
  ASSUME NEW costs, NEW m \in Nat
  PROVE  \E f : Sums(costs, m, f)
<1> DEFINE Fails == {n \in Nat : ~ \E f : Sums(costs, n, f)}
<1>1. ASSUME Fails # {} PROVE FALSE
  <2>1. PICK n \in Fails : \A k \in Fails : n <= k
    <3>1. Fails \subseteq Nat
      OBVIOUS
    <3> HIDE DEF Fails
    <3>2. QED BY <1>1, <3>1, Least
  <2>2. n \in Nat /\ ~ \E f : Sums(costs, n, f)
    BY <2>1
  <2>3. CASE n = 0
    <3> DEFINE f == [k \in 0..0 |-> 0]
    <3>1. f = [k \in 0..0 |-> IF k = 0 THEN 0 ELSE SafeAdd(f[k - 1], costs[k])]
      OBVIOUS
    <3> HIDE DEF f
    <3>2. QED BY <2>2, <2>3, <3>1 DEF Sums
  <2>4. CASE n # 0
    <3>1. n - 1 \in Nat /\ n - 1 \notin Fails
      <4>1. n - 1 \in Nat /\ ~(n <= n - 1)
        BY <2>2, <2>4
      <4> HIDE DEF Fails
      <4>2. QED BY <2>1, <4>1
    <3>2. PICK g : Sums(costs, n - 1, g)
      BY <3>1
    <3> DEFINE last == SafeAdd(g[n - 1], costs[n])
               f == [k \in 0..n |-> IF k = n THEN last ELSE g[k]]
    <3>3. ASSUME NEW k \in 0..n
          PROVE  f[k] = IF k = 0 THEN 0 ELSE SafeAdd(f[k - 1], costs[k])
      <4>1. CASE k = n
        <5>1. k # 0 /\ k - 1 \in 0..n /\ k - 1 # n
          BY <2>2, <2>4, <4>1
        <5>2. f[k] = last /\ f[k - 1] = g[n - 1]
          BY <4>1, <5>1
        <5>3. QED BY <4>1, <5>1, <5>2
      <4>2. CASE k # n
        <5>1. k \in 0..n - 1
          BY <2>2, <4>2
        <5>2. f[k] = g[k] /\ g[k] = IF k = 0 THEN 0 ELSE SafeAdd(g[k - 1], costs[k])
          BY <3>2, <4>2, <5>1 DEF Sums
        <5>3. CASE k = 0
          BY <5>2, <5>3
        <5>4. CASE k # 0
          <6>1. k - 1 \in 0..n /\ k - 1 # n
            BY <2>2, <4>2, <5>4
          <6>2. f[k - 1] = g[k - 1]
            BY <6>1
          <6>3. QED BY <5>2, <5>4, <6>2
        <5>5. QED BY <5>3, <5>4
      <4>3. QED BY <4>1, <4>2
    <3>4. f = [k \in 0..n |-> f[k]]
      OBVIOUS
    <3> HIDE DEF f
    <3>5. f = [k \in 0..n |-> IF k = 0 THEN 0 ELSE SafeAdd(f[k - 1], costs[k])]
      BY <3>3, <3>4
    <3>6. QED BY <2>2, <3>5 DEF Sums
  <2>5. QED BY <2>3, <2>4
<1>2. QED BY <1>1

\* Each sum is the one before it and one cost more, up to the greatest int.
AddsUp(costs, f) ==
    /\ f[0] = 0 /\ \A n \in 0..Len(costs) : f[n] \in 0..MaxInt
    /\ \A n \in 1..Len(costs) : f[n] = Capped(f[n - 1], costs[n])

LEMMA SumsAdd ==
  ASSUME NEW costs \in Seq(0..MaxInt), NEW f, Sums(costs, Len(costs), f)
  PROVE  AddsUp(costs, f)
<1> DEFINE Fails == {n \in 0..Len(costs) : f[n] \notin 0..MaxInt}
<1>0. MaxInt \in Nat \ {0} /\ Len(costs) \in Nat /\ \A n \in 1..Len(costs) : costs[n] \in 0..MaxInt
  BY ComplexityAssumption
<1>1. f[0] = 0 /\ \A n \in 1..Len(costs) : f[n] = SafeAdd(f[n - 1], costs[n])
  <2>1. f = [n \in 0..Len(costs) |-> IF n = 0 THEN 0 ELSE SafeAdd(f[n - 1], costs[n])]
    BY DEF Sums
  <2>2. 0 \in 0..Len(costs) /\ \A n \in 1..Len(costs) : n \in 0..Len(costs) /\ n # 0
    BY <1>0
  <2>3. \A n \in 0..Len(costs) : f[n] = IF n = 0 THEN 0 ELSE SafeAdd(f[n - 1], costs[n])
    BY <2>1
  <2>4. QED BY <2>2, <2>3
<1>2. ASSUME NEW n \in 1..Len(costs), f[n - 1] \in 0..MaxInt
      PROVE  f[n] \in 0..MaxInt /\ f[n] = Capped(f[n - 1], costs[n])
  <2>1. f[n] = Capped(f[n - 1], costs[n])
    BY <1>0, <1>1, <1>2, SafeAddIs
  <2>2. QED BY <1>0, <1>2, <2>1, CappedIs
<1>3. ASSUME Fails # {} PROVE FALSE
  <2>1. PICK n \in Fails : \A k \in Fails : n <= k
    <3>1. Fails \subseteq Nat
      BY <1>0
    <3> HIDE DEF Fails
    <3>2. QED BY <1>3, <3>1, Least
  <2>2. n # 0
    <3>1. f[0] \in 0..MaxInt
      BY <1>0, <1>1
    <3>2. QED BY <2>1, <3>1
  <2>3. n \in 1..Len(costs) /\ n - 1 \in 0..Len(costs) /\ ~(n <= n - 1)
    BY <1>0, <2>1, <2>2
  <2>4. f[n - 1] \in 0..MaxInt
    BY <2>1, <2>3
  <2>5. QED BY <1>2, <2>1, <2>3, <2>4
<1>4. \A n \in 0..Len(costs) : f[n] \in 0..MaxInt
  BY <1>3
<1>5. \A n \in 1..Len(costs) : n - 1 \in 0..Len(costs)
  BY <1>0
<1>6. QED BY <1>1, <1>2, <1>4, <1>5 DEF AddsUp

LEMMA AddsUpAt ==
  ASSUME NEW costs \in Seq(0..MaxInt), NEW f, AddsUp(costs, f), NEW n \in 1..Len(costs)
  PROVE  /\ costs[n] \in 0..MaxInt /\ f[n - 1] \in 0..MaxInt /\ f[n] \in 0..MaxInt
         /\ f[n] = Capped(f[n - 1], costs[n])
         /\ f[n - 1] <= f[n] /\ costs[n] <= f[n]
<1>1. n - 1 \in 0..Len(costs) /\ n \in 0..Len(costs)
  OBVIOUS
<1>2. costs[n] \in 0..MaxInt /\ f[n - 1] \in 0..MaxInt /\ f[n] = Capped(f[n - 1], costs[n])
  <2>1. costs[n] \in 0..MaxInt
    BY ComplexityAssumption
  <2>2. f[n - 1] \in 0..MaxInt
    BY <1>1 DEF AddsUp
  <2>3. f[n] = Capped(f[n - 1], costs[n])
    BY DEF AddsUp
  <2>4. QED BY <2>1, <2>2, <2>3
<1>3. QED BY <1>2, CappedIs

LEMMA TotalIs ==
  ASSUME NEW costs \in Seq(0..MaxInt)
  PROVE  \E f : AddsUp(costs, f) /\ Total(costs) = f[Len(costs)]
<1> DEFINE sum == CHOOSE f : Sums(costs, Len(costs), f)
<1>1. Sums(costs, Len(costs), sum)
  BY SumsExist
<1>2. Total(costs) = sum[Len(costs)]
  BY DEF Total, Sums
<1> HIDE DEF sum
<1>3. QED BY <1>1, <1>2, SumsAdd

\* A cost more, wherever it is, never makes a sum less.
LEMMA TotalGrows ==
  ASSUME NEW long \in Seq(0..MaxInt), NEW short \in Seq(0..MaxInt), NEW i \in 1..Len(long),
         Len(short) = Len(long) - 1,
         \A j \in 1..Len(short) : short[j] = IF j < i THEN long[j] ELSE long[j + 1]
  PROVE  Total(short) <= Total(long)
<1>0. /\ MaxInt \in Nat \ {0} /\ Len(long) \in Nat /\ Len(short) \in Nat /\ i \in Nat
      /\ Len(short) = Len(long) - 1 /\ i \in 1..Len(long)
  BY ComplexityAssumption
<1>1. PICK f : AddsUp(long, f) /\ Total(long) = f[Len(long)]
  BY TotalIs
<1>2. PICK g : AddsUp(short, g) /\ Total(short) = g[Len(short)]
  BY TotalIs
<1> DEFINE other == [j \in 0..Len(short) |-> IF j < i THEN j ELSE j + 1]
           Fails == {j \in 0..Len(short) : ~(g[j] <= f[other[j]])}
<1>3. \A j \in 0..Len(short) : other[j] \in 0..Len(long) /\ f[other[j]] \in 0..MaxInt
  <2>1. \A j \in 0..Len(short) : other[j] \in 0..Len(long)
    BY ONLY <1>0
  <2>2. QED BY <1>1, <2>1 DEF AddsUp
<1>4. ASSUME Fails # {} PROVE FALSE
  <2>1. PICK j \in Fails : \A k \in Fails : j <= k
    <3>1. Fails \subseteq Nat
      BY <1>0
    <3> HIDE DEF Fails
    <3>2. QED BY <1>4, <3>1, Least
  <2> DEFINE place == other[j]
  <2>2. j \in 0..Len(short) /\ ~(g[j] <= f[place])
    BY <2>1
  <2>3. j # 0
    <3>1. g[0] = 0 /\ f[place] \in 0..MaxInt
      BY <1>2, <1>3, <2>2 DEF AddsUp
    <3>2. QED BY <1>0, <2>2, <3>1
  <2>4. j \in 1..Len(short) /\ j - 1 \in 0..Len(short) /\ j - 1 \notin Fails
    <3> HIDE DEF Fails, other, place
    <3>1. j \in 1..Len(short) /\ j - 1 \in 0..Len(short) /\ ~(j <= j - 1)
      BY ONLY <1>0, <2>2, <2>3
    <3>2. QED BY <2>1, <3>1
  <2>5. place = (IF j < i THEN j ELSE j + 1) /\ place \in 1..Len(long)
    <3>1. place = IF j < i THEN j ELSE j + 1
      BY <2>2
    <3> HIDE DEF Fails, other, place
    <3>2. QED BY ONLY <1>0, <2>4, <3>1
  <2>6. short[j] = long[place]
    BY <2>4, <2>5
  <2>7. g[j - 1] <= f[other[j - 1]] /\ other[j - 1] = IF j - 1 < i THEN j - 1 ELSE j
    BY <1>0, <2>4
  <2> HIDE DEF place, other, Fails
  <2>8. /\ g[j] = Capped(g[j - 1], short[j]) /\ g[j - 1] \in 0..MaxInt /\ short[j] \in 0..MaxInt
    BY <1>2, <2>4, AddsUpAt
  <2>9. f[place] = Capped(f[place - 1], long[place]) /\ f[place - 1] \in 0..MaxInt /\ f[place] \in 0..MaxInt
    BY <1>1, <2>5, AddsUpAt
  <2>10. g[j - 1] <= f[place - 1]
    <3>1. CASE j = i
      <4>1. place - 1 = j /\ other[j - 1] = j - 1 /\ j \in 1..Len(long)
        BY ONLY <1>0, <2>4, <2>5, <2>7, <3>1
      <4>2. f[j - 1] <= f[j] /\ f[j] \in 0..MaxInt /\ f[j - 1] \in 0..MaxInt
        BY <1>1, <4>1, AddsUpAt
      <4>3. g[j - 1] <= f[j - 1]
        BY <2>7, <4>1
      <4>4. g[j - 1] <= f[j]
        <5>1. \A x, y, z \in 0..MaxInt : x <= y /\ y <= z => x <= z
          BY <1>0
        <5>2. QED BY <2>8, <4>2, <4>3, <5>1
      <4>5. QED BY <4>1, <4>4
    <3>2. CASE j # i
      <4>1. other[j - 1] = place - 1
        <5>1. other[j - 1] = IF j - 1 < i THEN j - 1 ELSE j
          BY <2>7
        <5>2. j \in Int /\ i \in Int /\ place = IF j < i THEN j ELSE j + 1
          BY <1>0, <2>4, <2>5
        <5>3. QED BY ONLY <3>2, <5>1, <5>2
      <4>2. QED BY <2>7, <4>1
    <3>3. QED BY <3>1, <3>2
  <2>11. Capped(g[j - 1], short[j]) <= Capped(f[place - 1], short[j])
    BY <2>8, <2>9, <2>10, CappedGrows
  <2>12. QED BY <2>2, <2>6, <2>8, <2>9, <2>11
<1>5. g[Len(short)] <= f[other[Len(short)]]
  <2>1. Len(short) \in 0..Len(short)
    BY <1>0
  <2>2. QED BY <1>4, <2>1
<1>6. \/ other[Len(short)] = Len(long)
      \/ i = Len(long) /\ other[Len(short)] = i - 1
  <2>1. other[Len(short)] = IF Len(short) < i THEN Len(short) ELSE Len(short) + 1
    <3>1. Len(short) \in 0..Len(short)
      BY <1>0
    <3>2. QED BY <3>1
  <2> DEFINE last == other[Len(short)]  m == Len(short)  n == Len(long)
  <2>2. last = (IF m < i THEN m ELSE m + 1) /\ m = n - 1
    BY <1>0, <2>1
  <2>3. n \in Int /\ m \in Int /\ i \in Int /\ i <= n
    BY <1>0
  <2> HIDE DEF last, m, n
  <2>4. last = n \/ (i = n /\ last = i - 1)
    BY ONLY <2>2, <2>3
  <2>5. QED BY <2>4 DEF last, n
<1>7. g[Len(short)] \in 0..MaxInt
  BY <1>0, <1>2 DEF AddsUp
<1> HIDE DEF other, Fails
<1>8. CASE other[Len(short)] = Len(long)
  BY <1>1, <1>2, <1>5, <1>8
<1>9. CASE i = Len(long) /\ other[Len(short)] = i - 1
  <2>1. f[i - 1] <= f[i] /\ f[i] \in 0..MaxInt /\ f[i - 1] \in 0..MaxInt
    BY <1>1, AddsUpAt
  <2>2. g[Len(short)] <= f[i - 1]
    BY <1>5, <1>9
  <2>3. g[Len(short)] <= f[i]
    <3>1. \A x, y, z \in 0..MaxInt : x <= y /\ y <= z => x <= z
      BY <1>0
    <3>2. QED BY <1>7, <2>1, <2>2, <3>1
  <2>4. QED BY <1>1, <1>2, <1>9, <2>3
<1>10. QED BY <1>6, <1>8, <1>9

\* The whole is no less than a part.
LEMMA TotalCovers ==
  ASSUME NEW costs \in Seq(0..MaxInt)
  PROVE  Total(costs) \in 0..MaxInt /\ \A i \in 1..Len(costs) : costs[i] <= Total(costs)
<1>0. MaxInt \in Nat \ {0} /\ Len(costs) \in Nat
  BY ComplexityAssumption
<1>1. PICK f : AddsUp(costs, f) /\ Total(costs) = f[Len(costs)]
  BY TotalIs
<1>2. Total(costs) \in 0..MaxInt
  BY <1>0, <1>1 DEF AddsUp
<1>3. ASSUME NEW i \in 1..Len(costs) PROVE costs[i] <= Total(costs)
  <2> DEFINE Fails == {n \in i..Len(costs) : ~(costs[i] <= f[n])}
  <2>0. i \in Nat /\ costs[i] \in 0..MaxInt
    BY <1>0
  <2>1. \A n \in i..Len(costs) : n \in 1..Len(costs)
    BY <1>0, <2>0
  <2>2. ASSUME Fails # {} PROVE FALSE
    <3>1. PICK n \in Fails : \A k \in Fails : n <= k
      <4>1. Fails \subseteq Nat
        BY <1>0, <2>0
      <4> HIDE DEF Fails
      <4>2. QED BY <2>2, <4>1, Least
    <3>2. n \in i..Len(costs) /\ ~(costs[i] <= f[n])
      BY <3>1
    <3>3. f[n - 1] <= f[n] /\ costs[n] <= f[n] /\ f[n - 1] \in 0..MaxInt /\ f[n] \in 0..MaxInt
      BY <1>1, <2>1, <3>2, AddsUpAt
    <3>4. n # i
      BY <3>2, <3>3
    <3>5. n - 1 \in i..Len(costs) /\ n - 1 \notin Fails
      <4>1. n - 1 \in i..Len(costs) /\ ~(n <= n - 1)
        BY <1>0, <2>0, <3>2, <3>4
      <4> HIDE DEF Fails
      <4>2. QED BY <3>1, <4>1
    <3>6. costs[i] <= f[n - 1]
      BY <3>5
    <3> HIDE DEF Fails
    <3>7. QED BY <1>0, <2>0, <3>2, <3>3, <3>6
  <2>3. Len(costs) \in i..Len(costs)
    BY <1>0
  <2>4. QED BY <1>1, <2>2, <2>3
<1>4. QED BY <1>2, <1>3

---------------------------------------------------------------------------
(* The walk down the operation *)

Costs(set, f) == [i \in DOMAIN set |-> SelectionComplexity(set[i], f[set[i].sub])]
\* The costs of a selection set whose parts cost what an int can hold.
LEMMA CostsAre ==
  ASSUME NEW set \in SelectionSets, NEW f,
         \A i \in DOMAIN set : f[set[i].sub] \in 0..MaxInt
  PROVE  /\ Costs(set, f) \in Seq(0..MaxInt) /\ Len(Costs(set, f)) = Len(set)
         /\ DOMAIN set = 1..Len(set) /\ Len(set) \in Nat
         /\ \A i \in 1..Len(set) : f[set[i].sub] <= Costs(set, f)[i]
<1> DEFINE costs == Costs(set, f)
<1>1. set \in Seq(Range(set)) /\ MaxInt \in Nat \ {0}
  BY ComplexityAssumption
<1>2. DOMAIN set = 1..Len(set) /\ Len(set) \in Nat
  BY <1>1
<1>3. ASSUME NEW i \in 1..Len(set)
      PROVE  costs[i] \in 0..MaxInt /\ f[set[i].sub] <= costs[i]
  <2>1. costs[i] = SelectionComplexity(set[i], f[set[i].sub]) /\ f[set[i].sub] \in 0..MaxInt
    BY <1>2 DEF Costs
  <2>2. costs[i] \in f[set[i].sub]..MaxInt
    BY <2>1, SelectionCost
  <2> HIDE DEF costs
  <2>3. QED BY <1>1, <2>1, <2>2
<1>4. costs = [i \in 1..Len(set) |-> costs[i]]
  BY <1>2 DEF Costs
<1> HIDE DEF costs
<1>5. costs \in [1..Len(set) -> 0..MaxInt]
  BY <1>3, <1>4
<1>6. costs \in Seq(0..MaxInt) /\ Len(costs) = Len(set)
  <2> DEFINE ints == 0..MaxInt
  <2> HIDE DEF ints
  <2>1. costs \in [1..Len(set) -> ints]
    BY <1>5 DEF ints
  <2>2. costs \in Seq(ints) /\ Len(costs) = Len(set)
    BY ONLY <1>2, <2>1
  <2>3. QED BY <2>2 DEF ints
<1>7. QED BY <1>2, <1>3, <1>6 DEF costs

\* There is a function that has the costs, all of them ints that are not negative.
LEMMA WalkExists == \E f : f = [set \in SelectionSets |-> Total(Costs(set, f))]
<1> DEFINE V == 0..MaxInt
           B == [set \in SelectionSets |->
                   [f \in [SelectionSets -> V] |-> Total(Costs(set, f))]]
<1>1. ASSUME NEW set \in SelectionSets, NEW i \in DOMAIN set
      PROVE  set[i].sub \in SelectionSets /\ Nesting[set[i].sub] < Nesting[set]
  BY ComplexityAssumption
<1>2. ASSUME NEW set \in SelectionSets, NEW f \in [SelectionSets -> V]
      PROVE  Total(Costs(set, f)) \in V
  <2>1. \A i \in DOMAIN set : f[set[i].sub] \in V
    BY <1>1
  <2>2. Costs(set, f) \in Seq(V)
    BY <2>1, CostsAre
  <2>3. QED BY <2>2, TotalCovers
<1>3. ASSUME NEW set \in SelectionSets, NEW f \in [SelectionSets -> V],
             NEW g \in [SelectionSets -> V],
             \A s \in SelectionSets : Nesting[s] < Nesting[set] => f[s] = g[s]
      PROVE  B[set][f] = B[set][g]
  <2>1. Costs(set, f) = Costs(set, g)
    BY <1>1, <1>3 DEF Costs
  <2> HIDE DEF V
  <2>2. QED BY <2>1
<1>4. 0 \in V
  BY ComplexityAssumption
<1>5. B \in [SelectionSets -> [[SelectionSets -> V] -> V]]
  <2> HIDE DEF V
  <2>1. QED BY <1>2
<1>6. PICK f \in [SelectionSets -> V] : \A set \in SelectionSets : f[set] = B[set][f]
  <2> HIDE DEF B, V
  <2>1. Recurses(B, Nesting, SelectionSets, V)
    BY <1>3, <1>4, <1>5, ComplexityAssumption DEF Recurses, Descends
  <2>2. HasSolution(B, SelectionSets, V)
    BY <2>1, RecursionExists
  <2>3. QED BY <2>2 DEF HasSolution
<1>7. \A set \in SelectionSets : f[set] = Total(Costs(set, f))
  BY <1>6
<1>8. f = [set \in SelectionSets |-> Total(Costs(set, f))]
  <2>1. f = [set \in SelectionSets |-> f[set]]
    BY <1>6
  <2>2. QED BY <1>7, <2>1
<1>9. QED BY <1>8

LEMMA ComplexityIs ==
  \A set \in SelectionSets :
     SelectionSetComplexity[set] = Total(Costs(set, SelectionSetComplexity))
<1> DEFINE walk == CHOOSE f : f = [set \in SelectionSets |-> Total(Costs(set, f))]
<1>1. SelectionSetComplexity = walk
  BY DEF SelectionSetComplexity, Costs
<1>2. walk = [set \in SelectionSets |-> Total(Costs(set, walk))]
  BY WalkExists
<1> HIDE DEF walk
<1>3. \A set \in SelectionSets : walk[set] = Total(Costs(set, walk))
  BY <1>2
<1>4. QED BY <1>1, <1>3

\* So no cost is ever negative, and none wraps.
LEMMA CostsFit == \A set \in SelectionSets : SelectionSetComplexity[set] \in 0..MaxInt
<1> DEFINE f == SelectionSetComplexity
           Wrong == {set \in SelectionSets : f[set] \notin 0..MaxInt}
           Fails == {Nesting[set] : set \in Wrong}
<1>1. ASSUME Fails # {} PROVE FALSE
  <2>1. PICK n \in Fails : \A k \in Fails : n <= k
    <3>1. Fails \subseteq Nat
      BY ComplexityAssumption
    <3> HIDE DEF Fails
    <3>2. QED BY <1>1, <3>1, Least
  <2>2. PICK set \in Wrong : n = Nesting[set]
    BY <2>1
  <2>3. ASSUME NEW i \in DOMAIN set PROVE f[set[i].sub] \in 0..MaxInt
    <3>1. /\ set[i].sub \in SelectionSets /\ Nesting[set[i].sub] < n
          /\ n \in Nat /\ Nesting[set[i].sub] \in Nat
      BY <2>2, ComplexityAssumption
    <3>2. Nesting[set[i].sub] \notin Fails
      <4> HIDE DEF Fails
      <4>1. QED BY <2>1, <3>1
    <3>3. QED BY <3>1, <3>2
  <2>4. set \in SelectionSets /\ f[set] \notin 0..MaxInt
    BY <2>2
  <2> HIDE DEF f
  <2>5. Costs(set, f) \in Seq(0..MaxInt)
    BY <2>3, <2>4, CostsAre
  <2>6. Total(Costs(set, f)) \in 0..MaxInt
    BY <2>5, TotalCovers
  <2>7. QED BY <2>4, <2>6, ComplexityIs DEF f
<1>2. QED BY <1>1

---------------------------------------------------------------------------
(* A selection less *)

LEMMA ShortIs ==
  ASSUME NEW S, NEW list \in Seq(S), NEW k \in 1..Len(list)
  PROVE  /\ RemoveAt(list, k) \in Seq(S) /\ Len(RemoveAt(list, k)) = Len(list) - 1
         /\ \A j \in 1..Len(list) - 1 :
               RemoveAt(list, k)[j] = IF j < k THEN list[j] ELSE list[j + 1]
<1> DEFINE low == SubSeq(list, 1, k - 1)
           high == SubSeq(list, k + 1, Len(list))
           short == RemoveAt(list, k)
<1>1. k \in Nat \ {0} /\ Len(list) \in Nat /\ k <= Len(list)
  OBVIOUS
<1>2. low \in Seq(S) /\ Len(low) = k - 1 /\ \A i \in 1..k - 1 : low[i] = list[i]
  BY <1>1
<1>3. /\ high \in Seq(S) /\ Len(high) = Len(list) - k
      /\ \A i \in 1..Len(list) - k : high[i] = list[k + i]
  BY <1>1
<1>4. short = low \o high
  BY DEF RemoveAt
<1> HIDE DEF low, high, short
<1>5. /\ short \in Seq(S) /\ Len(short) = Len(low) + Len(high)
      /\ \A j \in 1..Len(low) : short[j] = low[j]
      /\ \A j \in 1..Len(high) : short[Len(low) + j] = high[j]
  <2>1. low \in Seq(S) /\ high \in Seq(S)
    BY <1>2, <1>3
  <2>2. QED BY ONLY <1>4, <2>1
<1>6. ASSUME NEW j \in 1..Len(list) - 1
      PROVE  short[j] = IF j < k THEN list[j] ELSE list[j + 1]
  <2>1. CASE j < k
    <3>1. j \in 1..k - 1 /\ j \in 1..Len(low)
      BY <1>1, <1>2, <2>1
    <3>2. QED BY <1>2, <1>5, <2>1, <3>1
  <2>2. CASE ~(j < k)
    <3> DEFINE m == j - (k - 1)
    <3>1. m \in 1..Len(list) - k /\ k + m = j + 1 /\ Len(low) + m = j
      BY <1>1, <1>2, <2>2
    <3> HIDE DEF m
    <3>2. short[Len(low) + m] = high[m] /\ high[m] = list[k + m]
      BY <1>3, <1>5, <3>1
    <3>3. QED BY <2>2, <3>1, <3>2
  <2>3. QED BY <2>1, <2>2
<1>7. Len(short) = Len(list) - 1
  BY <1>1, <1>2, <1>3, <1>5
<1>8. QED BY <1>5, <1>6, <1>7 DEF short

\* CostsGrow for every int, custom cost and operation.
THEOREM CostsAlwaysGrow == ComplexityInit => CostsGrow
<1> SUFFICES ASSUME operation \in SelectionSets PROVE CostsGrow
  BY DEF ComplexityInit
<1> DEFINE f == SelectionSetComplexity  set == operation  long == Costs(set, f)
<1>1. \A s \in SelectionSets : f[s] = Total(Costs(s, f)) /\ f[s] \in 0..MaxInt
  BY ComplexityIs, CostsFit
<1> HIDE DEF f
<1>2. \A s \in SelectionSets : \A i \in DOMAIN s : f[s[i].sub] \in 0..MaxInt
  BY <1>1, ComplexityAssumption
<1>3. /\ long \in Seq(0..MaxInt) /\ Len(long) = Len(set)
      /\ DOMAIN set = 1..Len(set) /\ Len(set) \in Nat
      /\ \A i \in 1..Len(set) : f[set[i].sub] <= long[i]
  BY <1>2, CostsAre
<1>4. MaxInt \in Nat \ {0} /\ f[set] = Total(long) /\ f[set] \in 0..MaxInt
  BY <1>1, ComplexityAssumption
<1>5. ASSUME NEW i \in DOMAIN set PROVE f[set[i].sub] <= f[set]
  <2>1. f[set[i].sub] <= long[i] /\ f[set[i].sub] \in 0..MaxInt /\ long[i] \in 0..MaxInt
    BY <1>2, <1>3, <1>4
  <2>2. long[i] <= Total(long)
    BY <1>3, TotalCovers
  <2>3. QED BY <1>4, <2>1, <2>2
<1>6. ASSUME NEW i \in DOMAIN set PROVE f[RemoveAt(set, i)] <= f[set]
  <2> DEFINE less == RemoveAt(set, i)  short == Costs(less, f)
  <2>1. less \in SelectionSets
    BY ComplexityAssumption
  <2>2. /\ Len(less) = Len(set) - 1
        /\ \A j \in 1..Len(set) - 1 : less[j] = IF j < i THEN set[j] ELSE set[j + 1]
    <3>1. set \in Seq(Range(set)) /\ i \in 1..Len(set)
      BY <1>3, ComplexityAssumption
    <3>2. QED BY <3>1, ShortIs
  <2> HIDE DEF less
  <2>3. short \in Seq(0..MaxInt) /\ Len(short) = Len(less) /\ DOMAIN less = 1..Len(less)
    BY <1>2, <2>1, CostsAre
  <2>4. ASSUME NEW j \in 1..Len(short)
        PROVE  short[j] = IF j < i THEN long[j] ELSE long[j + 1]
    <3>1. short[j] = SelectionComplexity(less[j], f[less[j].sub])
      BY <2>3 DEF Costs
    <3>2. \A m \in 1..Len(set) : long[m] = SelectionComplexity(set[m], f[set[m].sub])
      BY <1>3 DEF Costs
    <3>3. j \in 1..Len(set) - 1 /\ j \in 1..Len(set) /\ j + 1 \in 1..Len(set)
      BY <1>3, <2>2, <2>3
    <3>4. QED BY <2>2, <3>1, <3>2, <3>3
  <2> HIDE DEF short, long
  <2>5. Total(short) <= Total(long)
    <3>1. i \in 1..Len(long) /\ Len(short) = Len(long) - 1
      BY <1>3, <2>2, <2>3
    <3>2. QED BY <1>3, <2>3, <2>4, <3>1, TotalGrows
  <2>6. f[less] = Total(short)
    BY <1>1, <2>1 DEF short
  <2>7. QED BY <1>4, <2>5, <2>6 DEF less
<1>7. QED BY <1>4, <1>5, <1>6 DEF CostsGrow, f

---------------------------------------------------------------------------
(* A whole operation, from its uploads to its responses *)

\* Each part behaves as it does alone, so what is proved of it alone holds.
LEMMA OperationIsAll ==
  OperationSpec => FairSpec /\ UploadsSpec /\ CollectionSpec /\ []ComplexityInit
<1>1. OperationInit => Init /\ UploadsInit /\ CollectionInit /\ ComplexityInit
  BY DEF OperationInit
<1>2. [OperationNext]_operationVars
        => /\ [Next]_vars /\ [UploadsNext]_uploadVars /\ [Descend]_collectionVars
           /\ UNCHANGED operation
  BY DEF OperationNext, operationVars
<1>3. ComplexityInit /\ UNCHANGED operation => ComplexityInit'
  BY DEF ComplexityInit
<1>4. QED BY <1>1, <1>2, <1>3, PTL
          DEF OperationSpec, FairSpec, Spec, UploadsSpec, CollectionSpec

\* All invariants of the parts, in the behaviours that the run of an operation checks,
\* for any extensions, events, files, documents and costs.
THEOREM OperationIsSafe ==
  OperationSpec => [](/\ TypesOK /\ ResponsesNest /\ EachInItsResponse /\ EventsInOrder
                      /\ NothingLeft /\ FilesAreWhole /\ FieldsAsSpecified /\ CostsGrow)
<1>1. TypeOK /\ UploadsTypeOK /\ CollectionTypeOK => TypesOK
  BY DEF TypesOK
<1>2. QED BY <1>1, OperationIsAll, ResponsesTypeCorrect, UploadsTypeCorrect,
             CollectionTypeCorrect, ResponsesAreNested, EachStaysInItsResponse,
             EventsComeInOrder, NothingIsLeft, FilesStayWhole, FieldsAreSpecified,
             CostsAlwaysGrow, PTL DEF FairSpec
=============================================================================
