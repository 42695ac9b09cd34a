---------------------------- MODULE Examples_proofs ----------------------------
(***************************************************************************)
(* Theorems about the two examples that keep shared state.  Chat, for any  *)
(* clients, rooms, users and numbers of posts: what each observer is sent  *)
(* rests on the mutex (MutexInv); what stays in the list of messages,      *)
(* which is changed without it, on who met whom while appending (LogInv).  *)
(* DataLoader, for any callers, keys, batch size and number of calls: one  *)
(* inductive invariant has three parts, the life of a batch (BatchInv),    *)
(* the place a caller holds in one (CallerInv), and what the values on     *)
(* their way to the cache may miss (FreshInv).                             *)
(***************************************************************************)
EXTENDS Examples, FiniteSetTheorems, TLAPS

LEMMA SeqAppended ==
  ASSUME NEW S, NEW s \in Seq(S), NEW e \in S
  PROVE  /\ Append(s, e) \in Seq(S) /\ Len(Append(s, e)) = Len(s) + 1
         /\ Len(s) \in Nat /\ Append(s, e) # s /\ Append(s, e) # <<>>
         /\ \A i \in 1..Len(s) : Append(s, e)[i] = s[i]
         /\ Append(s, e)[Len(s) + 1] = e
OBVIOUS

---------------------------------------------------------------------------
(* Chat *)

\* Who sends holds the mutex, to observers of the room only; who observes stays
\* registered until the clean-up has run; and a feed starts empty.
MutexInv ==
    /\ \A p \in Posters : ppc[p] = "send" <=> mu = p
    /\ \A p \in Posters : pending[p] # {} => ppc[p] = "send"
    /\ \A p \in Posters : pending[p] \subseteq observers[At[p]]
    /\ \A p \in Posters : ppc[p] # "idle" => posted[p] \in 1..MaxPosts[p]
    /\ \A r \in Rooms : \A s \in observers[r] : At[s] = r /\ spc[s] = "open"
    /\ \A s \in Subscribers : spc[s] = "open" => s \in observers[At[s]] \/ cleaner[s] = "gone"
    /\ \A s \in Subscribers : spc[s] # "open" => got[s] = <<>> /\ channel[s] = <<>>
    /\ \A s \in Subscribers : upto[s] <= Len(told[At[s]]) /\ since[s] <= Len(told[At[s]])

---------------------------------------------------------------------------
(* Lemmas about the operators of the model *)

\* Places in a sequence are finitely many, and their ranks count them.
LEMMA Ranks ==
  ASSUME NEW n \in Nat, NEW places, places \subseteq 1..n
  PROVE  /\ IsFiniteSet(places) /\ Cardinality(places) \in Nat
         /\ \A i \in places : Rank(places, i) \in 1..Cardinality(places)
<1>1. IsFiniteSet(1..n)
  BY FS_Interval
<1>2. IsFiniteSet(places) /\ Cardinality(places) \in Nat
  BY <1>1, FS_Subset, FS_CardinalityType
<1>3. ASSUME NEW i \in places PROVE Rank(places, i) \in 1..Cardinality(places)
  <2> DEFINE low == {j \in places : j <= i}
  <2>1. low \subseteq places /\ i \in low
    OBVIOUS
  <2>2. IsFiniteSet(low) /\ Cardinality(low) \in Nat /\ Cardinality(low) <= Cardinality(places)
    BY <1>2, <2>1, FS_Subset, FS_CardinalityType
  <2>3. Cardinality(low) # 0
    BY <2>1, <2>2, FS_EmptySet
  <2>4. QED BY <1>2, <2>2, <2>3 DEF Rank
<1>4. QED BY <1>2, <1>3

\* One more element at the end, chosen or not.
LEMMA FollowsOn ==
  ASSUME NEW S, NEW part \in Seq(S), NEW whole \in Seq(S), NEW e \in S,
         NEW places, places \subseteq 1..Len(whole), Follows(part, whole, places)
  PROVE  /\ Follows(part, Append(whole, e), places)
         /\ Follows(Append(part, e), Append(whole, e), places \cup {Len(whole) + 1})
<1> DEFINE n == Len(whole)  more == places \cup {n + 1}
<1>1. n \in Nat /\ Len(part) \in Nat
  OBVIOUS
<1>2. /\ IsFiniteSet(places) /\ Cardinality(places) \in Nat /\ Len(part) = Cardinality(places)
      /\ \A i \in places : Rank(places, i) \in 1..Cardinality(places)
      /\ \A i \in places : part[Rank(places, i)] = whole[i]
  BY <1>1, Ranks DEF Follows
<1>3. \A i \in places : Append(whole, e)[i] = whole[i]
  BY SeqAppended
<1>4. Follows(part, Append(whole, e), places)
  BY <1>2, <1>3 DEF Follows
<1>5. n + 1 \notin places
  BY <1>1
<1>6. Cardinality(more) = Cardinality(places) + 1
  BY <1>2, <1>5, FS_AddElement
<1>7. ASSUME NEW i \in places PROVE Rank(more, i) = Rank(places, i)
  <2>1. {j \in more : j <= i} = {j \in places : j <= i}
    BY <1>1
  <2>2. QED BY <2>1 DEF Rank
<1>8. Rank(more, n + 1) = Cardinality(places) + 1
  <2>0. \A j \in more : j <= n + 1
    BY <1>1
  <2>1. {j \in more : j <= n + 1} = more
    BY <2>0
  <2>2. QED BY <1>6, <2>1 DEF Rank
<1>9. /\ Len(Append(part, e)) = Cardinality(more)
      /\ \A i \in places : Append(part, e)[Rank(more, i)] = Append(whole, e)[i]
      /\ Append(part, e)[Rank(more, n + 1)] = Append(whole, e)[n + 1]
  <2>1. /\ Len(Append(part, e)) = Len(part) + 1 /\ Append(part, e)[Len(part) + 1] = e
        /\ \A i \in 1..Len(part) : Append(part, e)[i] = part[i]
        /\ Append(whole, e)[n + 1] = e
    BY SeqAppended
  <2>2. Len(Append(part, e)) = Cardinality(more)
    BY <1>2, <1>6, <2>1
  <2>3. Append(part, e)[Rank(more, n + 1)] = Append(whole, e)[n + 1]
    BY <1>2, <1>8, <2>1
  <2>4. ASSUME NEW i \in places PROVE Append(part, e)[Rank(more, i)] = Append(whole, e)[i]
    <3>1. Rank(more, i) = Rank(places, i) /\ Rank(places, i) \in 1..Len(part)
      BY <1>2, <1>7
    <3>2. QED BY <1>2, <1>3, <2>1, <3>1
  <2>5. QED BY <2>2, <2>3, <2>4
<1>10. Follows(Append(part, e), Append(whole, e), more)
  BY <1>9 DEF Follows
<1>11. QED BY <1>4, <1>10

LEMMA AppendConcat ==
  ASSUME NEW S, NEW s \in Seq(S), NEW t \in Seq(S), NEW e \in S
  PROVE  s \o Append(t, e) = Append(s \o t, e)
OBVIOUS

LEMMA HeadMoves ==
  ASSUME NEW S, NEW s \in Seq(S), NEW t \in Seq(S), t # <<>>
  PROVE  Append(s, Head(t)) \o Tail(t) = s \o t
OBVIOUS

\* A message that is posted is one of Messages.
LEMMA MessageType ==
  ASSUME ChatTypeOK, MutexInv, NEW p \in Posters, ppc[p] # "idle"
  PROVE  Message(p) \in Messages
BY DEF MutexInv, Message, Messages

LEMMA Places ==
  /\ \A p \in Posters : At[p] \in Rooms
  /\ \A s \in Subscribers : At[s] \in Rooms
BY ChatAssumption

---------------------------------------------------------------------------
(* Type correctness and the mutex *)

\* At most one poster sends.
LEMMA OneSends ==
  ASSUME MutexInv, NEW p \in Posters, NEW q \in Posters, pending[p] # {}, pending[q] # {}
  PROVE  p = q
BY DEF MutexInv

LEMMA ChatTypeStep ==
  ASSUME ChatTypeOK, MutexInv, [ChatNext]_chatVars
  PROVE  ChatTypeOK'
<1>1. ASSUME NEW p \in Posters, FindRoom(p) PROVE ChatTypeOK'
  BY <1>1, Places DEF FindRoom, ChatTypeOK, subscriber, past
<1>2. ASSUME NEW p \in Posters, Read(p) PROVE ChatTypeOK'
  <2>1. contended' \subseteq Messages
    <3> DEFINE rivals == {q \in Posters \ {p} : Appending(q) /\ At[q] = At[p]}
    <3>1. \A q \in rivals \cup {p} : Message(q) \in Messages
      <4>1. \A q \in rivals \cup {p} : q \in Posters /\ ppc[q] # "idle"
        BY <1>2 DEF Read, Appending
      <4>2. QED BY <4>1, MessageType
    <3>2. contended' \subseteq contended \cup {Message(q) : q \in rivals \cup {p}}
      BY <1>2 DEF Read
    <3>3. QED BY <3>1, <3>2 DEF ChatTypeOK
  <2>2. seen' \in [Posters -> Seq(Messages)]
    BY <1>2, Places DEF Read, ChatTypeOK
  <2>3. QED BY <1>2, <2>1, <2>2 DEF Read, ChatTypeOK, resolver, subscriber
<1>3. ASSUME NEW p \in Posters, Store(p) PROVE ChatTypeOK'
  <2>1. Stored(p) \in Seq(Messages)
    BY <1>3, MessageType, SeqAppended DEF Store, Stored, ChatTypeOK
  <2>2. QED BY <1>3, <2>1, Places DEF Store, ChatTypeOK, subscriber, past
<1>4. ASSUME NEW p \in Posters, Lock(p) PROVE ChatTypeOK'
  <2>1. told' \in [Rooms -> Seq(Messages)]
    <3>1. Append(told[At[p]], Message(p)) \in Seq(Messages)
      BY <1>4, MessageType, SeqAppended, Places DEF Lock, ChatTypeOK
    <3>2. QED BY <1>4, <3>1 DEF Lock, ChatTypeOK
  <2>2. pending' \in [Posters -> SUBSET Subscribers]
    BY <1>4, Places DEF Lock, ChatTypeOK
  <2>3. mu' = p /\ ppc' = [ppc EXCEPT ![p] = "send"]
    BY <1>4 DEF Lock, HoldsWhileSending
  <2>4. QED BY <1>4, <2>1, <2>2, <2>3 DEF Lock, ChatTypeOK, subscriber
<1>5. ASSUME NEW p \in Posters, NEW s \in Subscribers, Send(p, s) PROVE ChatTypeOK'
  <2>1. Len(channel[s]) = 0 /\ channel[s] \in Seq(Messages)
    BY <1>5 DEF Send, Fits, ChatTypeOK
  <2>2. Append(channel[s], Message(p)) \in Seq(Messages) /\ Len(Append(channel[s], Message(p))) = 1
    BY <1>5, <2>1, MessageType, SeqAppended DEF Send
  <2>3. channel' \in [Subscribers -> Seq(Messages)] /\ \A t \in Subscribers : Len(channel'[t]) <= 1
    BY <1>5, <2>2 DEF Send, ChatTypeOK
  <2>4. QED BY <1>5, <2>3 DEF Send, ChatTypeOK, subscriber, past
<1>6. ASSUME NEW p \in Posters, Unlock(p) PROVE ChatTypeOK'
  BY <1>6 DEF Unlock, ChatTypeOK, subscriber, past
<1>7. ASSUME NEW s \in Subscribers, Subscribe(s) PROVE ChatTypeOK'
  BY <1>7, Places DEF Subscribe, ChatTypeOK, poster, past
<1>8. ASSUME NEW s \in Subscribers, Register(s) PROVE ChatTypeOK'
  <2>1. Len(told[At[s]]) \in Nat
    BY Places DEF ChatTypeOK
  <2>2. QED BY <1>8, <2>1, Places DEF Register, ChatTypeOK, poster
<1>9. ASSUME NEW s \in Subscribers, Clean(s) PROVE ChatTypeOK'
  <2>1. Len(told[At[s]]) \in Nat
    BY Places DEF ChatTypeOK
  <2>2. QED BY <1>9, <2>1, Places DEF Clean, Left, ChatTypeOK, poster
<1>10. ASSUME NEW s \in Subscribers, Cancel(s) PROVE ChatTypeOK'
  BY <1>10 DEF Cancel, ChatTypeOK, resolver, poster, past
<1>11. ASSUME NEW s \in Subscribers, Receive(s) PROVE ChatTypeOK'
  <2>1. channel[s] \in Seq(Messages) /\ channel[s] # <<>> /\ Len(channel[s]) <= 1
    BY <1>11 DEF Receive, ChatTypeOK
  <2>2. /\ Tail(channel[s]) \in Seq(Messages) /\ Len(Tail(channel[s])) <= 1
        /\ Head(channel[s]) \in Messages
    BY <2>1
  <2>3. channel' \in [Subscribers -> Seq(Messages)] /\ \A t \in Subscribers : Len(channel'[t]) <= 1
    BY <1>11, <2>2 DEF Receive, ChatTypeOK
  <2>4. got' \in [Subscribers -> Seq(Messages)]
    BY <1>11, <2>2, SeqAppended DEF Receive, ChatTypeOK
  <2>5. QED BY <1>11, <2>3, <2>4 DEF Receive, ChatTypeOK, poster, past
<1>12. CASE UNCHANGED chatVars
  BY <1>12 DEF chatVars, resolver, poster, subscriber, past, ChatTypeOK
<1>13. QED
  BY <1>1, <1>2, <1>3, <1>4, <1>5, <1>6, <1>7, <1>8, <1>9, <1>10, <1>11, <1>12
  DEF ChatNext, PostStep

LEMMA NoneSends ==
  ASSUME MutexInv, mu = Nobody
  PROVE  \A q \in Posters : ppc[q] # "send" /\ pending[q] = {}
<1>1. \A q \in Posters : mu # q
  BY ChatAssumption
<1>2. QED BY <1>1 DEF MutexInv

\* The mutex is held by who sends, and by nobody else.
LEMMA MutexStep ==
  ASSUME ChatTypeOK, MutexInv, [ChatNext]_chatVars
  PROVE  MutexInv'
<1>0. \A s \in Subscribers : Len(told[At[s]]) \in Nat /\ upto[s] \in Nat /\ since[s] \in Nat /\ At[s] \in Rooms
  BY Places DEF ChatTypeOK
<1> USE Places, ChatAssumption DEF ChatTypeOK
<1>1. ASSUME NEW p \in Posters, FindRoom(p) PROVE MutexInv'
  <2>1. /\ posted' = [posted EXCEPT ![p] = @ + 1] /\ posted[p] < MaxPosts[p]
        /\ ppc' = [ppc EXCEPT ![p] = "append"] /\ ppc[p] = "idle" /\ mu = Nobody
        /\ UNCHANGED <<mu, observers, channel, pending, spc, cleaner, got, told, since, upto>>
    BY <1>1 DEF FindRoom, subscriber, past
  <2>2. posted'[p] \in 1..MaxPosts[p]
    BY <2>1
  <2>3. QED BY SMTT(30), <2>1, <2>2 DEF MutexInv
<1>2. ASSUME NEW p \in Posters, Read(p) \/ Store(p) PROVE MutexInv'
  <2>1. /\ \/ ppc' = [ppc EXCEPT ![p] = "store"] /\ ppc[p] = "append"
           \/ ppc' = [ppc EXCEPT ![p] = "lock"] /\ ppc[p] = "store"
        /\ UNCHANGED <<mu, observers, channel, pending, posted, spc, cleaner, got, told, since, upto>>
    <3>1. CASE Read(p)
      BY <3>1 DEF Read, resolver, subscriber
    <3>2. CASE Store(p)
      BY <3>2 DEF Store, subscriber, past
    <3>3. QED BY <1>2, <3>1, <3>2
  <2>2. \A q \in Posters : /\ ppc'[q] = "send" <=> ppc[q] = "send"
                           /\ ppc'[q] # "idle" => ppc[q] # "idle"
    BY <2>1
  <2>3. QED BY SMTT(30), <2>1, <2>2 DEF MutexInv
<1>3. ASSUME NEW p \in Posters, Lock(p) PROVE MutexInv'
  <2>1. /\ ppc[p] = "lock" /\ mu = Nobody /\ mu' = p /\ ppc' = [ppc EXCEPT ![p] = "send"]
        /\ pending' = [pending EXCEPT ![p] = {s \in observers[At[p]] : Wants(s, Author[p])}]
        /\ told' = [told EXCEPT ![At[p]] = Append(@, Message(p))]
        /\ UNCHANGED <<observers, channel, posted, spc, cleaner, got, since, upto>>
    BY <1>3 DEF Lock, HoldsWhileSending, subscriber
  <2>2. \A q \in Posters : ppc[q] # "send"
    BY <2>1 DEF MutexInv
  <2>3. \A q \in Posters : ppc'[q] = "send" <=> mu' = q
    BY <2>1, <2>2
  <2>4. \A q \in Posters : pending'[q] # {} => ppc'[q] = "send"
    BY <2>1 DEF MutexInv
  <2>5. \A q \in Posters : pending'[q] \subseteq observers'[At[q]]
    BY <2>1 DEF MutexInv
  <2>6. \A s \in Subscribers : upto'[s] <= Len(told'[At[s]]) /\ since'[s] <= Len(told'[At[s]])
    <3>1. Len(Append(told[At[p]], Message(p))) = Len(told[At[p]]) + 1
      BY <1>3, MessageType, SeqAppended DEF Lock
    <3>2. \A s \in Subscribers : Len(told'[At[s]]) >= Len(told[At[s]]) /\ Len(told'[At[s]]) \in Nat
      BY <1>0, <2>1, <3>1
    <3>3. QED BY <1>0, <2>1, <3>2 DEF MutexInv
  <2>7. QED BY <2>1, <2>3, <2>4, <2>5, <2>6 DEF MutexInv
<1>4. ASSUME NEW p \in Posters, NEW s \in Subscribers, Send(p, s) PROVE MutexInv'
  <2>1. /\ s \in pending[p]
        /\ channel' = [channel EXCEPT ![s] = Append(@, Message(p))]
        /\ pending' = [pending EXCEPT ![p] = @ \ {s}]
        /\ UNCHANGED <<mu, observers, ppc, posted, spc, cleaner, got, told, since, upto>>
    BY <1>4 DEF Send, subscriber, past
  <2>2. s \in observers[At[p]]
    BY <2>1 DEF MutexInv
  <2>3. spc[s] = "open"
    BY <2>2 DEF MutexInv
  <2>4. /\ \A t \in Subscribers : spc[t] # "open" => channel'[t] = channel[t]
        /\ \A q \in Posters : pending'[q] \subseteq pending[q]
    BY <2>1, <2>3
  <2>5. \A q \in Posters : /\ pending'[q] # {} => ppc'[q] = "send"
                           /\ pending'[q] \subseteq observers'[At[q]]
    <3> TAKE q \in Posters
    <3>1. /\ pending[q] # {} => ppc[q] = "send"
          /\ pending[q] \subseteq observers[At[q]]
      BY DEF MutexInv
    <3>2. pending'[q] \subseteq pending[q] /\ UNCHANGED <<ppc, observers>>
      BY <2>1, <2>4
    <3>3. QED BY <3>1, <3>2
  <2>6. UNCHANGED <<mu, observers, ppc, posted, spc, cleaner, got, told, since, upto>>
    BY <2>1
  <2>7. \A t \in Subscribers : spc'[t] # "open" => got'[t] = <<>> /\ channel'[t] = <<>>
    BY <2>4, <2>6 DEF MutexInv
  <2>8. \A q \in Posters : ppc'[q] = "send" <=> mu' = q
    BY <2>6 DEF MutexInv
  <2>9. \A q \in Posters : ppc'[q] # "idle" => posted'[q] \in 1..MaxPosts[q]
    BY <2>6 DEF MutexInv
  <2>10. /\ \A r \in Rooms : \A t \in observers'[r] : At[t] = r /\ spc'[t] = "open"
         /\ \A t \in Subscribers : spc'[t] = "open" => t \in observers'[At[t]] \/ cleaner'[t] = "gone"
         /\ \A t \in Subscribers : upto'[t] <= Len(told'[At[t]]) /\ since'[t] <= Len(told'[At[t]])
    BY <2>6 DEF MutexInv
  <2>11. QED BY <2>5, <2>7, <2>8, <2>9, <2>10 DEF MutexInv
<1>5. ASSUME NEW p \in Posters, Unlock(p) PROVE MutexInv'
  <2>1. /\ ppc[p] = "send" /\ pending[p] = {} /\ mu' = Nobody /\ ppc' = [ppc EXCEPT ![p] = "idle"]
        /\ UNCHANGED <<observers, channel, pending, posted, spc, cleaner, got, told, since, upto>>
    BY <1>5 DEF Unlock, subscriber, past
  <2>2. \A q \in Posters : ppc'[q] # "send" /\ mu' # q
    BY <2>1 DEF MutexInv
  <2>3. QED BY SMTT(30), <2>1, <2>2 DEF MutexInv
<1>6. ASSUME NEW s \in Subscribers, Subscribe(s) PROVE MutexInv'
  <2>1. /\ spc[s] = "idle" /\ cleaner' = [cleaner EXCEPT ![s] = "waiting"]
        /\ spc' = [spc EXCEPT ![s] = "register"]
        /\ UNCHANGED <<mu, observers, channel, ppc, pending, posted, got, told, since, upto>>
    BY <1>6 DEF Subscribe, poster, past
  <2>2. \A r \in Rooms : s \notin observers[r]
    BY <2>1 DEF MutexInv
  <2>3. QED BY <2>1, <2>2 DEF MutexInv
<1>7. ASSUME NEW s \in Subscribers, Register(s) PROVE MutexInv'
  <2>1. /\ spc[s] = "register" /\ mu = Nobody
        /\ observers' = [observers EXCEPT ![At[s]] = @ \cup {s}]
        /\ spc' = [spc EXCEPT ![s] = "open"]
        /\ since' = [since EXCEPT ![s] = Len(told[At[s]])]
        /\ UNCHANGED <<mu, channel, ppc, pending, posted, cleaner, got, told, upto>>
    BY <1>7 DEF Register, poster
  <2>2. \A q \in Posters : pending[q] = {}
    BY <2>1, NoneSends
  <2>3. \A t \in Subscribers : since'[t] <= Len(told'[At[t]])
    BY <1>0, <2>1 DEF MutexInv
  <2>4. QED BY <2>1, <2>2, <2>3 DEF MutexInv
<1>8. ASSUME NEW s \in Subscribers, Clean(s) PROVE MutexInv'
  <2>1. /\ mu = Nobody
        /\ observers' = [observers EXCEPT ![At[s]] = @ \ {s}]
        /\ cleaner' = [cleaner EXCEPT ![s] = "gone"]
        /\ upto' = [upto EXCEPT ![s] = Len(told[At[s]])]
        /\ UNCHANGED <<mu, channel, ppc, pending, posted, spc, got, told, since>>
    BY <1>8 DEF Clean, Left, poster
  <2>2. \A q \in Posters : pending[q] = {}
    BY <2>1, NoneSends
  <2>3. \A t \in Subscribers : upto'[t] <= Len(told'[At[t]])
    BY <1>0, <2>1 DEF MutexInv
  <2>4. \A t \in Subscribers : spc'[t] = "open" => t \in observers'[At[t]] \/ cleaner'[t] = "gone"
    BY <2>1 DEF MutexInv
  <2>5. QED BY <2>1, <2>2, <2>3, <2>4 DEF MutexInv
<1>9. ASSUME NEW s \in Subscribers, Cancel(s) PROVE MutexInv'
  BY SMTT(30), <1>9 DEF Cancel, MutexInv, resolver, poster, past
<1>10. ASSUME NEW s \in Subscribers, Receive(s) PROVE MutexInv'
  <2>0. UNCHANGED <<mu, observers, ppc, pending, posted, spc, cleaner, told, since, upto>>
    BY <1>10 DEF Receive, poster, past
  <2>1. /\ spc[s] = "open"
        /\ \A t \in Subscribers : t # s => got'[t] = got[t] /\ channel'[t] = channel[t]
    <3>1. /\ spc[s] = "open"
          /\ got' = [got EXCEPT ![s] = Append(@, Head(channel[s]))]
          /\ channel' = [channel EXCEPT ![s] = Tail(@)]
      BY <1>10 DEF Receive
    <3>2. got \in [Subscribers -> Seq(Messages)] /\ channel \in [Subscribers -> Seq(Messages)]
      BY DEF ChatTypeOK
    <3> DEFINE read == Append(got[s], Head(channel[s]))  rest == Tail(channel[s])
    <3>3. got' = [got EXCEPT ![s] = read] /\ channel' = [channel EXCEPT ![s] = rest]
      BY <3>1
    <3> HIDE DEF read, rest
    <3>4. QED BY ONLY <3>1, <3>2, <3>3
  <2>2. \A t \in Subscribers : spc'[t] # "open" => got'[t] = <<>> /\ channel'[t] = <<>>
    BY <2>0, <2>1 DEF MutexInv
  <2>3. /\ \A p \in Posters : ppc'[p] = "send" <=> mu' = p
        /\ \A p \in Posters : pending'[p] # {} => ppc'[p] = "send"
        /\ \A p \in Posters : pending'[p] \subseteq observers'[At[p]]
        /\ \A p \in Posters : ppc'[p] # "idle" => posted'[p] \in 1..MaxPosts[p]
    BY <2>0 DEF MutexInv
  <2>4. /\ \A r \in Rooms : \A t \in observers'[r] : At[t] = r /\ spc'[t] = "open"
        /\ \A t \in Subscribers : spc'[t] = "open" => t \in observers'[At[t]] \/ cleaner'[t] = "gone"
        /\ \A t \in Subscribers : upto'[t] <= Len(told'[At[t]]) /\ since'[t] <= Len(told'[At[t]])
    BY <2>0 DEF MutexInv
  <2>5. QED BY <2>2, <2>3, <2>4 DEF MutexInv
<1>11. CASE UNCHANGED chatVars
  BY <1>11 DEF chatVars, resolver, poster, subscriber, past, MutexInv
<1>12. QED
  BY <1>1, <1>2, <1>3, <1>4, <1>5, <1>6, <1>7, <1>8, <1>9, <1>10, <1>11
  DEF ChatNext, PostStep

LEMMA MutexHolds == ChatSpec => [](ChatTypeOK /\ MutexInv)
<1>1. ChatInit => ChatTypeOK /\ MutexInv
  <2> SUFFICES ASSUME ChatInit PROVE ChatTypeOK /\ MutexInv
    OBVIOUS
  <2>1. ChatTypeOK
    BY DEF ChatInit, ChatTypeOK
  <2>2. \A s \in Subscribers : Len(told[At[s]]) = 0
    BY Places DEF ChatInit
  <2>3. MutexInv
    BY <2>2, Places, ChatAssumption DEF ChatInit, MutexInv
  <2>4. QED BY <2>1, <2>3
<1>2. ChatTypeOK /\ MutexInv /\ [ChatNext]_chatVars => (ChatTypeOK /\ MutexInv)'
  BY ChatTypeStep, MutexStep
<1>3. QED BY <1>1, <1>2, PTL DEF ChatSpec

\* Every variable keeps its type: a message is one of the poster's own, a channel
\* never holds more than the one it has room for.
THEOREM ChatTypeCorrect == ChatSpec => []ChatTypeOK
BY MutexHolds, PTL

---------------------------------------------------------------------------
(* Feeds *)

\* At most one poster sends, so the message on its way to s is its.
LEMMA FeedIs ==
  ChatTypeOK /\ MutexInv =>
    \A s \in Subscribers :
      /\ got[s] \in Seq(Messages) /\ channel[s] \in Seq(Messages) /\ told[At[s]] \in Seq(Messages)
      /\ \A p \in Posters : s \in pending[p] => Feed(s) = Append(got[s] \o channel[s], Message(p))
      /\ (\A p \in Posters : s \notin pending[p]) => Feed(s) = got[s] \o channel[s]
      /\ Owed(s) \subseteq 1..Len(told[At[s]])
      /\ spc[s] = "open" =>
            Owed(s) = {i \in since[s] + 1..(IF s \in observers[At[s]] THEN Len(told[At[s]]) ELSE upto[s]) :
                          Filter[s] \in {Anyone, Author[told[At[s]][i][1]]}}
<1> SUFFICES ASSUME ChatTypeOK, MutexInv, NEW s \in Subscribers
    PROVE  /\ got[s] \in Seq(Messages) /\ channel[s] \in Seq(Messages) /\ told[At[s]] \in Seq(Messages)
           /\ \A p \in Posters : s \in pending[p] => Feed(s) = Append(got[s] \o channel[s], Message(p))
           /\ (\A p \in Posters : s \notin pending[p]) => Feed(s) = got[s] \o channel[s]
           /\ Owed(s) \subseteq 1..Len(told[At[s]])
           /\ spc[s] = "open" =>
                Owed(s) = {i \in since[s] + 1..(IF s \in observers[At[s]] THEN Len(told[At[s]]) ELSE upto[s]) :
                              Filter[s] \in {Anyone, Author[told[At[s]][i][1]]}}
  OBVIOUS
<1>1. /\ got[s] \in Seq(Messages) /\ channel[s] \in Seq(Messages) /\ told[At[s]] \in Seq(Messages)
      /\ Len(told[At[s]]) \in Nat /\ since[s] \in Nat /\ upto[s] \in Nat
      /\ upto[s] <= Len(told[At[s]])
  BY Places DEF ChatTypeOK, MutexInv
<1>2. ASSUME NEW p \in Posters, s \in pending[p]
      PROVE  Feed(s) = Append(got[s] \o channel[s], Message(p))
  <2>1. \A q \in Posters : s \in pending[q] => q = p
    BY <1>2 DEF MutexInv
  <2>2. (CHOOSE q \in Posters : s \in pending[q]) = p
    BY <1>2, <2>1
  <2>3. QED BY <1>2, <2>2 DEF Feed
<1>3. (\A p \in Posters : s \notin pending[p]) => Feed(s) = got[s] \o channel[s]
  BY DEF Feed
<1>4. Owed(s) \subseteq 1..Len(told[At[s]])
  BY <1>1 DEF Owed
<1>5. spc[s] = "open" => (s \in observers[At[s]] \/ cleaner[s] # "gone" <=> s \in observers[At[s]])
  BY DEF MutexInv
<1>6. QED BY <1>1, <1>2, <1>3, <1>4, <1>5 DEF Owed

LEMMA FeedIsThen ==
  (ChatTypeOK /\ MutexInv)' =>
    (\A s \in Subscribers :
      /\ got[s] \in Seq(Messages) /\ channel[s] \in Seq(Messages) /\ told[At[s]] \in Seq(Messages)
      /\ \A p \in Posters : s \in pending[p] => Feed(s) = Append(got[s] \o channel[s], Message(p))
      /\ (\A p \in Posters : s \notin pending[p]) => Feed(s) = got[s] \o channel[s]
      /\ Owed(s) \subseteq 1..Len(told[At[s]])
      /\ spc[s] = "open" =>
            Owed(s) = {i \in since[s] + 1..(IF s \in observers[At[s]] THEN Len(told[At[s]]) ELSE upto[s]) :
                          Filter[s] \in {Anyone, Author[told[At[s]][i][1]]}})'
BY FeedIs, PTL

\* A step that tells the room nothing and neither adds to the feed nor takes from it.
LEMMA FeedKeeps ==
  ASSUME ChatTypeOK, MutexInv, ChatTypeOK', MutexInv', NEW s \in Subscribers,
         spc[s] = "open", spc'[s] = "open", since'[s] = since[s], upto'[s] = upto[s],
         told'[At[s]] = told[At[s]], s \in observers'[At[s]] <=> s \in observers[At[s]],
         got'[s] \o channel'[s] = got[s] \o channel[s],
         \A p \in Posters : s \in pending'[p] <=> s \in pending[p],
         \A p \in Posters : s \in pending[p] => posted'[p] = posted[p]
  PROVE  Owed(s)' = Owed(s) /\ Feed(s)' = Feed(s)
<1>1. Owed(s)' = Owed(s)
  <2> DEFINE room == told[At[s]]
  <2>1. Owed(s) = {i \in since[s] + 1..(IF s \in observers[At[s]] THEN Len(room) ELSE upto[s]) :
                      Filter[s] \in {Anyone, Author[room[i][1]]}}
    BY FeedIs
  <2>2. Owed(s)' = {i \in since'[s] + 1..(IF s \in observers'[At[s]] THEN Len(room') ELSE upto'[s]) :
                      Filter[s] \in {Anyone, Author[room'[i][1]]}}
    BY FeedIsThen
  <2>3. room' = room
    OBVIOUS
  <2> HIDE DEF room
  <2>4. QED BY <2>1, <2>2, <2>3
<1>2. Feed(s)' = Feed(s)
  <2>1. CASE \E p \in Posters : s \in pending[p]
    <3>1. PICK p \in Posters : s \in pending[p]
      BY <2>1
    <3>2. Message(p)' = Message(p)
      BY <3>1 DEF Message
    <3>3. Feed(s) = Append(got[s] \o channel[s], Message(p))
      BY <3>1, FeedIs
    <3>4. Feed(s)' = Append(got'[s] \o channel'[s], Message(p)')
      BY <3>1, FeedIsThen
    <3>5. QED BY <3>2, <3>3, <3>4
  <2>2. CASE \A p \in Posters : s \notin pending[p]
    <3>1. Feed(s) = got[s] \o channel[s]
      BY <2>2, FeedIs
    <3>2. Feed(s)' = got'[s] \o channel'[s]
      BY <2>2, FeedIsThen
    <3>3. QED BY <3>1, <3>2
  <2>3. QED BY <2>1, <2>2
<1>3. QED BY <1>1, <1>2

LEMMA FeedStep ==
  ASSUME ChatTypeOK, MutexInv, ChatTypeOK', MutexInv', FeedsFollowRoom, [ChatNext]_chatVars,
         NEW s \in Subscribers, spc'[s] = "open"
  PROVE  Follows(Feed(s), told[At[s]], Owed(s))'
<1> DEFINE room == told[At[s]]
<1>0. spc[s] = "open" => Follows(Feed(s), room, Owed(s))
  BY DEF FeedsFollowRoom
<1>1. ASSUME spc[s] = "open", UNCHANGED room, Owed(s)' = Owed(s), Feed(s)' = Feed(s)
      PROVE  Follows(Feed(s), room, Owed(s))'
  BY <1>0, <1>1
<1>2. ASSUME UNCHANGED <<observers, channel, pending, got, told, since, upto>>, spc[s] = "open",
             \A p \in Posters : s \in pending[p] => posted'[p] = posted[p]
      PROVE  Follows(Feed(s), room, Owed(s))'
  BY <1>1, <1>2, FeedKeeps
<1>3. ASSUME NEW p \in Posters, FindRoom(p) PROVE Follows(Feed(s), room, Owed(s))'
  <2>1. /\ UNCHANGED <<observers, channel, pending, got, told, since, upto, spc>>
        /\ ppc[p] = "idle" /\ posted' = [posted EXCEPT ![p] = @ + 1]
    BY <1>3 DEF FindRoom, subscriber, past
  <2>2. \A q \in Posters : s \in pending[q] => posted'[q] = posted[q]
    <3>1. posted \in [Posters -> Nat]
      BY DEF ChatTypeOK
    <3>2. s \notin pending[p]
      BY <2>1 DEF MutexInv
    <3>3. QED BY <2>1, <3>1, <3>2
  <2>3. QED BY <1>2, <2>1, <2>2
<1>4. ASSUME NEW p \in Posters, Read(p) \/ Store(p) \/ Unlock(p)
      PROVE  Follows(Feed(s), room, Owed(s))'
  <2>1. UNCHANGED <<observers, channel, pending, got, told, since, upto, spc, posted>>
    BY <1>4 DEF Read, Store, Unlock, resolver, subscriber, past
  <2>2. QED BY <1>2, <2>1
<1>5. ASSUME NEW p \in Posters, Lock(p) PROVE Follows(Feed(s), room, Owed(s))'
  <2>1. /\ mu = Nobody /\ ppc[p] = "lock"
        /\ pending' = [pending EXCEPT ![p] = {t \in observers[At[p]] : Wants(t, Author[p])}]
        /\ told' = [told EXCEPT ![At[p]] = Append(@, Message(p))]
        /\ UNCHANGED <<observers, channel, posted, spc, got, since, upto>>
    BY <1>5 DEF Lock, subscriber
  <2>2. \A q \in Posters : pending[q] = {}
    BY <2>1, NoneSends
  <2>3. \A q \in Posters : s \in pending'[q] <=> q = p /\ s \in observers[At[p]] /\ Wants(s, Author[p])
    BY <2>1, <2>2 DEF ChatTypeOK
  <2>4. spc[s] = "open"
    BY <2>1
  <2>5. CASE At[s] # At[p]
    <3>1. s \notin observers[At[p]]
      BY <2>5, Places DEF MutexInv
    <3>2. UNCHANGED room
      BY <2>1, <2>5, Places DEF ChatTypeOK
    <3>3. \A q \in Posters : s \in pending'[q] <=> s \in pending[q]
      BY <2>2, <2>3, <3>1
    <3>4. QED BY <1>1, <2>1, <2>2, <2>4, <3>2, <3>3, FeedKeeps
  <2>6. CASE At[s] = At[p]
    <3> DEFINE n == Len(room)
    <3>1. room' = Append(room, Message(p)) /\ Message(p) \in Messages /\ room \in Seq(Messages)
      BY <2>1, <2>6, Places, MessageType DEF ChatTypeOK
    <3>2. /\ n \in Nat /\ Len(room') = n + 1 /\ room'[n + 1] = Message(p)
          /\ \A i \in 1..n : room'[i] = room[i]
      BY <3>1, SeqAppended
    <3>3. /\ Feed(s) = got[s] \o channel[s] /\ Feed(s) \in Seq(Messages) /\ Owed(s) \subseteq 1..n
          /\ Owed(s) = {i \in since[s] + 1..(IF s \in observers[At[s]] THEN n ELSE upto[s]) :
                          Filter[s] \in {Anyone, Author[room[i][1]]}}
      <4>1. Feed(s) = got[s] \o channel[s]
        BY <2>2, FeedIs
      <4>2. Feed(s) \in Seq(Messages)
        <5>1. got[s] \in Seq(Messages) /\ channel[s] \in Seq(Messages)
          BY FeedIs
        <5>2. QED BY <4>1, <5>1
      <4>3. QED BY <2>4, <4>1, <4>2, FeedIs
    <3>4. Follows(Feed(s), room, Owed(s))
      BY <1>0, <2>4
    <3>5. /\ Follows(Feed(s), room', Owed(s))
          /\ Follows(Append(Feed(s), Message(p)), room', Owed(s) \cup {n + 1})
      <4> DEFINE feed == Feed(s)  owed == Owed(s)  message == Message(p)
      <4>1. /\ room \in Seq(Messages) /\ message \in Messages /\ feed \in Seq(Messages)
            /\ owed \subseteq 1..Len(room) /\ Follows(feed, room, owed) /\ n = Len(room)
        BY <3>1, <3>3, <3>4
      <4>2. room' = Append(room, message)
        BY <3>1
      <4> HIDE DEF feed, owed, message, n, room
      <4>3. /\ Follows(feed, Append(room, message), owed)
            /\ Follows(Append(feed, message), Append(room, message), owed \cup {n + 1})
        BY <4>1, FollowsOn
      <4>4. QED BY <4>2, <4>3 DEF feed, owed, message
    <3>6. Owed(s)' = {i \in since[s] + 1..(IF s \in observers[At[s]] THEN n + 1 ELSE upto[s]) :
                          Filter[s] \in {Anyone, Author[room'[i][1]]}}
      BY <2>1, <2>4, <3>2, FeedIsThen
    <3>7. /\ since[s] \in Nat /\ upto[s] \in Nat /\ since[s] <= n /\ upto[s] <= n
      BY DEF ChatTypeOK, MutexInv
    <3>8. \A i \in 1..n : Filter[s] \in {Anyone, Author[room'[i][1]]}
                             <=> Filter[s] \in {Anyone, Author[room[i][1]]}
      BY <3>2
    <3>9. Filter[s] \in {Anyone, Author[room'[n + 1][1]]} <=> Wants(s, Author[p])
      BY <3>2 DEF Message, Wants
    <3> HIDE DEF n, room
    <3>10. CASE s \in observers[At[p]] /\ Wants(s, Author[p])
      <4>1. Owed(s)' = Owed(s) \cup {n + 1}
        BY <2>6, <3>2, <3>3, <3>6, <3>7, <3>8, <3>9, <3>10
      <4>2. Feed(s)' = Append(got[s] \o channel[s], Message(p)')
        BY <2>1, <2>3, <3>10, FeedIsThen
      <4>3. Message(p)' = Message(p)
        BY <2>1 DEF Message
      <4>4. QED BY <3>3, <3>5, <4>1, <4>2, <4>3
    <3>11. CASE ~(s \in observers[At[p]] /\ Wants(s, Author[p]))
      <4>1. Owed(s)' = Owed(s)
        <5>1. CASE s \in observers[At[s]]
          BY <2>6, <3>2, <3>3, <3>6, <3>7, <3>8, <3>9, <3>11, <5>1
        <5>2. CASE s \notin observers[At[s]]
          BY <2>6, <3>2, <3>3, <3>6, <3>7, <3>8, <5>2
        <5>3. QED BY <5>1, <5>2
      <4>2. Feed(s)' = got[s] \o channel[s]
        BY <2>1, <2>3, <3>11, FeedIsThen
      <4>3. QED BY <3>3, <3>5, <4>1, <4>2
    <3>12. QED BY <3>10, <3>11
  <2>7. QED BY <2>5, <2>6
<1>6. ASSUME NEW p \in Posters, NEW t \in Subscribers, Send(p, t)
      PROVE  Follows(Feed(s), room, Owed(s))'
  <2>1. /\ t \in pending[p]
        /\ channel' = [channel EXCEPT ![t] = Append(@, Message(p))]
        /\ pending' = [pending EXCEPT ![p] = @ \ {t}]
        /\ UNCHANGED <<observers, posted, spc, got, told, since, upto>>
    BY <1>6 DEF Send, subscriber, past
  <2>2. CASE t # s
    <3>1. \A q \in Posters : s \in pending'[q] <=> s \in pending[q]
      BY <2>1, <2>2 DEF ChatTypeOK
    <3>2. channel'[s] = channel[s]
      BY <2>1, <2>2 DEF ChatTypeOK
    <3>3. QED BY <1>1, <2>1, <3>1, <3>2, FeedKeeps
  <2>3. CASE t = s
    <3>1. \A q \in Posters : s \notin pending'[q]
      <4>1. pending \in [Posters -> SUBSET Subscribers]
        BY DEF ChatTypeOK
      <4>2. \A q \in Posters : s \in pending[q] => q = p
        BY <2>1, <2>3, OneSends
      <4>3. QED BY ONLY <2>1, <2>3, <4>1, <4>2
    <3>2. Feed(s)' = got[s] \o Append(channel[s], Message(p))
      <4>1. Feed(s)' = got'[s] \o channel'[s]
        BY <3>1, FeedIsThen
      <4>2. channel'[s] = Append(channel[s], Message(p))
        BY <2>1, <2>3 DEF ChatTypeOK
      <4>3. QED BY <2>1, <4>1, <4>2
    <3>3. Feed(s) = Append(got[s] \o channel[s], Message(p))
      BY <2>1, <2>3, FeedIs
    <3>4. Feed(s)' = Feed(s)
      <4>1. /\ got[s] \in Seq(Messages) /\ channel[s] \in Seq(Messages) /\ Message(p) \in Messages
        <5>1. ppc[p] # "idle"
          BY <2>1 DEF MutexInv
        <5>2. Message(p) \in Messages
          BY <5>1, MessageType
        <5>3. got[s] \in Seq(Messages) /\ channel[s] \in Seq(Messages)
          BY FeedIs
        <5>4. QED BY <5>2, <5>3
      <4> DEFINE has == got[s]  waits == channel[s]  message == Message(p)
      <4>2. has \in Seq(Messages) /\ waits \in Seq(Messages) /\ message \in Messages
        BY <4>1
      <4> HIDE DEF has, waits, message
      <4>3. has \o Append(waits, message) = Append(has \o waits, message)
        BY <4>2, AppendConcat
      <4>4. QED BY <3>2, <3>3, <4>3 DEF has, waits, message
    <3>5. Owed(s)' = Owed(s)
      <4>1. spc[s] = "open"
        BY <2>1
      <4>2. Owed(s) = {i \in since[s] + 1..(IF s \in observers[At[s]] THEN Len(room) ELSE upto[s]) :
                          Filter[s] \in {Anyone, Author[room[i][1]]}}
        BY <4>1, FeedIs
      <4>3. Owed(s)' = {i \in since'[s] + 1..(IF s \in observers'[At[s]] THEN Len(room') ELSE upto'[s]) :
                          Filter[s] \in {Anyone, Author[room'[i][1]]}}
        BY FeedIsThen
      <4>4. UNCHANGED <<since, observers, upto, room>>
        BY <2>1
      <4> HIDE DEF room
      <4>5. QED BY <4>2, <4>3, <4>4
    <3>6. QED BY <1>1, <2>1, <3>4, <3>5
  <2>4. QED BY <2>2, <2>3
<1>7. ASSUME NEW t \in Subscribers, Subscribe(t) PROVE Follows(Feed(s), room, Owed(s))'
  <2>1. /\ spc[t] = "idle" /\ spc' = [spc EXCEPT ![t] = "register"]
        /\ UNCHANGED <<observers, channel, pending, posted, got, told, since, upto>>
    BY <1>7 DEF Subscribe, poster, past
  <2>2. spc[s] = "open"
    BY <2>1 DEF ChatTypeOK
  <2>3. QED BY <1>2, <2>1, <2>2
<1>8. ASSUME NEW t \in Subscribers, Register(t) PROVE Follows(Feed(s), room, Owed(s))'
  <2>1. /\ spc[t] = "register" /\ mu = Nobody
        /\ observers' = [observers EXCEPT ![At[t]] = @ \cup {t}]
        /\ spc' = [spc EXCEPT ![t] = "open"]
        /\ since' = [since EXCEPT ![t] = Len(told[At[t]])]
        /\ UNCHANGED <<channel, pending, posted, got, told, upto>>
    BY <1>8 DEF Register, poster
  <2>2. CASE t # s
    <3>1. since'[s] = since[s] /\ spc[s] = "open" /\ (s \in observers'[At[s]] <=> s \in observers[At[s]])
      BY SMTT(30), <2>1, <2>2, Places DEF ChatTypeOK
    <3>2. QED BY <1>1, <2>1, <3>1, FeedKeeps
  <2>3. CASE t = s
    <3>1. got[s] = <<>> /\ channel[s] = <<>> /\ \A q \in Posters : pending[q] = {}
      BY <2>1, <2>3, NoneSends DEF MutexInv
    <3>2. Feed(s)' = <<>>
      <4>1. Feed(s)' = got'[s] \o channel'[s]
        BY <2>1, <3>1, FeedIsThen
      <4>2. got'[s] = <<>> /\ channel'[s] = <<>>
        BY <2>1, <3>1
      <4>3. QED BY <4>1, <4>2
    <3>3. Owed(s)' = {}
      <4>1. s \in observers'[At[s]] /\ since'[s] = Len(room) /\ Len(room) \in Nat
        BY <2>1, <2>3, Places DEF ChatTypeOK
      <4>2. since'[s] + 1..Len(room) = {}
        BY <4>1
      <4>3. Owed(s)' \subseteq since'[s] + 1..Len(room')
        BY <4>1, FeedIsThen
      <4>4. QED BY <2>1, <4>2, <4>3
    <3>4. Cardinality({}) = 0 /\ Len(<<>>) = 0
      BY FS_EmptySet
    <3>5. Follows(<<>>, room', {})
      BY <3>4 DEF Follows
    <3>6. QED BY <3>2, <3>3, <3>5
  <2>4. QED BY <2>2, <2>3
<1>9. ASSUME NEW t \in Subscribers, Clean(t) PROVE Follows(Feed(s), room, Owed(s))'
  <2>1. /\ cleaner[t] = "waiting" /\ mu = Nobody
        /\ observers' = [observers EXCEPT ![At[t]] = @ \ {t}]
        /\ upto' = [upto EXCEPT ![t] = Len(told[At[t]])]
        /\ UNCHANGED <<channel, pending, posted, spc, got, told, since>>
    BY <1>9 DEF Clean, Left, poster
  <2>2. CASE t # s
    <3>1. upto'[s] = upto[s] /\ (s \in observers'[At[s]] <=> s \in observers[At[s]])
      BY SMTT(30), <2>1, <2>2, Places DEF ChatTypeOK
    <3>2. QED BY <1>1, <2>1, <3>1, FeedKeeps
  <2>3. CASE t = s
    <3>1. /\ spc[s] = "open" /\ s \in observers[At[s]] /\ s \notin observers'[At[s]]
          /\ upto'[s] = Len(room) /\ \A q \in Posters : pending[q] = {}
      <4>1. spc[s] = "open" /\ s \in observers[At[s]]
        BY <2>1, <2>3 DEF MutexInv
      <4>2. \A q \in Posters : pending[q] = {}
        BY <2>1, NoneSends
      <4>3. s \notin observers'[At[s]] /\ upto'[s] = Len(room)
        BY <2>1, <2>3, Places DEF ChatTypeOK
      <4>4. QED BY <4>1, <4>2, <4>3
    <3>2. Owed(s)' = Owed(s)
      <4>1. Owed(s) = {i \in since[s] + 1..Len(room) : Filter[s] \in {Anyone, Author[room[i][1]]}}
        BY <3>1, FeedIs
      <4>2. Owed(s)' = {i \in since'[s] + 1..upto'[s] : Filter[s] \in {Anyone, Author[room'[i][1]]}}
        BY <3>1, FeedIsThen
      <4>3. UNCHANGED <<since, room>>
        BY <2>1
      <4> HIDE DEF room
      <4>4. QED BY <3>1, <4>1, <4>2, <4>3
    <3>3. Feed(s)' = Feed(s)
      <4>1. Feed(s) = got[s] \o channel[s]
        BY <3>1, FeedIs
      <4>2. Feed(s)' = got'[s] \o channel'[s]
        BY <2>1, <3>1, FeedIsThen
      <4>3. QED BY <2>1, <4>1, <4>2
    <3>4. QED BY <1>1, <2>1, <3>1, <3>2, <3>3
  <2>4. QED BY <2>2, <2>3
<1>10. ASSUME NEW t \in Subscribers, Cancel(t) PROVE Follows(Feed(s), room, Owed(s))'
  BY <1>2, <1>10 DEF Cancel, resolver, poster, past
<1>11. ASSUME NEW t \in Subscribers, Receive(t) PROVE Follows(Feed(s), room, Owed(s))'
  <2>1. /\ channel[t] # <<>>
        /\ got' = [got EXCEPT ![t] = Append(@, Head(channel[t]))]
        /\ channel' = [channel EXCEPT ![t] = Tail(@)]
        /\ UNCHANGED <<observers, pending, posted, spc, told, since, upto>>
    BY <1>11 DEF Receive, poster, past
  <2>2. got'[s] \o channel'[s] = got[s] \o channel[s]
    <3>1. CASE t # s
      BY <2>1, <3>1 DEF ChatTypeOK
    <3>2. CASE t = s
      <4>1. got'[s] = Append(got[s], Head(channel[s])) /\ channel'[s] = Tail(channel[s])
        BY <2>1, <3>2 DEF ChatTypeOK
      <4>2. got[s] \in Seq(Messages) /\ channel[s] \in Seq(Messages) /\ channel[s] # <<>>
        BY <2>1, <3>2, FeedIs
      <4>3. QED BY <4>1, <4>2, HeadMoves
    <3>3. QED BY <3>1, <3>2
  <2>3. QED BY <1>1, <2>1, <2>2, FeedKeeps
<1>12. CASE UNCHANGED chatVars
  BY <1>2, <1>12 DEF chatVars, resolver, poster, subscriber, past
<1>13. QED
  BY <1>3, <1>4, <1>5, <1>6, <1>7, <1>8, <1>9, <1>10, <1>11, <1>12 DEF ChatNext, PostStep

\* Each observer gets what its room is told while it observes, and is for it, in
\* that order and without gaps, whoever posts, comes, goes or is stuck
\* (resolvers.go:87-93, 134-149): observers change and messages are told under
\* the mutex, which the poster keeps until all are sent.
THEOREM FeedsFollow == ChatSpec => []FeedsFollowRoom
<1>1. ChatInit => FeedsFollowRoom
  BY DEF ChatInit, FeedsFollowRoom
<1>2. ChatTypeOK /\ MutexInv /\ ChatTypeOK' /\ MutexInv' /\ FeedsFollowRoom /\ [ChatNext]_chatVars
        => FeedsFollowRoom'
  BY FeedStep DEF FeedsFollowRoom
<1>3. QED BY <1>1, <1>2, MutexHolds, PTL DEF ChatSpec

---------------------------------------------------------------------------
(* The list of messages *)

\* The poster of m has written it back.
IsStored(m) ==
    /\ m[1] \in Posters /\ m[2] \in 1..posted[m[1]]
    /\ m[2] = posted[m[1]] => ppc[m[1]] \notin {"append", "store"}

Has(list, m) == \E j \in DOMAIN list : list[j] = m

\* Has the messages of room r that met no other.
Keeps(list, r) ==
    \A m \in Posters \X Nat : At[m[1]] = r /\ m \notin contended /\ IsStored(m) => Has(list, m)

\* Nothing twice, and nothing that is not written back yet.
Orderly(list) ==
    /\ IsInjective(list)
    /\ \A j \in DOMAIN list : IsStored(list[j])

\* A slice that a poster has read and not written back yet is as good as the list:
\* it misses only what is written by someone who met the poster.
LogInv ==
    /\ \A r \in Rooms : Orderly(log[r]) /\ Keeps(log[r], r)
    /\ \A p \in Posters : Appending(p) => Orderly(seen[p]) /\ Keeps(seen[p], At[p])
    /\ \A p \in Posters, q \in Posters :
          Appending(p) /\ Appending(q) /\ p # q /\ At[p] = At[q] => Message(p) \in contended

LEMMA HasMore ==
  ASSUME NEW S, NEW list \in Seq(S), NEW e \in S
  PROVE  /\ Has(Append(list, e), e)
         /\ \A m : Has(list, m) => Has(Append(list, e), m)
         /\ IsInjective(list) /\ ~Has(list, e) => IsInjective(Append(list, e))
<1>1. /\ Len(list) \in Nat /\ DOMAIN list = 1..Len(list)
      /\ DOMAIN Append(list, e) = 1..(Len(list) + 1)
      /\ \A i \in 1..Len(list) : Append(list, e)[i] = list[i]
      /\ Append(list, e)[Len(list) + 1] = e
  OBVIOUS
<1>2. Has(Append(list, e), e)
  BY <1>1 DEF Has
<1>3. ASSUME NEW m, Has(list, m) PROVE Has(Append(list, e), m)
  <2>1. PICK j \in 1..Len(list) : list[j] = m
    BY <1>1, <1>3 DEF Has
  <2>2. j \in 1..(Len(list) + 1) /\ Append(list, e)[j] = m
    BY <1>1, <2>1
  <2>3. QED BY <1>1, <2>2 DEF Has
<1>4. ASSUME IsInjective(list), ~Has(list, e) PROVE IsInjective(Append(list, e))
  <2> SUFFICES ASSUME NEW a \in 1..(Len(list) + 1), NEW b \in 1..(Len(list) + 1),
                      Append(list, e)[a] = Append(list, e)[b]
               PROVE  a = b
    BY <1>1 DEF IsInjective
  <2>1. \A i \in 1..Len(list) : list[i] # e
    BY <1>1, <1>4 DEF Has
  <2>2. \A i \in 1..Len(list), j \in 1..Len(list) : list[i] = list[j] => i = j
    BY <1>1, <1>4 DEF IsInjective
  <2>3. QED BY <1>1, <2>1, <2>2
<1>5. QED BY <1>2, <1>3, <1>4

\* Steps that store nothing leave the list and what is read of it as they are.
LEMMA LogKeeps ==
  ASSUME LogInv, \A m : IsStored(m)' <=> IsStored(m), UNCHANGED <<log, seen, contended>>,
         \A p \in Posters : Appending(p)' <=> Appending(p),
         \A p \in Posters : Appending(p) => posted'[p] = posted[p]
  PROVE  LogInv'
<1>1. \A list, r : Orderly(list) => Orderly(list)'
  BY DEF Orderly
<1>2. \A list, r : Keeps(list, r) => Keeps(list, r)'
  BY DEF Keeps
<1>3. /\ \A r \in Rooms : Orderly(log[r])' /\ Keeps(log[r], r)'
      /\ \A p \in Posters : Appending(p)' => Orderly(seen[p])' /\ Keeps(seen[p], At[p])'
  BY <1>1, <1>2 DEF LogInv
<1>4. \A p \in Posters : Appending(p) => Message(p)' = Message(p)
  BY DEF Message
<1>5. \A p \in Posters, q \in Posters :
        Appending(p)' /\ Appending(q)' /\ p # q /\ At[p] = At[q] => Message(p)' \in contended'
  BY <1>4 DEF LogInv
<1>6. QED BY <1>3, <1>5 DEF LogInv

LEMMA LogStep ==
  ASSUME ChatTypeOK, MutexInv, LogInv, [ChatNext]_chatVars
  PROVE  LogInv'
<1>1. ASSUME NEW p \in Posters, FindRoom(p) PROVE LogInv'
  <2>1. /\ ppc[p] = "idle" /\ posted' = [posted EXCEPT ![p] = @ + 1]
        /\ ppc' = [ppc EXCEPT ![p] = "append"] /\ UNCHANGED <<log, seen, contended>>
    BY <1>1 DEF FindRoom, past
  <2>2. /\ posted \in [Posters -> Nat] /\ DOMAIN ppc = Posters
    BY DEF ChatTypeOK
  <2>3. /\ ppc'[p] = "append" /\ posted'[p] = posted[p] + 1
        /\ \A q \in Posters : q # p => ppc'[q] = ppc[q] /\ posted'[q] = posted[q]
    BY <2>1, <2>2
  <2>4. ASSUME NEW m PROVE IsStored(m)' <=> IsStored(m)
    <3>1. CASE m[1] # p
      BY <2>3, <3>1 DEF IsStored
    <3>2. CASE m[1] = p
      BY <2>1, <2>2, <2>3, <3>2 DEF IsStored
    <3>3. QED BY <3>1, <3>2
  <2>5. \A q \in Posters : /\ Appending(q)' <=> Appending(q)
                           /\ Appending(q) => posted'[q] = posted[q]
    BY <2>1, <2>3 DEF Appending
  <2>6. QED BY <2>1, <2>4, <2>5, LogKeeps
<1>2. ASSUME NEW p \in Posters, Read(p) PROVE LogInv'
  <2> DEFINE rivals == {q \in Posters \ {p} : Appending(q) /\ At[q] = At[p]}
  <2>1. /\ ppc[p] = "append" /\ ppc' = [ppc EXCEPT ![p] = "store"]
        /\ seen' = [seen EXCEPT ![p] = log[At[p]]] /\ UNCHANGED <<log, posted>>
        /\ contended' = IF rivals = {} THEN contended
                        ELSE contended \cup {Message(q) : q \in rivals \cup {p}}
    BY <1>2 DEF Read, resolver
  <2>2. DOMAIN ppc = Posters /\ DOMAIN seen = Posters
    BY DEF ChatTypeOK
  <2>3. /\ ppc'[p] = "store" /\ seen'[p] = log[At[p]]
        /\ \A q \in Posters : q # p => ppc'[q] = ppc[q] /\ seen'[q] = seen[q]
    BY <2>1, <2>2
  <2>4. contended \subseteq contended'
    BY <2>1
  <2>5. ASSUME NEW m PROVE IsStored(m)' <=> IsStored(m)
    BY <2>1, <2>3 DEF IsStored
  <2>6. \A list : Orderly(list) => Orderly(list)'
    BY <2>5 DEF Orderly
  <2>7. \A list, r : Keeps(list, r) => Keeps(list, r)'
    BY <2>4, <2>5 DEF Keeps
  <2>8. \A r \in Rooms : Orderly(log[r])' /\ Keeps(log[r], r)'
    BY <2>1, <2>6, <2>7 DEF LogInv
  <2>9. ASSUME NEW q \in Posters, Appending(q)'
        PROVE  Orderly(seen[q])' /\ Keeps(seen[q], At[q])'
    <3>1. CASE q = p
      BY <2>1, <2>3, <2>8, <3>1, Places
    <3>2. CASE q # p
      <4>1. Appending(q) /\ seen'[q] = seen[q]
        BY <2>3, <2>9, <3>2 DEF Appending
      <4>2. Orderly(seen[q]) /\ Keeps(seen[q], At[q])
        BY <4>1 DEF LogInv
      <4>3. QED BY <2>6, <2>7, <4>1, <4>2
    <3>3. QED BY <3>1, <3>2
  <2>10. ASSUME NEW q \in Posters, NEW o \in Posters, Appending(q)', Appending(o)', q # o, At[q] = At[o]
         PROVE  Message(q)' \in contended'
    <3>1. Message(q)' = Message(q)
      BY <2>1 DEF Message
    <3>2. CASE q # p /\ o # p
      <4>1. Appending(q) /\ Appending(o)
        BY <2>3, <2>10, <3>2 DEF Appending
      <4>2. QED BY <2>4, <2>10, <3>1, <4>1 DEF LogInv
    <3>3. CASE q = p
      <4>1. o \in rivals
        BY <2>3, <2>10, <3>3 DEF Appending
      <4>2. QED BY <2>1, <3>1, <3>3, <4>1
    <3>4. CASE o = p
      <4>1. q \in rivals
        BY <2>3, <2>10, <3>4 DEF Appending
      <4>2. QED BY <2>1, <3>1, <4>1
    <3>5. QED BY <3>2, <3>3, <3>4
  <2>11. QED BY <2>8, <2>9, <2>10 DEF LogInv
<1>3. ASSUME NEW p \in Posters, Store(p) PROVE LogInv'
  <2> DEFINE e == Message(p)
  <2>1. /\ ppc[p] = "store" /\ ppc' = [ppc EXCEPT ![p] = "lock"]
        /\ log' = [log EXCEPT ![At[p]] = Append(seen[p], e)]
        /\ seen' = [seen EXCEPT ![p] = <<>>] /\ UNCHANGED <<contended, posted>>
    BY <1>3 DEF Store, Stored, past
  <2>2. /\ DOMAIN ppc = Posters /\ DOMAIN seen = Posters /\ DOMAIN log = Rooms
        /\ seen[p] \in Seq(Messages) /\ posted[p] \in Nat
    BY DEF ChatTypeOK
  <2>3. /\ e \in Messages /\ e[1] = p /\ e[2] = posted[p] /\ posted[p] \in 1..posted[p]
    <3>1. posted[p] \in 1..MaxPosts[p] /\ MaxPosts[p] \in Nat
      BY <2>1, ChatAssumption DEF MutexInv
    <3>2. QED BY <2>1, <2>2, <3>1, MessageType DEF Message
  <2>4. /\ ppc'[p] = "lock"
        /\ \A q \in Posters : q # p => ppc'[q] = ppc[q] /\ seen'[q] = seen[q]
        /\ log'[At[p]] = Append(seen[p], e)
        /\ \A r \in Rooms : r # At[p] => log'[r] = log[r]
    BY <2>1, <2>2, Places
  <2>5. ASSUME NEW m PROVE IsStored(m) => IsStored(m)'
    BY <2>1, <2>4 DEF IsStored
  <2>6. ~IsStored(e) /\ IsStored(e)'
    <3>1. e' = e
      BY <2>1 DEF Message
    <3>2. ~IsStored(e)
      BY <2>1, <2>3 DEF IsStored
    <3> HIDE DEF e
    <3>3. IsStored(e)'
      BY <2>1, <2>3, <2>4, <3>1 DEF IsStored
    <3>4. QED BY <3>2, <3>3
  <2>7. ASSUME NEW m \in Posters \X Nat, IsStored(m)' PROVE IsStored(m) \/ m = e
    <3>1. CASE m[1] # p \/ m[2] # posted[p]
      BY <2>1, <2>4, <2>7, <3>1 DEF IsStored
    <3>2. CASE m[1] = p /\ m[2] = posted[p]
      <4>1. m = <<m[1], m[2]>>
        OBVIOUS
      <4>2. QED BY <3>2, <4>1 DEF Message
    <3>3. QED BY <3>1, <3>2
  <2>8. \A list : Orderly(list) => Orderly(list)'
    BY <2>5 DEF Orderly
  <2>9. Appending(p) /\ Orderly(seen[p]) /\ Keeps(seen[p], At[p])
    BY <2>1 DEF LogInv, Appending
  <2>10. ASSUME NEW r \in Rooms PROVE Orderly(log[r])' /\ Keeps(log[r], r)'
    <3>1. CASE r # At[p]
      <4>1. Orderly(log[r])'
        BY <2>4, <2>8, <3>1 DEF LogInv
      <4>2. ASSUME NEW m \in Posters \X Nat, At[m[1]] = r, m \notin contended, IsStored(m)'
            PROVE  Has(log'[r], m)
        <5>1. IsStored(m)
          BY <2>3, <2>7, <3>1, <4>2
        <5>2. QED BY <2>4, <3>1, <4>2, <5>1 DEF LogInv, Keeps
      <4>3. QED BY <2>1, <4>1, <4>2 DEF Keeps
    <3>2. CASE r = At[p]
      <4> DEFINE list == seen[p]
      <4>1. log'[r] = Append(list, e)
        BY <2>4, <3>2
      <4>2. ~Has(list, e)
        BY <2>6, <2>9 DEF Orderly, Has
      <4>3. list \in Seq(Messages) /\ e \in Messages /\ IsInjective(list)
        BY <2>2, <2>3, <2>9 DEF Orderly
      <4> HIDE DEF list, e
      <4>4. /\ Has(Append(list, e), e) /\ IsInjective(Append(list, e))
            /\ \A m : Has(list, m) => Has(Append(list, e), m)
        BY <4>2, <4>3, HasMore
      <4>5. ASSUME NEW j \in DOMAIN log'[r] PROVE IsStored(log[r][j])'
        <5>1. /\ j \in 1..Len(list) + 1 /\ Append(list, e)[Len(list) + 1] = e /\ Len(list) \in Nat
              /\ DOMAIN list = 1..Len(list) /\ \A i \in 1..Len(list) : Append(list, e)[i] = list[i]
          BY <4>1, <4>3, <4>5
        <5>2. CASE j = Len(list) + 1
          <6>1. log'[r][j] = e
            BY <4>1, <5>1, <5>2
          <6>2. IsStored(e)'
            BY <2>6 DEF e
          <6>3. QED BY <2>1, <6>1, <6>2 DEF IsStored, e, Message
        <5>3. CASE j # Len(list) + 1
          <6>1. j \in DOMAIN list /\ log'[r][j] = list[j]
            BY <4>1, <5>1, <5>3
          <6>2. IsStored(list[j])
            BY <2>9, <6>1 DEF Orderly, list
          <6>3. QED BY <2>1, <2>4, <6>1, <6>2 DEF IsStored
        <5>4. QED BY <5>2, <5>3
      <4>6. Orderly(log[r])'
        BY <4>1, <4>4, <4>5 DEF Orderly
      <4>7. ASSUME NEW m \in Posters \X Nat, At[m[1]] = r, m \notin contended, IsStored(m)'
            PROVE  Has(log'[r], m)
        <5>1. CASE m = e
          BY <4>1, <4>4, <5>1
        <5>2. CASE IsStored(m)
          <6>1. Has(list, m)
            BY <2>9, <3>2, <4>7, <5>2 DEF Keeps, list
          <6>2. QED BY <4>1, <4>4, <6>1
        <5>3. QED BY <2>7, <4>7, <5>1, <5>2 DEF e
      <4>8. QED BY <2>1, <4>6, <4>7 DEF Keeps
    <3>3. QED BY <3>1, <3>2
  <2>11. \A q \in Posters : Appending(q)' => q # p /\ Appending(q)
    BY <2>4 DEF Appending
  <2>12. ASSUME NEW q \in Posters, Appending(q)'
         PROVE  Orderly(seen[q])' /\ Keeps(seen[q], At[q])'
    <3>1. /\ q # p /\ Appending(q) /\ seen'[q] = seen[q]
          /\ Orderly(seen[q]) /\ Keeps(seen[q], At[q])
      BY <2>4, <2>11, <2>12 DEF LogInv
    <3>2. ASSUME NEW m \in Posters \X Nat, At[m[1]] = At[q], m \notin contended, IsStored(m)'
          PROVE  Has(seen[q], m)
      <4>1. m # e
        <5>1. At[p] = At[q] => e \in contended
          BY <2>9, <3>1 DEF LogInv
        <5>2. QED BY <2>3, <3>2, <5>1
      <4>2. QED BY <2>7, <3>1, <3>2, <4>1 DEF Keeps
    <3>3. Orderly(seen[q])'
      BY <2>8, <3>1
    <3>4. QED BY <2>1, <3>1, <3>2, <3>3 DEF Keeps
  <2>13. \A q \in Posters, o \in Posters :
            Appending(q)' /\ Appending(o)' /\ q # o /\ At[q] = At[o] => Message(q)' \in contended'
    BY <2>1, <2>11 DEF LogInv, Message
  <2>14. QED BY <2>10, <2>12, <2>13 DEF LogInv
<1>4. ASSUME NEW p \in Posters, Lock(p) \/ Unlock(p) PROVE LogInv'
  <2>1. /\ \/ ppc[p] = "lock" /\ ppc' = [ppc EXCEPT ![p] = "send"]
           \/ ppc[p] = "send" /\ ppc' = [ppc EXCEPT ![p] = "idle"]
        /\ UNCHANGED <<log, seen, contended, posted>>
    BY <1>4 DEF Lock, Unlock, past
  <2>2. \A q \in Posters : /\ ppc'[q] = "append" <=> ppc[q] = "append"
                           /\ ppc'[q] = "store" <=> ppc[q] = "store"
    BY <2>1 DEF ChatTypeOK
  <2>3. ASSUME NEW m PROVE IsStored(m)' <=> IsStored(m)
    BY <2>1, <2>2 DEF IsStored
  <2>4. \A q \in Posters : Appending(q)' <=> Appending(q)
    BY <2>2 DEF Appending
  <2>5. QED BY <2>1, <2>3, <2>4, LogKeeps
<1>5. ASSUME UNCHANGED <<log, seen, contended, posted, ppc>> PROVE LogInv'
  <2>1. ASSUME NEW m PROVE IsStored(m)' <=> IsStored(m)
    BY <1>5 DEF IsStored
  <2>2. \A q \in Posters : Appending(q)' <=> Appending(q)
    BY <1>5 DEF Appending
  <2>3. QED BY <1>5, <2>1, <2>2, LogKeeps
<1>6. ASSUME NEW p \in Posters, NEW s \in Subscribers, Send(p, s) PROVE LogInv'
  BY <1>5, <1>6 DEF Send, past
<1>7. ASSUME NEW s \in Subscribers, Subscribe(s) \/ Register(s) \/ Clean(s) \/ Cancel(s) \/ Receive(s)
      PROVE  LogInv'
  <2>1. UNCHANGED <<log, seen, contended, posted, ppc>>
    BY <1>7 DEF Subscribe, Register, Clean, Cancel, Receive, resolver, poster, past
  <2>2. QED BY <1>5, <2>1
<1>8. CASE UNCHANGED chatVars
  BY <1>5, <1>8 DEF chatVars, resolver, poster, past
<1>9. QED
  BY <1>1, <1>2, <1>3, <1>4, <1>6, <1>7, <1>8 DEF ChatNext, PostStep

\* The append without the mutex loses messages only to a race: one whose append met
\* no other stays, whatever is appended later, and none is there twice
\* (resolvers.go:86).
THEOREM UnracedStay == ChatSpec => []UnracedPostsStay
<1>1. ChatInit => LogInv
  <2> SUFFICES ASSUME ChatInit PROVE LogInv
    OBVIOUS
  <2>1. /\ \A p \in Posters : ~Appending(p) /\ posted[p] = 0
        /\ \A r \in Rooms : log[r] = <<>>
    BY DEF ChatInit, Appending
  <2>2. \A m : ~IsStored(m)
    BY <2>1 DEF IsStored
  <2>3. Orderly(<<>>)
    BY DEF Orderly, IsInjective
  <2>4. QED BY <2>1, <2>2, <2>3 DEF LogInv, Keeps
<1>2. ChatTypeOK /\ MutexInv /\ LogInv /\ [ChatNext]_chatVars => LogInv'
  BY LogStep
<1>3. ChatTypeOK /\ LogInv => UnracedPostsStay
  <2> SUFFICES ASSUME ChatTypeOK, LogInv, NEW r \in Rooms
               PROVE  /\ IsInjective(log[r])
                      /\ \A p \in Posters : \A i \in 1..posted[p] :
                            /\ At[p] = r /\ <<p, i>> \notin contended
                            /\ i = posted[p] => ppc[p] \notin {"append", "store"}
                            => \E j \in DOMAIN log[r] : log[r][j] = <<p, i>>
    BY DEF UnracedPostsStay
  <2>1. IsInjective(log[r]) /\ Keeps(log[r], r)
    BY DEF LogInv, Orderly
  <2>2. ASSUME NEW p \in Posters, NEW i \in 1..posted[p], At[p] = r, <<p, i>> \notin contended,
               i = posted[p] => ppc[p] \notin {"append", "store"}
        PROVE  Has(log[r], <<p, i>>)
    <3>1. <<p, i>> \in Posters \X Nat
      BY DEF ChatTypeOK
    <3>2. IsStored(<<p, i>>)
      BY <2>2 DEF IsStored
    <3>3. QED BY <2>1, <2>2, <3>1, <3>2 DEF Keeps
  <2>3. QED BY <2>1, <2>2 DEF Has
<1>4. QED BY <1>1, <1>2, <1>3, MutexHolds, PTL DEF ChatSpec

---------------------------------------------------------------------------
(* DataLoader *)

\* Until the batch is full or its timer has fired, it is the current one and takes
\* keys; then either the timer or the end fetches it, and only that one.
BatchInv(b) ==
    LET it == batches[b] IN
    /\ it.keys # <<>> /\ IsInjective(it.keys)
    /\ MaxBatch # 0 => Len(it.keys) <= MaxBatch
    /\ b = batch <=> it.timer = "asleep" /\ ~it.closing
    /\ b = batch => ~Full(it.keys)
    /\ it.ender = "none" <=> ~it.closing
    /\ it.closing => it.timer # "ending"
    /\ it.fetched = <<>> => ~it.done /\ it.data = <<>>
    /\ it.fetched # <<>> =>
          /\ it.fetched = <<it.keys>> /\ Len(it.data) = Len(it.keys) /\ b # batch
          /\ \A i \in 1..Len(it.keys) : it.data[i][1] = it.keys[i]
    /\ it.done => IF it.closing THEN it.ender = "gone" ELSE it.timer = "gone"
BatchesInv == \A b \in 1..Len(batches) : BatchInv(b)

\* A caller that waits, or has been given its result, has the place of its key.
Placed(c) ==
    LET it == callers[c] IN
    /\ it.at \in {"thunk", "failed", "set"} => it.b \in 1..Len(batches)
    /\ it.at \in {"thunk", "failed"} =>
          it.pos \in 1..Len(batches[it.b].keys) /\ batches[it.b].keys[it.pos] = it.key
    /\ it.at = "set" => batches[it.b].fetched # <<>> /\ it.value[1] = it.key
    /\ it.at = "prime" => it.value[1] = it.key
CallerInv == \A c \in Callers : Placed(c)

LoaderInv ==
    /\ LoaderTypeOK /\ BatchesInv /\ CallerInv
    /\ \A k \in DOMAIN cache : cache[k][1] = k

\* What a step may do to batches that are there.
Grow ==
    /\ Len(batches) <= Len(batches')
    /\ \A b \in 1..Len(batches) : LET old == batches[b]  new == batches'[b] IN
          /\ Len(old.keys) <= Len(new.keys)
          /\ \A i \in 1..Len(old.keys) : new.keys[i] = old.keys[i]
          /\ old.fetched # <<>> => new.fetched = old.fetched /\ new.data = old.data

\* What all steps but Fetch do not change.
SameFetched == \A b \in 1..Len(batches) : batches'[b].fetched = batches[b].fetched

---------------------------------------------------------------------------
(* Lemmas about the operators of the model *)

\* The keys of a batch after a call for k: the same but for k at the end, if k is new.
KeysWith(keys, k) == IF Contains(keys, k) THEN keys ELSE Append(keys, k)

LEMMA KeysWithIs ==
  ASSUME NEW keys \in Seq(Keys), IsInjective(keys), NEW k \in Keys
  PROVE  LET new == KeysWith(keys, k) IN
         /\ new \in Seq(Keys) /\ new # <<>> /\ IsInjective(new)
         /\ Len(keys) \in Nat /\ Len(new) \in Nat
         /\ new = keys \/ (new # keys /\ Len(new) = Len(keys) + 1)
         /\ \A i \in 1..Len(keys) : new[i] = keys[i]
         /\ Place(new, k) \in 1..Len(new) /\ new[Place(new, k)] = k
<1> DEFINE new == KeysWith(keys, k)
<1>0. DOMAIN keys = 1..Len(keys) /\ Len(keys) \in Nat
  OBVIOUS
<1>1. CASE Contains(keys, k)
  <2>1. PICK i \in 1..Len(keys) : keys[i] = k
    BY <1>1 DEF Contains
  <2>2. Place(keys, k) \in 1..Len(keys) /\ keys[Place(keys, k)] = k
    BY <1>0, <2>1 DEF Place
  <2>3. keys # <<>>
    OBVIOUS
  <2>4. new = keys
    BY <1>1 DEF KeysWith
  <2> HIDE DEF new
  <2>5. QED BY <1>0, <2>2, <2>3, <2>4 DEF new
<1>2. CASE ~Contains(keys, k)
  <2>1. new = Append(keys, k)
    BY <1>2 DEF KeysWith
  <2> HIDE DEF new
  <2>2. /\ new \in Seq(Keys) /\ new # <<>> /\ new # keys
        /\ Len(new) = Len(keys) + 1 /\ DOMAIN new = 1..Len(new)
        /\ \A i \in 1..Len(keys) : new[i] = keys[i]
        /\ new[Len(keys) + 1] = k
    BY <2>1, SeqAppended
  <2>3. Place(new, k) \in DOMAIN new /\ new[Place(new, k)] = k
    BY <1>0, <2>2 DEF Place
  <2>4. \A i \in 1..Len(keys) : keys[i] # k
    BY <1>2 DEF Contains
  <2>5. IsInjective(new)
    BY <1>0, <2>2, <2>4 DEF IsInjective
  <2>6. QED BY <1>0, <2>2, <2>3, <2>5 DEF new
<1>3. QED BY <1>1, <1>2

LEMMA ExceptTwice ==
  ASSUME NEW f, NEW x \in DOMAIN f, NEW u, NEW v
  PROVE  /\ [f EXCEPT ![x] = u][x] = u /\ x \in DOMAIN [f EXCEPT ![x] = u]
         /\ [[f EXCEPT ![x] = u] EXCEPT ![x] = v] = [f EXCEPT ![x] = v]
OBVIOUS

\* A loader's state before a call for k.
LEMMA StateTypes ==
  /\ Idle \in States
  /\ \A k \in Keys : [at |-> "clear", key |-> k] \in States
  /\ \A k \in Keys, b, pos \in Nat :
        /\ [at |-> "thunk", key |-> k, b |-> b, pos |-> pos] \in States
        /\ [at |-> "failed", key |-> k, b |-> b, pos |-> pos] \in States
  /\ \A k \in Keys, b \in Nat, value \in Values :
        [at |-> "set", key |-> k, b |-> b, value |-> value] \in States
  /\ \A k \in Keys, value \in Values :
        [at |-> "prime", key |-> k, value |-> value] \in States
BY DEF States, Idle

LEMMA StateFields ==
  ASSUME NEW it \in States
  PROVE  /\ it.at \in {"idle", "clear", "thunk", "set", "prime", "failed"}
         /\ it.at # "idle" => it.key \in Keys
         /\ it.at \in {"thunk", "set", "failed"} => it.b \in Nat
         /\ it.at \in {"thunk", "failed"} => it.pos \in Nat
         /\ it.at \in {"set", "prime"} => it.value \in Values
BY DEF States, Idle

LEMMA CacheWith ==
  ASSUME LoaderTypeOK, NEW k \in Keys, NEW value \in Values
  PROVE  /\ DOMAIN With(k, value) \subseteq Keys /\ Range(With(k, value)) \subseteq Values
         /\ DOMAIN With(k, value) = DOMAIN cache \cup {k} /\ With(k, value)[k] = value
         /\ \A x \in DOMAIN cache : x # k => With(k, value)[x] = cache[x]
BY DEF LoaderTypeOK, With, Range

---------------------------------------------------------------------------
(* The steps of batches *)

\* A call for a key that is not cached: it gets a place in a batch nobody fetches yet.
LEMMA EnqueueStep ==
  ASSUME LoaderInv, NEW c \in Callers, NEW k \in Keys, Enqueue(c, k)
  PROVE  /\ batches' \in Seq(Batch) /\ batch' \in 0..Len(batches')
         /\ BatchesInv' /\ Grow /\ SameFetched
         /\ \E t \in States :
               /\ callers' = [callers EXCEPT ![c] = t] /\ t.at = "thunk" /\ t.key = k
               /\ t.b \in 1..Len(batches') /\ batches'[t.b].fetched = <<>>
               /\ t.pos \in 1..Len(batches'[t.b].keys) /\ batches'[t.b].keys[t.pos] = k
<1> DEFINE b == IF batch = 0 THEN Len(batches) + 1 ELSE batch
           old == IF batch = 0 THEN NewBatch ELSE batches[b]
           keys == IF Contains(old.keys, k) THEN old.keys ELSE Append(old.keys, k)
           closes == keys # old.keys /\ Full(keys) /\ ~old.closing
           new == [old EXCEPT !.keys = keys, !.closing = @ \/ closes, !.ender = Ender(closes, @)]
<1>0. /\ batches \in Seq(Batch) /\ Len(batches) \in Nat /\ batch \in 0..Len(batches)
      /\ MaxBatch \in Nat
  BY LoaderAssumption DEF LoaderInv, LoaderTypeOK
<1>1. /\ old \in Batch /\ IsInjective(old.keys) /\ ~Full(old.keys)
      /\ MaxBatch # 0 => Len(old.keys) <= MaxBatch
      /\ old.timer = "asleep" /\ ~old.closing /\ old.ender = "none"
      /\ old.fetched = <<>> /\ old.data = <<>> /\ ~old.done
  <2>1. CASE batch = 0
    <3>1. old = NewBatch /\ old.keys = <<>>
      BY <2>1 DEF NewBatch
    <3>2. IsInjective(<<>>) /\ Len(<<>>) = 0
      BY DEF IsInjective
    <3>3. ~Full(<<>>)
      BY <1>0, <3>2 DEF Full
    <3>4. NewBatch \in Batch
      BY DEF NewBatch, Batch
    <3>5. QED BY <1>0, <3>1, <3>2, <3>3, <3>4 DEF NewBatch
  <2>2. CASE batch # 0
    <3>1. old = batches[batch] /\ batch \in 1..Len(batches)
      BY <1>0, <2>2
    <3>2. BatchInv(batch) /\ old \in Batch
      BY <1>0, <3>1 DEF LoaderInv, BatchesInv
    <3>3. old.timer = "asleep" /\ ~old.closing /\ old.fetched = <<>>
      BY <3>1, <3>2 DEF BatchInv
    <3>4. QED BY <3>1, <3>2, <3>3 DEF BatchInv
  <2>3. QED BY <2>1, <2>2
<1>2. old.keys \in Seq(Keys) /\ IsInjective(old.keys)
  BY <1>1 DEF Batch
<1> HIDE DEF old
<1>14. keys = KeysWith(old.keys, k)
  BY DEF KeysWith
<1> HIDE DEF keys
<1>3. /\ keys \in Seq(Keys) /\ keys # <<>> /\ IsInjective(keys)
      /\ Len(old.keys) \in Nat /\ Len(keys) \in Nat
      /\ keys = old.keys \/ (keys # old.keys /\ Len(keys) = Len(old.keys) + 1)
      /\ \A i \in 1..Len(old.keys) : keys[i] = old.keys[i]
      /\ Place(keys, k) \in 1..Len(keys) /\ keys[Place(keys, k)] = k
  BY ZenonT(40), <1>2, <1>14, KeysWithIs
<1>4. MaxBatch # 0 => Len(keys) <= MaxBatch
  BY <1>0, <1>1, <1>3 DEF Full
<1>5. closes <=> Full(keys)
  BY <1>1
<1>6. /\ new \in Batch /\ new.keys = keys /\ new.timer = "asleep"
      /\ new.fetched = <<>> /\ new.data = <<>> /\ ~new.done
      /\ new.closing <=> Full(keys)
      /\ new.ender = IF Full(keys) THEN "ending" ELSE "none"
  <2>1. Ender(closes, old.ender) = IF Full(keys) THEN "ending" ELSE "none"
    BY <1>1, <1>5 DEF Ender
  <2>2. (old.closing \/ closes) <=> Full(keys)
    BY <1>1, <1>5
  <2>3. (old.closing \/ closes) \in BOOLEAN
    OBVIOUS
  <2>4. QED BY <1>1, <1>3, <2>1, <2>2, <2>3 DEF Batch
<1> HIDE DEF new
<1>7. /\ batches' = IF batch = 0 THEN Append(batches, new) ELSE [batches EXCEPT ![b] = new]
      /\ batch' = IF Full(keys) THEN 0 ELSE b
      /\ callers' = [callers EXCEPT ![c] = [at |-> "thunk", key |-> k, b |-> b, pos |-> Place(keys, k)]]
  <2>1. batch' = Current(b, closes)
    BY DEF Enqueue, keys, old
  <2>2. QED BY <1>5, <2>1 DEF Enqueue, keys, old, new, Become, Current
<1> HIDE DEF closes
<1>8. /\ batches' \in Seq(Batch) /\ Len(batches') \in Nat /\ b \in 1..Len(batches')
      /\ Len(batches') = IF batch = 0 THEN Len(batches) + 1 ELSE Len(batches)
      /\ batches'[b] = new
      /\ \A x \in 1..Len(batches') : x # b => x \in 1..Len(batches) /\ batches'[x] = batches[x]
      /\ \A x \in 1..Len(batches) : x # b => batches'[x] = batches[x]
  <2>1. CASE batch = 0
    <3>1. batches' = Append(batches, new) /\ b = Len(batches) + 1
      BY <1>7, <2>1
    <3>2. QED BY <1>0, <1>6, <2>1, <3>1, SeqAppended
  <2>2. CASE batch # 0
    <3>1. batches' = [batches EXCEPT ![batch] = new] /\ b = batch /\ batch \in 1..Len(batches)
      BY <1>0, <1>7, <2>2
    <3>2. QED BY <1>0, <1>6, <2>2, <3>1
  <2>3. QED BY <2>1, <2>2
<1>9. batch' \in 0..Len(batches')
  BY <1>7, <1>8
<1>10. BatchesInv'
  <2> SUFFICES ASSUME NEW x \in 1..Len(batches') PROVE BatchInv(x)'
    BY DEF BatchesInv
  <2>1. CASE x = b
    <3>1. batches'[x] = new /\ (x = batch' <=> ~Full(keys))
      BY <1>7, <1>8, <2>1
    <3>2. QED BY <1>3, <1>4, <1>6, <3>1 DEF BatchInv, Full
  <2>2. CASE x # b
    <3>1. x \in 1..Len(batches) /\ batches'[x] = batches[x] /\ x # batch'
      BY <1>7, <1>8, <2>2
    <3>2. BatchInv(x) /\ x # batch
      BY <1>8, <2>2, <3>1 DEF LoaderInv, BatchesInv
    <3>3. QED BY <3>1, <3>2 DEF BatchInv, Full
  <2>3. QED BY <2>1, <2>2
<1>11. Grow
  <2>1. Len(batches) <= Len(batches')
    BY <1>0, <1>8
  <2>2. ASSUME NEW x \in 1..Len(batches), x = b
        PROVE  batches[x] = old /\ batches'[x] = new
    <3>1. batch = b
      BY <1>0, <2>2
    <3>2. QED BY <1>0, <1>8, <2>2, <3>1 DEF old
  <2>3. ASSUME NEW x \in 1..Len(batches)
        PROVE  /\ Len(batches[x].keys) <= Len(batches'[x].keys)
               /\ \A i \in 1..Len(batches[x].keys) : batches'[x].keys[i] = batches[x].keys[i]
               /\ batches[x].fetched # <<>> =>
                     batches'[x].fetched = batches[x].fetched /\ batches'[x].data = batches[x].data
    <3>1. CASE x = b
      <4>1. batches[x] = old /\ batches'[x] = new
        BY <2>2, <3>1
      <4>2. Len(old.keys) <= Len(keys)
        BY <1>3
      <4>3. QED BY <1>1, <1>3, <1>6, <4>1, <4>2
    <3>2. CASE x # b
      <4>1. batches'[x] = batches[x] /\ batches[x] \in Batch
        BY <1>0, <1>8, <3>2
      <4>2. Len(batches[x].keys) \in Nat
        BY <4>1 DEF Batch
      <4>3. QED BY <4>1, <4>2
    <3>3. QED BY <3>1, <3>2
  <2>4. QED BY <2>1, <2>3 DEF Grow
<1>12. \E t \in States :
          /\ callers' = [callers EXCEPT ![c] = t] /\ t.at = "thunk" /\ t.key = k
          /\ t.b \in 1..Len(batches') /\ batches'[t.b].fetched = <<>>
          /\ t.pos \in 1..Len(batches'[t.b].keys) /\ batches'[t.b].keys[t.pos] = k
  <2> DEFINE t == [at |-> "thunk", key |-> k, b |-> b, pos |-> Place(keys, k)]
  <2>1. b \in Nat /\ Place(keys, k) \in Nat
    BY <1>0, <1>3, <1>8
  <2>2. t \in States
    BY <2>1, StateTypes
  <2>3. t.at = "thunk" /\ t.key = k /\ t.b = b /\ t.pos = Place(keys, k)
    OBVIOUS
  <2>5. callers' = [callers EXCEPT ![c] = t]
    BY <1>7
  <2> HIDE DEF t
  <2>4. QED BY ZenonT(40), <1>3, <1>6, <1>8, <2>2, <2>3, <2>5
<1>13. SameFetched
  <2> SUFFICES ASSUME NEW x \in 1..Len(batches) PROVE batches'[x].fetched = batches[x].fetched
    BY DEF SameFetched
  <2>1. CASE x = b
    <3>1. batch = b /\ batches[x] = old
      BY <1>0, <2>1 DEF old
    <3>2. QED BY <1>1, <1>6, <1>8, <2>1, <3>1
  <2>2. CASE x # b
    BY <1>8, <2>2
  <2>3. QED BY <2>1, <2>2
<1>15. QED BY <1>8, <1>9, <1>10, <1>11, <1>12, <1>13

\* A goroutine that changes one batch, to one that is well formed.
LEMMA OneBatch ==
  ASSUME LoaderInv, NEW b \in 1..Len(batches), NEW new \in Batch,
         batches' = [batches EXCEPT ![b] = new],
         batch' \in {batch, 0}, batch' # batch => batch = b,
         new.keys = batches[b].keys,
         batches[b].fetched # <<>> => new.fetched = batches[b].fetched /\ new.data = batches[b].data,
         BatchInv(b)'
  PROVE  /\ batches' \in Seq(Batch) /\ batch' \in 0..Len(batches') /\ BatchesInv' /\ Grow
<1>1. /\ batches \in Seq(Batch) /\ Len(batches) \in Nat /\ batch \in 0..Len(batches)
  BY DEF LoaderInv, LoaderTypeOK
<1>2. /\ batches' \in Seq(Batch) /\ Len(batches') = Len(batches) /\ batches'[b] = new
      /\ \A x \in 1..Len(batches) : x # b => batches'[x] = batches[x]
  BY <1>1
<1>3. batch' \in 0..Len(batches')
  BY <1>1, <1>2
<1>4. BatchesInv'
  <2> SUFFICES ASSUME NEW x \in 1..Len(batches), x # b PROVE BatchInv(x)'
    BY <1>2 DEF BatchesInv
  <2>1. batches'[x] = batches[x] /\ (x = batch' <=> x = batch)
    BY <1>1, <1>2
  <2>2. BatchInv(x)
    BY DEF LoaderInv, BatchesInv
  <2>3. QED BY <2>1, <2>2 DEF BatchInv, Full
<1>5. \A x \in 1..Len(batches) : Len(batches[x].keys) \in Nat
  <2>1. \A x \in 1..Len(batches) : batches[x] \in Batch
    BY <1>1
  <2>2. QED BY <2>1 DEF Batch
<1>6. Grow
  BY <1>1, <1>2, <1>5 DEF Grow
<1>7. QED BY <1>2, <1>3, <1>4, <1>6

\* The timer fires: it takes the batch, unless the batch is being finalised.
LEMMA WakeStep ==
  ASSUME LoaderInv, NEW b \in 1..Len(batches), Wake(b)
  PROVE  /\ batches' \in Seq(Batch) /\ batch' \in 0..Len(batches') /\ BatchesInv' /\ Grow
         /\ SameFetched
<1> DEFINE it == batches[b]
<1>1. /\ it \in Batch /\ BatchInv(b) /\ it.timer = "asleep"
      /\ batches \in Seq(Batch) /\ Len(batches) \in Nat
  BY DEF LoaderInv, LoaderTypeOK, BatchesInv, Wake
<1>2. CASE it.closing
  <2> DEFINE new == [it EXCEPT !.timer = "gone"]
  <2>1. batches' = [batches EXCEPT ![b] = new] /\ batch' = batch
    BY <1>2 DEF Wake, Finalizing
  <2>2. /\ new \in Batch /\ new.keys = it.keys /\ new.fetched = it.fetched /\ new.data = it.data
        /\ new.timer = "gone" /\ new.ender = it.ender /\ new.done = it.done
        /\ new.closing = it.closing
    BY <1>1 DEF Batch
  <2> HIDE DEF new
  <2>3. batches'[b] = new
    BY <1>1, <2>1
  <2>4. BatchInv(b)'
    <3>1. /\ batches'[b].keys = it.keys /\ batches'[b].fetched = it.fetched
          /\ batches'[b].data = it.data /\ batches'[b].timer = "gone"
          /\ batches'[b].ender = it.ender /\ batches'[b].done = it.done
          /\ batches'[b].closing = it.closing
      BY <2>2, <2>3
    <3>2. /\ BatchInv(b) /\ it.timer = "asleep" /\ it.closing /\ batch' = batch
      BY <1>1, <1>2, <2>1
    <3>3. QED BY <3>1, <3>2 DEF BatchInv, Full
  <2>5. SameFetched
    BY <1>1, <2>1, <2>2 DEF SameFetched
  <2>6. QED BY <2>1, <2>2, <2>4, <2>5, OneBatch
<1>3. CASE ~it.closing
  <2> DEFINE new == [it EXCEPT !.timer = "ending"]
  <2>1. batches' = [batches EXCEPT ![b] = new] /\ batch' = 0 /\ batch = b
    BY <1>1, <1>3 DEF Wake, Finalizing, BatchInv
  <2>2. /\ new \in Batch /\ new.keys = it.keys /\ new.fetched = it.fetched /\ new.data = it.data
        /\ new.timer = "ending" /\ new.ender = it.ender /\ new.done = it.done
        /\ new.closing = it.closing
    BY <1>1 DEF Batch
  <2> HIDE DEF new
  <2>3. batches'[b] = new
    BY <1>1, <2>1
  <2>4. BatchInv(b)'
    BY <1>1, <1>3, <2>1, <2>2, <2>3 DEF BatchInv, Full
  <2>5. SameFetched
    BY <1>1, <2>1, <2>2 DEF SameFetched
  <2>6. QED BY <2>1, <2>2, <2>4, <2>5, OneBatch
<1>4. QED BY <1>2, <1>3

\* What is found is of the keys asked for, in their order, and as fresh as it can be.
LEMMA FetchStep ==
  ASSUME LoaderInv, NEW b \in 1..Len(batches), NEW who \in {"timer", "ender"}, Fetch(b, who)
  PROVE  /\ batches' \in Seq(Batch) /\ batch' \in 0..Len(batches') /\ BatchesInv' /\ Grow
         /\ batches[b].fetched = <<>>
         /\ Len(batches'[b].data) = Len(batches[b].keys)
         /\ \A i \in 1..Len(batches[b].keys) :
               batches'[b].data[i] = <<batches[b].keys[i], version[batches[b].keys[i]]>>
         /\ \A x \in 1..Len(batches) : x # b => batches'[x] = batches[x]
<1> DEFINE it == batches[b]
           data == [i \in DOMAIN it.keys |-> <<it.keys[i], version[it.keys[i]]>>]
<1>1. /\ it \in Batch /\ BatchInv(b) /\ batches \in Seq(Batch) /\ Len(batches) \in Nat
      /\ version \in [Keys -> Nat]
  BY DEF LoaderInv, LoaderTypeOK, BatchesInv
<1>2. it[who] = "ending" /\ (it.data = <<>> \/ it.done)
  BY DEF Fetch
<1>3. (it.timer = "ending" /\ ~it.closing) \/ (it.ender = "ending" /\ it.closing)
  BY <1>1, <1>2 DEF BatchInv
<1>4. ~it.done /\ b # batch
  BY <1>1, <1>3 DEF BatchInv
<1>5. it.keys \in Seq(Keys) /\ it.keys # <<>> /\ Len(it.keys) \in Nat \ {0}
  BY <1>1 DEF BatchInv, Batch
<1>6. it.fetched = <<>> /\ it.data = <<>>
  <2>1. it.data = <<>>
    BY <1>2, <1>4
  <2>2. Len(it.data) = 0
    BY <2>1
  <2>3. QED BY <1>1, <1>5, <2>1, <2>2 DEF BatchInv
<1>7. /\ data \in Seq(Values) /\ Len(data) = Len(it.keys) /\ DOMAIN data = 1..Len(it.keys)
      /\ \A i \in 1..Len(it.keys) : data[i] = <<it.keys[i], version[it.keys[i]]>>
  <2>1. DOMAIN it.keys = 1..Len(it.keys) /\ \A i \in 1..Len(it.keys) : it.keys[i] \in Keys
    BY <1>5
  <2>2. \A i \in 1..Len(it.keys) : <<it.keys[i], version[it.keys[i]]>> \in Values
    BY <1>1, <2>1 DEF Values
  <2>3. data = [i \in 1..Len(it.keys) |-> <<it.keys[i], version[it.keys[i]]>>]
    BY <2>1
  <2>4. data \in [1..Len(it.keys) -> Values]
    BY <2>2, <2>3
  <2> HIDE DEF data
  <2>5. data \in Seq(Values)
    BY <1>5, <2>4
  <2>6. Len(data) = Len(it.keys)
    BY <1>5, <2>4, <2>5
  <2>7. QED BY <2>1, <2>2, <2>3, <2>5, <2>6
<1>8. PICK failed \in {{}, {1}, DOMAIN it.keys} :
        batches' = [batches EXCEPT ![b].fetched = Append(@, it.keys), ![b].failed = failed, ![b].data = data]
  BY DEF Fetch
<1> DEFINE new == [it EXCEPT !.fetched = Append(@, it.keys), !.failed = failed, !.data = data]
<1> HIDE DEF data
<1>9. batches' = [batches EXCEPT ![b] = new] /\ batch' = batch /\ batches'[b] = new
  <2> DEFINE it1 == [it EXCEPT !.fetched = Append(@, it.keys)]
             it2 == [it1 EXCEPT !.failed = failed]
             all1 == [batches EXCEPT ![b] = it1]
             all2 == [all1 EXCEPT ![b] = it2]
  <2>0. b \in DOMAIN batches
    BY <1>1
  <2> HIDE DEF it1, it2
  <2>1. all1[b] = it1 /\ b \in DOMAIN all1 /\ all2[b] = it2 /\ b \in DOMAIN all2
    BY <2>0, ExceptTwice
  <2>2. batches' = [all2 EXCEPT ![b] = [it2 EXCEPT !.data = data]]
    BY <1>8, <2>1 DEF it1, it2
  <2>3. new = [it2 EXCEPT !.data = data]
    BY DEF it1, it2
  <2> HIDE DEF new
  <2>4. batches' = [batches EXCEPT ![b] = new]
    BY <2>0, <2>1, <2>2, <2>3, ExceptTwice
  <2>5. QED BY <2>0, <2>4, ExceptTwice DEF Fetch
<1>10. /\ new \in Batch /\ new.keys = it.keys /\ new.fetched = Append(it.fetched, it.keys)
       /\ new.data = data /\ new.timer = it.timer /\ new.ender = it.ender
       /\ new.done = it.done /\ new.closing = it.closing
  <2>1. failed \in SUBSET Nat
    BY <1>5, <1>8
  <2>2. Append(it.fetched, it.keys) \in Seq(Seq(Keys))
    BY <1>1, <1>5, SeqAppended DEF Batch
  <2>3. QED BY <1>1, <1>7, <2>1, <2>2 DEF Batch
<1> HIDE DEF new
<1>11. new.fetched = <<it.keys>> /\ new.fetched # <<>>
  <2>1. Append(<<>>, it.keys) = <<it.keys>>
    OBVIOUS
  <2>2. QED BY <1>6, <1>10, <2>1
<1>12. BatchInv(b)'
  <2>1. \A i \in 1..Len(it.keys) : data[i][1] = it.keys[i]
    BY <1>7
  <2>2. QED BY ZenonT(40), <1>1, <1>4, <1>7, <1>9, <1>10, <1>11, <2>1 DEF BatchInv, Full
<1>13. /\ batches' \in Seq(Batch) /\ batch' \in 0..Len(batches') /\ BatchesInv' /\ Grow
  BY <1>6, <1>9, <1>10, <1>12, OneBatch
<1>14. QED BY <1>1, <1>6, <1>7, <1>9, <1>10, <1>13

\* close(b.done)
LEMMA DoneStep ==
  ASSUME LoaderInv, NEW b \in 1..Len(batches), NEW who \in {"timer", "ender"}, Done(b, who)
  PROVE  /\ batches' \in Seq(Batch) /\ batch' \in 0..Len(batches') /\ BatchesInv' /\ Grow
         /\ SameFetched
<1> DEFINE it == batches[b]
           new == [it EXCEPT ![who] = "gone", !.done = TRUE]
<1>1. /\ it \in Batch /\ BatchInv(b) /\ batches \in Seq(Batch) /\ Len(batches) \in Nat
  BY DEF LoaderInv, LoaderTypeOK, BatchesInv
<1>2. it[who] = "ending" /\ it.fetched # <<>>
  BY DEF Done
<1>3. (it.timer = "ending" /\ ~it.closing) \/ (it.ender = "ending" /\ it.closing)
  BY <1>1, <1>2 DEF BatchInv
<1>4. batches' = [batches EXCEPT ![b] = new] /\ batch' = batch /\ batches'[b] = new
  <2> DEFINE it1 == [it EXCEPT ![who] = "gone"]
             all1 == [batches EXCEPT ![b] = it1]
  <2>0. b \in DOMAIN batches
    BY <1>1
  <2> HIDE DEF it1
  <2>1. all1[b] = it1
    BY <2>0, ExceptTwice
  <2>2. batches' = [all1 EXCEPT ![b] = [it1 EXCEPT !.done = TRUE]]
    BY <2>1 DEF Done, it1
  <2>3. new = [it1 EXCEPT !.done = TRUE]
    BY DEF it1
  <2> HIDE DEF new
  <2>4. batches' = [batches EXCEPT ![b] = new]
    BY <2>0, <2>2, <2>3, ExceptTwice
  <2>5. QED BY <2>0, <2>4, ExceptTwice DEF Done
<1>5. /\ new \in Batch /\ new.keys = it.keys /\ new.fetched = it.fetched /\ new.data = it.data
      /\ new.closing = it.closing /\ new.done
      /\ new.timer = IF who = "timer" THEN "gone" ELSE it.timer
      /\ new.ender = IF who = "ender" THEN "gone" ELSE it.ender
  <2>1. CASE who = "timer"
    BY <1>1, <2>1 DEF Batch
  <2>2. CASE who = "ender"
    BY <1>1, <2>2 DEF Batch
  <2>3. QED BY <2>1, <2>2
<1> HIDE DEF new
<1>6. BatchInv(b)'
  <2>1. b # batch
    BY <1>1, <1>3 DEF BatchInv
  <2>2. BatchInv(b) /\ batch' = batch /\ it.fetched # <<>> /\ it[who] = "ending"
    BY <1>1, <1>2, <1>4
  <2>3. /\ batches'[b].keys = it.keys /\ batches'[b].fetched = it.fetched
        /\ batches'[b].data = it.data /\ batches'[b].closing = it.closing /\ batches'[b].done
    BY <1>4, <1>5
  <2>4. CASE who = "timer"
    <3>1. /\ batches'[b].timer = "gone" /\ batches'[b].ender = it.ender
          /\ it.timer = "ending" /\ ~it.closing
      BY <1>3, <1>4, <1>5, <2>2, <2>4 DEF BatchInv
    <3>2. QED BY <2>1, <2>2, <2>3, <3>1 DEF BatchInv, Full
  <2>5. CASE who = "ender"
    <3>1. /\ batches'[b].timer = it.timer /\ batches'[b].ender = "gone"
          /\ it.ender = "ending" /\ it.closing
      BY <1>3, <1>4, <1>5, <2>2, <2>5 DEF BatchInv
    <3>2. QED BY <2>1, <2>2, <2>3, <3>1 DEF BatchInv, Full
  <2>6. QED BY <2>4, <2>5
<1>7. /\ batches' \in Seq(Batch) /\ batch' \in 0..Len(batches') /\ BatchesInv' /\ Grow
  BY <1>4, <1>5, <1>6, OneBatch
<1>8. QED BY <1>1, <1>4, <1>5, <1>7 DEF SameFetched

---------------------------------------------------------------------------
(* The steps of callers *)

\* Batches that grow leave a caller its place.
LEMMA CallerKeeps ==
  ASSUME LoaderInv, Grow, batches' \in Seq(Batch), NEW d \in Callers, callers'[d] = callers[d]
  PROVE  Placed(d)'
<1> DEFINE it == callers[d]
<1>1. Placed(d) /\ it \in States /\ batches \in Seq(Batch) /\ Len(batches) \in Nat /\ Len(batches') \in Nat
  BY DEF LoaderInv, LoaderTypeOK, CallerInv
<1>2. CASE it.at \in {"thunk", "failed", "set"}
  <2>1. it.b \in 1..Len(batches) /\ it.b \in 1..Len(batches')
    BY <1>1, <1>2 DEF Placed, Grow
  <2>2. batches[it.b] \in Batch /\ batches'[it.b] \in Batch
    BY <1>1, <2>1
  <2>3. Len(batches[it.b].keys) \in Nat /\ Len(batches'[it.b].keys) \in Nat
    <3>1. \A x \in Batch : Len(x.keys) \in Nat
      BY DEF Batch
    <3>2. QED BY <2>2, <3>1
  <2>4. /\ Len(batches[it.b].keys) <= Len(batches'[it.b].keys)
        /\ \A i \in 1..Len(batches[it.b].keys) : batches'[it.b].keys[i] = batches[it.b].keys[i]
        /\ batches[it.b].fetched # <<>> => batches'[it.b].fetched = batches[it.b].fetched
    BY <2>1 DEF Grow
  <2>5. QED BY SMTT(30), <1>1, <2>1, <2>3, <2>4 DEF Placed
<1>3. CASE it.at \notin {"thunk", "failed", "set"}
  BY <1>1, <1>3 DEF Placed
<1>4. QED BY <1>2, <1>3

LEMMA CallersKeep ==
  ASSUME LoaderInv, UNCHANGED batches
  PROVE  Grow /\ SameFetched
<1>1. batches \in Seq(Batch) /\ Len(batches) \in Nat
  BY DEF LoaderInv, LoaderTypeOK
<1>2. \A x \in 1..Len(batches) : Len(batches[x].keys) \in Nat
  <2> TAKE x \in 1..Len(batches)
  <2>1. batches[x] \in Batch
    BY <1>1
  <2>2. QED BY <2>1 DEF Batch
<1>3. QED BY <1>1, <1>2 DEF Grow, SameFetched

\* One caller moves to a state in which it is placed, and the others stay.
LEMMA OneCaller ==
  ASSUME LoaderInv, batches' \in Seq(Batch), batch' \in 0..Len(batches'), BatchesInv', Grow,
         NEW c \in Callers, NEW t \in States, callers' = [callers EXCEPT ![c] = t], Placed(c)',
         DOMAIN cache' \subseteq Keys, Range(cache') \subseteq Values,
         \A k \in DOMAIN cache' : cache'[k][1] = k,
         version' \in [Keys -> Nat], cleared' \in [Keys -> Nat], raced' \subseteq Keys
  PROVE  LoaderInv'
<1>1. callers \in [Callers -> States]
  BY DEF LoaderInv, LoaderTypeOK
<1>2. callers' \in [Callers -> States] /\ \A d \in Callers : d # c => callers'[d] = callers[d]
  BY <1>1
<1>3. CallerInv'
  BY <1>2, CallerKeeps DEF CallerInv
<1>4. batch' # 0 => ~batches'[batch'].closing
  <2>1. batch' # 0 => batch' \in 1..Len(batches')
    OBVIOUS
  <2>2. QED BY <2>1 DEF BatchesInv, BatchInv
<1>5. LoaderTypeOK'
  BY <1>2, <1>4 DEF LoaderTypeOK
<1>6. QED BY <1>3, <1>5 DEF LoaderInv

\* Every step preserves the invariant, whoever takes it.
LEMMA LoaderStep ==
  ASSUME LoaderInv, [LoaderNext]_loaderVars
  PROVE  LoaderInv'
<1>0. /\ LoaderTypeOK /\ callers \in [Callers -> States] /\ batches \in Seq(Batch)
      /\ Len(batches) \in Nat /\ batch \in 0..Len(batches) /\ BatchesInv /\ CallerInv
      /\ \A k \in DOMAIN cache : cache[k][1] = k
  BY DEF LoaderInv, LoaderTypeOK
<1>1. ASSUME NEW c \in Callers, NEW k \in Keys, LoadThunk(c, k) PROVE LoaderInv'
  <2>1. CASE k \in DOMAIN cache
    <3>1. /\ callers' = [callers EXCEPT ![c] = Idle]
          /\ UNCHANGED <<cache, batch, batches, version, cleared, raced>>
      BY <1>1, <2>1 DEF LoadThunk, Become, External
    <3>2. callers'[c] = Idle
      BY <1>0, <3>1
    <3>3. Placed(c)'
      BY <3>2 DEF Placed, Idle
    <3>4. Grow /\ BatchesInv' /\ Idle \in States
      BY <1>0, <3>1, CallersKeep, StateTypes DEF BatchesInv, BatchInv
    <3>5. QED BY <1>0, <3>1, <3>3, <3>4, OneCaller DEF LoaderTypeOK
  <2>2. CASE k \notin DOMAIN cache
    <3>1. Enqueue(c, k) /\ UNCHANGED <<cache, version, cleared, raced>>
      BY <1>1, <2>2 DEF LoadThunk, External
    <3>2. /\ batches' \in Seq(Batch) /\ batch' \in 0..Len(batches') /\ BatchesInv' /\ Grow
          /\ \E t \in States :
               /\ callers' = [callers EXCEPT ![c] = t] /\ t.at = "thunk" /\ t.key = k
               /\ t.b \in 1..Len(batches') /\ batches'[t.b].fetched = <<>>
               /\ t.pos \in 1..Len(batches'[t.b].keys) /\ batches'[t.b].keys[t.pos] = k
      BY <3>1, EnqueueStep
    <3>3. PICK t \in States :
               /\ callers' = [callers EXCEPT ![c] = t] /\ t.at = "thunk" /\ t.key = k
               /\ t.b \in 1..Len(batches') /\ batches'[t.b].fetched = <<>>
               /\ t.pos \in 1..Len(batches'[t.b].keys) /\ batches'[t.b].keys[t.pos] = k
      BY <3>2
    <3>4. callers'[c] = t
      BY <1>0, <3>3
    <3>5. Placed(c)'
      BY <3>3, <3>4 DEF Placed
    <3>6. QED BY <1>0, <3>1, <3>2, <3>3, <3>5, OneCaller DEF LoaderTypeOK
  <2>3. QED BY <2>1, <2>2
<1>2. ASSUME NEW c \in Callers, Thunk(c) PROVE LoaderInv'
  <2> DEFINE it == callers[c]  b == batches[it.b]
             t == IF it.pos \in b.failed
                  THEN [at |-> "failed", key |-> it.key, b |-> it.b, pos |-> it.pos]
                  ELSE [at |-> "set", key |-> it.key, b |-> it.b, value |-> b.data[it.pos]]
  <2>1. /\ it.at = "thunk" /\ b.done /\ callers' = [callers EXCEPT ![c] = t]
        /\ UNCHANGED <<cache, batch, batches, version, cleared, raced>>
    BY <1>2 DEF Thunk, Become, External
  <2>2. it \in States /\ it.key \in Keys /\ it.b \in Nat /\ it.pos \in Nat
    BY <1>0, <2>1, StateFields
  <2>3. it.b \in 1..Len(batches) /\ it.pos \in 1..Len(b.keys) /\ b.keys[it.pos] = it.key
    BY <1>0, <2>1 DEF CallerInv, Placed
  <2>4. BatchInv(it.b) /\ b \in Batch
    BY <1>0, <2>3 DEF BatchesInv
  <2>5. /\ b.fetched # <<>> /\ Len(b.data) = Len(b.keys)
        /\ b.data[it.pos][1] = it.key
    BY <2>1, <2>3, <2>4 DEF BatchInv
  <2>6. b.data[it.pos] \in Values
    BY <2>3, <2>4, <2>5 DEF Batch
  <2>7. t \in States
    BY <2>2, <2>6, StateTypes
  <2>8. callers'[c] = t
    BY <1>0, <2>1
  <2>9. Placed(c)'
    <3>1. CASE it.pos \in b.failed
      BY <2>1, <2>3, <2>8, <3>1 DEF Placed
    <3>2. CASE it.pos \notin b.failed
      <4>1. /\ callers'[c].at = "set" /\ callers'[c].b = it.b
            /\ callers'[c].value = b.data[it.pos]
        BY <2>8, <3>2
      <4>2. /\ it.b \in 1..Len(batches') /\ batches'[it.b].fetched # <<>>
            /\ callers'[c].value[1] = callers'[c].key
        BY <2>1, <2>3, <2>5, <2>8, <3>2, <4>1
      <4>3. QED BY <4>1, <4>2 DEF Placed
    <3>3. QED BY <3>1, <3>2
  <2>10. Grow /\ BatchesInv'
    BY <1>0, <2>1, CallersKeep DEF BatchesInv, BatchInv
  <2> HIDE DEF t
  <2>11. QED BY <1>0, <2>1, <2>7, <2>9, <2>10, OneCaller DEF LoaderTypeOK
<1>3. ASSUME NEW c \in Callers, UnsafeSet(c) PROVE LoaderInv'
  <2> DEFINE it == callers[c]
  <2>1. /\ it.at = "set" /\ callers' = [callers EXCEPT ![c] = Idle]
        /\ cache' = With(it.key, it.value)
        /\ UNCHANGED <<batch, batches, version, cleared, raced>>
    BY <1>3 DEF UnsafeSet, Become, External
  <2>2. it.key \in Keys /\ it.value \in Values /\ it.value[1] = it.key
    BY <1>0, <2>1, StateFields DEF CallerInv, Placed
  <2>3. /\ DOMAIN cache' \subseteq Keys /\ Range(cache') \subseteq Values
        /\ DOMAIN cache' = DOMAIN cache \cup {it.key} /\ cache'[it.key] = it.value
        /\ \A x \in DOMAIN cache : x # it.key => cache'[x] = cache[x]
    <3> DEFINE k == it.key  value == it.value
    <3>1. k \in Keys /\ value \in Values /\ cache' = With(k, value)
      BY <2>1, <2>2
    <3> HIDE DEF k, value
    <3>2. /\ DOMAIN cache' \subseteq Keys /\ Range(cache') \subseteq Values
          /\ DOMAIN cache' = DOMAIN cache \cup {k} /\ cache'[k] = value
          /\ \A x \in DOMAIN cache : x # k => cache'[x] = cache[x]
      <4>1. /\ DOMAIN With(k, value) \subseteq Keys /\ Range(With(k, value)) \subseteq Values
            /\ DOMAIN With(k, value) = DOMAIN cache \cup {k} /\ With(k, value)[k] = value
            /\ \A x \in DOMAIN cache : x # k => With(k, value)[x] = cache[x]
        BY ZenonT(40), <1>0, <3>1, CacheWith
      <4>2. QED BY <3>1, <4>1
    <3>3. QED BY <3>2 DEF k, value
  <2>4. \A k \in DOMAIN cache' : cache'[k][1] = k
    BY <1>0, <2>2, <2>3
  <2>5. callers'[c] = Idle
    BY <1>0, <2>1
  <2>6. Placed(c)'
    BY <2>5 DEF Placed, Idle
  <2>7. Grow /\ BatchesInv' /\ Idle \in States
    BY <1>0, <2>1, CallersKeep, StateTypes DEF BatchesInv, BatchInv
  <2>8. QED BY <1>0, <2>1, <2>3, <2>4, <2>6, <2>7, OneCaller DEF LoaderTypeOK
<1>4. ASSUME NEW c \in Callers, Prime(c) PROVE LoaderInv'
  <2> DEFINE it == callers[c]
  <2>1. /\ it.at = "prime" /\ callers' = [callers EXCEPT ![c] = Idle]
        /\ cache' = IF it.key \in DOMAIN cache THEN cache ELSE With(it.key, it.value)
        /\ UNCHANGED <<batch, batches, version, cleared, raced>>
    BY <1>4 DEF Prime, Become, External
  <2>2. it.key \in Keys /\ it.value \in Values /\ it.value[1] = it.key
    BY <1>0, <2>1, StateFields DEF CallerInv, Placed
  <2>3. /\ DOMAIN cache' \subseteq Keys /\ Range(cache') \subseteq Values
        /\ \A x \in DOMAIN cache' : cache'[x][1] = x
    <3>1. CASE it.key \in DOMAIN cache
      BY <1>0, <2>1, <3>1 DEF LoaderTypeOK
    <3>2. CASE it.key \notin DOMAIN cache
      <4> DEFINE k == it.key  value == it.value
      <4>1. k \in Keys /\ value \in Values /\ value[1] = k /\ cache' = With(k, value)
        BY <2>1, <2>2, <3>2
      <4> HIDE DEF k, value
      <4>2. /\ DOMAIN With(k, value) \subseteq Keys /\ Range(With(k, value)) \subseteq Values
            /\ DOMAIN With(k, value) = DOMAIN cache \cup {k} /\ With(k, value)[k] = value
            /\ \A x \in DOMAIN cache : x # k => With(k, value)[x] = cache[x]
        BY ZenonT(40), <1>0, <4>1, CacheWith
      <4>3. \A x \in DOMAIN With(k, value) : With(k, value)[x][1] = x
        BY <1>0, <4>1, <4>2
      <4>4. QED BY <4>1, <4>2, <4>3
    <3>3. QED BY <3>1, <3>2
  <2>4. callers'[c] = Idle
    BY <1>0, <2>1
  <2>5. Placed(c)'
    BY <2>4 DEF Placed, Idle
  <2>6. Grow /\ BatchesInv' /\ Idle \in States
    BY <1>0, <2>1, CallersKeep, StateTypes DEF BatchesInv, BatchInv
  <2>7. QED BY <1>0, <2>1, <2>3, <2>5, <2>6, OneCaller DEF LoaderTypeOK
<1>4a. ASSUME NEW c \in Callers, NEW k \in Keys, ReadDatabase(c, k) PROVE LoaderInv'
  <2> DEFINE t == [at |-> "prime", key |-> k, value |-> <<k, version[k]>>]
  <2>1. /\ callers' = [callers EXCEPT ![c] = t]
        /\ UNCHANGED <<cache, batch, batches, version, cleared, raced>>
    BY <1>4a DEF ReadDatabase, Become, External
  <2>2. <<k, version[k]>> \in Values
    BY <1>0 DEF LoaderTypeOK, Values
  <2>3. callers'[c] = t /\ t \in States
    BY <1>0, <2>1, <2>2, StateTypes
  <2>4. Placed(c)'
    BY <2>3 DEF Placed
  <2>5. Grow /\ BatchesInv'
    BY <1>0, <2>1, CallersKeep DEF BatchesInv, BatchInv
  <2> HIDE DEF t
  <2>6. QED BY <1>0, <2>1, <2>3, <2>4, <2>5, OneCaller DEF LoaderTypeOK
<1>5. ASSUME NEW c \in Callers, NEW k \in Keys, Write(c, k) PROVE LoaderInv'
  <2> DEFINE t == [at |-> "clear", key |-> k]
  <2>1. /\ callers' = [callers EXCEPT ![c] = t]
        /\ version' = [version EXCEPT ![k] = @ + 1]
        /\ UNCHANGED <<cache, batch, batches, cleared, raced>>
    BY <1>5 DEF Write, Become
  <2>2. version' \in [Keys -> Nat]
    BY <1>0, <2>1 DEF LoaderTypeOK
  <2>3. callers'[c] = t /\ t \in States
    BY <1>0, <2>1, StateTypes
  <2>4. Placed(c)'
    BY <2>3 DEF Placed
  <2>5. Grow /\ BatchesInv'
    BY <1>0, <2>1, CallersKeep DEF BatchesInv, BatchInv
  <2> HIDE DEF t
  <2>6. QED BY <1>0, <2>1, <2>2, <2>3, <2>4, <2>5, OneCaller DEF LoaderTypeOK
<1>6. ASSUME NEW c \in Callers, Clear(c) PROVE LoaderInv'
  <2> DEFINE k == callers[c].key
  <2>1. /\ callers[c].at = "clear" /\ callers' = [callers EXCEPT ![c] = Idle]
        /\ cache' = [x \in DOMAIN cache \ {k} |-> cache[x]]
        /\ cleared' = [cleared EXCEPT ![k] = version[k]]
        /\ raced' \subseteq raced \cup {k}
        /\ UNCHANGED <<batch, batches, version>>
    BY <1>6 DEF Clear, Become, Cleared, Without
  <2>2. k \in Keys
    BY <1>0, <2>1, StateFields
  <2>3. /\ DOMAIN cache' \subseteq Keys /\ Range(cache') \subseteq Values
        /\ \A x \in DOMAIN cache' : cache'[x][1] = x
    BY <1>0, <2>1 DEF LoaderTypeOK, Range
  <2>4. cleared' \in [Keys -> Nat] /\ raced' \subseteq Keys
    BY <1>0, <2>1, <2>2 DEF LoaderTypeOK
  <2>5. callers'[c] = Idle
    BY <1>0, <2>1
  <2>6. Placed(c)'
    BY <2>5 DEF Placed, Idle
  <2>7. Grow /\ BatchesInv' /\ Idle \in States
    BY <1>0, <2>1, CallersKeep, StateTypes DEF BatchesInv, BatchInv
  <2>8. QED BY <1>0, <2>1, <2>3, <2>4, <2>6, <2>7, OneCaller DEF LoaderTypeOK
<1>7. ASSUME NEW b \in DOMAIN batches,
             Wake(b) \/ \E who \in {"timer", "ender"} : Goroutine(b, who)
      PROVE  LoaderInv'
  <2>1. b \in 1..Len(batches)
    BY <1>0
  <2>2. /\ batches' \in Seq(Batch) /\ batch' \in 0..Len(batches') /\ BatchesInv' /\ Grow
        /\ UNCHANGED <<cache, callers, version, cleared, raced>>
    <3>1. CASE Wake(b)
      BY <2>1, <3>1, WakeStep DEF Wake, External
    <3>2. CASE \E who \in {"timer", "ender"} : Goroutine(b, who)
      <4>1. PICK who \in {"timer", "ender"} : Fetch(b, who) \/ Done(b, who)
        BY <3>2 DEF Goroutine
      <4>2. CASE Fetch(b, who)
        BY <2>1, <4>2, FetchStep DEF Fetch, External
      <4>3. CASE Done(b, who)
        BY <2>1, <4>3, DoneStep DEF Done, External
      <4>4. QED BY <4>1, <4>2, <4>3
    <3>3. QED BY <1>7, <3>1, <3>2
  <2>3. CallerInv'
    BY <2>2, CallerKeeps DEF CallerInv
  <2>4. batch' # 0 => ~batches'[batch'].closing
    <3>1. batch' # 0 => batch' \in 1..Len(batches')
      BY <2>2
    <3>2. QED BY <2>2, <3>1 DEF BatchesInv, BatchInv
  <2>5. LoaderTypeOK'
    BY <1>0, <2>2, <2>4 DEF LoaderTypeOK
  <2>6. QED BY <1>0, <2>2, <2>3, <2>5 DEF LoaderInv
<1>8. CASE UNCHANGED loaderVars
  BY <1>0, <1>8 DEF LoaderInv, LoaderTypeOK, BatchesInv, BatchInv, CallerInv, Placed, loaderVars
<1>9. QED
  BY <1>1, <1>2, <1>3, <1>4, <1>4a, <1>5, <1>6, <1>7, <1>8 DEF LoaderNext

LEMMA LoaderInvHolds == LoaderSpec => []LoaderInv
<1>1. LoaderInit => LoaderInv
  <2> SUFFICES ASSUME LoaderInit PROVE LoaderInv
    OBVIOUS
  <2>1. DOMAIN cache = {} /\ Range(cache) = {} /\ Len(batches) = 0
    BY DEF LoaderInit, Range
  <2>2. \A c \in Callers : callers[c] = Idle
    BY DEF LoaderInit
  <2>3. CallerInv
    BY <2>2 DEF CallerInv, Placed, Idle
  <2>4. LoaderTypeOK
    BY <2>1, StateTypes DEF LoaderInit, LoaderTypeOK
  <2>5. BatchesInv
    BY <2>1 DEF BatchesInv
  <2>6. QED BY <2>1, <2>3, <2>4, <2>5 DEF LoaderInv
<1>2. LoaderInv /\ [LoaderNext]_loaderVars => LoaderInv'
  BY LoaderStep
<1>3. QED BY <1>1, <1>2, PTL DEF LoaderSpec

\* Every variable keeps its type, and the current batch is not being finalised; the
\* type of what a thunk reads from its batch rests on the places of callers.
THEOREM LoaderTypeCorrect == LoaderSpec => []LoaderTypeOK
<1>1. LoaderInv => LoaderTypeOK
  BY DEF LoaderInv
<1>2. QED BY <1>1, LoaderInvHolds, PTL

\* A batch is fetched once, by its timer or by the call that fills it, with all its
\* keys: what takes it from the mutex decides which (itemsliceloader_gen.go:180-223).
THEOREM EachBatchOnce == LoaderSpec => []BatchesFetchedOnce
<1>1. LoaderInv => BatchesFetchedOnce
  <2> SUFFICES ASSUME LoaderInv PROVE BatchesFetchedOnce
    OBVIOUS
  <2>0. DOMAIN batches = 1..Len(batches)
    BY DEF LoaderInv, LoaderTypeOK
  <2> SUFFICES ASSUME NEW b \in 1..Len(batches)
               PROVE  LET it == batches[b] IN
                 /\ Len(it.fetched) <= 1 /\ (it.fetched # <<>> => it.fetched[1] = it.keys)
                 /\ IsInjective(it.keys) /\ (MaxBatch # 0 => Len(it.keys) <= MaxBatch)
                 /\ b # batch => it.timer # "asleep" \/ it.closing
    BY <2>0 DEF BatchesFetchedOnce
  <2> DEFINE it == batches[b]
  <2>1. BatchInv(b)
    BY DEF LoaderInv, BatchesInv
  <2>2. CASE it.fetched = <<>>
    <3>1. Len(it.fetched) <= 1
      BY <2>2
    <3>2. QED BY <2>1, <2>2, <3>1 DEF BatchInv
  <2>3. CASE it.fetched # <<>>
    <3>1. it.fetched = <<it.keys>>
      BY <2>1, <2>3 DEF BatchInv
    <3>2. Len(it.fetched) <= 1 /\ it.fetched[1] = it.keys
      BY <3>1
    <3>3. QED BY <2>1, <3>2 DEF BatchInv
  <2>4. QED BY <2>2, <2>3
<1>2. QED BY <1>1, LoaderInvHolds, PTL

\* Whoever shares a batch gets the result of the own key, also when others extend
\* the batch after a place in it was taken (itemsliceloader_gen.go:86-109).
THEOREM EveryoneGetsTheirs == LoaderSpec => []ResultsMatch
<1>1. LoaderInv => ResultsMatch
  BY DEF LoaderInv, CallerInv, Placed, ResultsMatch
<1>2. QED BY <1>1, LoaderInvHolds, PTL

---------------------------------------------------------------------------
(* Staleness *)

\* A result on its way to the cache is no older than the last clearing of its key,
\* or the key was cleared while it was being loaded.
Fresh(c) ==
    LET it == callers[c] IN
    /\ it.at \in {"set", "prime"} => (it.value[2] < cleared[it.key] => it.key \in raced)
    /\ it.at = "thunk" /\ batches[it.b].fetched # <<>> =>
          (batches[it.b].data[it.pos][2] < cleared[it.key] => it.key \in raced)

FreshInv ==
    /\ \A k \in Keys : cleared[k] <= version[k]
    /\ \A c \in Callers : Fresh(c)
    /\ StaleOnlyIfRaced

\* A caller that stays is as fresh as it was, if its batch is not fetched just now.
LEMMA FreshKeeps ==
  ASSUME LoaderInv, Grow, SameFetched, UNCHANGED <<cleared, raced>>,
         NEW d \in Callers, Fresh(d), callers'[d] = callers[d]
  PROVE  Fresh(d)'
<1> DEFINE it == callers[d]
<1>1. it.at = "thunk" => it.b \in 1..Len(batches)
  BY DEF LoaderInv, CallerInv, Placed
<1>2. it.at = "thunk" => batches'[it.b].fetched = batches[it.b].fetched
  BY <1>1 DEF SameFetched
<1>3. it.at = "thunk" /\ batches[it.b].fetched # <<>> => batches'[it.b].data = batches[it.b].data
  BY <1>1 DEF Grow
<1>4. QED BY <1>2, <1>3 DEF Fresh

LEMMA FreshStep ==
  ASSUME LoaderInv, FreshInv, [LoaderNext]_loaderVars
  PROVE  FreshInv'
<1>0. /\ callers \in [Callers -> States] /\ batches \in Seq(Batch) /\ Len(batches) \in Nat
      /\ version \in [Keys -> Nat] /\ cleared \in [Keys -> Nat] /\ DOMAIN cache \subseteq Keys
      /\ LoaderTypeOK
  BY DEF LoaderInv, LoaderTypeOK
<1>1. ASSUME UNCHANGED <<cache, version, cleared, raced>>, Grow, SameFetched,
             NEW c \in Callers, \A d \in Callers : d # c => callers'[d] = callers[d], Fresh(c)'
      PROVE  FreshInv'
  <2>1. \A d \in Callers : Fresh(d)'
    BY <1>1, FreshKeeps DEF FreshInv
  <2>2. QED BY <1>1, <2>1 DEF FreshInv, StaleOnlyIfRaced
<1>2. ASSUME NEW c \in Callers, NEW k \in Keys, LoadThunk(c, k) PROVE FreshInv'
  <2>1. CASE k \in DOMAIN cache
    <3>1. /\ callers' = [callers EXCEPT ![c] = Idle]
          /\ UNCHANGED <<cache, batch, batches, version, cleared, raced>>
      BY <1>2, <2>1 DEF LoadThunk, Become, External
    <3>2. callers'[c] = Idle /\ \A d \in Callers : d # c => callers'[d] = callers[d]
      BY <1>0, <3>1
    <3>3. Fresh(c)'
      BY <3>2 DEF Fresh, Idle
    <3>4. QED BY <1>1, <3>1, <3>2, <3>3, CallersKeep
  <2>2. CASE k \notin DOMAIN cache
    <3>1. Enqueue(c, k) /\ UNCHANGED <<cache, version, cleared, raced>>
      BY <1>2, <2>2 DEF LoadThunk, External
    <3>2. /\ Grow /\ SameFetched
          /\ \E t \in States :
               /\ callers' = [callers EXCEPT ![c] = t] /\ t.at = "thunk" /\ t.key = k
               /\ t.b \in 1..Len(batches') /\ batches'[t.b].fetched = <<>>
               /\ t.pos \in 1..Len(batches'[t.b].keys) /\ batches'[t.b].keys[t.pos] = k
      BY <3>1, EnqueueStep
    <3>3. PICK t \in States :
             callers' = [callers EXCEPT ![c] = t] /\ t.at = "thunk" /\ batches'[t.b].fetched = <<>>
      BY <3>2
    <3>4. callers'[c] = t /\ \A d \in Callers : d # c => callers'[d] = callers[d]
      BY <1>0, <3>3
    <3>5. Fresh(c)'
      BY <3>3, <3>4 DEF Fresh
    <3>6. QED BY <1>1, <3>1, <3>2, <3>4, <3>5
  <2>3. QED BY <2>1, <2>2
<1>3. ASSUME NEW c \in Callers, Thunk(c) PROVE FreshInv'
  <2> DEFINE it == callers[c]  b == batches[it.b]
             t == IF it.pos \in b.failed
                  THEN [at |-> "failed", key |-> it.key, b |-> it.b, pos |-> it.pos]
                  ELSE [at |-> "set", key |-> it.key, b |-> it.b, value |-> b.data[it.pos]]
  <2>1. /\ it.at = "thunk" /\ b.done /\ callers' = [callers EXCEPT ![c] = t]
        /\ UNCHANGED <<cache, batch, batches, version, cleared, raced>>
    BY <1>3 DEF Thunk, Become, External
  <2>2. it.b \in 1..Len(batches)
    BY <2>1 DEF LoaderInv, CallerInv, Placed
  <2>3. b.fetched # <<>>
    BY <2>1, <2>2 DEF LoaderInv, BatchesInv, BatchInv
  <2>4. b.data[it.pos][2] < cleared[it.key] => it.key \in raced
    BY <2>1, <2>3 DEF FreshInv, Fresh
  <2>5. callers'[c] = t /\ \A d \in Callers : d # c => callers'[d] = callers[d]
    BY <1>0, <2>1
  <2>6. Fresh(c)'
    <3>1. CASE it.pos \in b.failed
      BY <2>5, <3>1 DEF Fresh
    <3>2. CASE it.pos \notin b.failed
      <4>1. /\ callers'[c].at = "set" /\ callers'[c].key = it.key
            /\ callers'[c].value = b.data[it.pos]
        BY <2>5, <3>2
      <4>2. callers'[c].value[2] < cleared'[it.key] => it.key \in raced'
        BY <2>1, <2>4, <4>1
      <4>3. QED BY <4>1, <4>2 DEF Fresh
    <3>3. QED BY <3>1, <3>2
  <2>7. QED BY <1>1, <2>1, <2>5, <2>6, CallersKeep
<1>4. ASSUME NEW c \in Callers, UnsafeSet(c) PROVE FreshInv'
  <2> DEFINE it == callers[c]
  <2>1. /\ it.at = "set" /\ callers' = [callers EXCEPT ![c] = Idle]
        /\ cache' = With(it.key, it.value)
        /\ UNCHANGED <<batch, batches, version, cleared, raced>>
    BY <1>4 DEF UnsafeSet, Become, External
  <2>2. callers'[c] = Idle /\ \A d \in Callers : d # c => callers'[d] = callers[d]
    BY <1>0, <2>1
  <2>3. Fresh(c)'
    BY <2>2 DEF Fresh, Idle
  <2>4. \A d \in Callers : Fresh(d)'
    BY <2>1, <2>2, <2>3, CallersKeep, FreshKeeps DEF FreshInv
  <2>5. it.value[2] < cleared[it.key] => it.key \in raced
    BY <2>1 DEF FreshInv, Fresh
  <2>6. /\ DOMAIN cache' = DOMAIN cache \cup {it.key} /\ cache'[it.key] = it.value
        /\ \A x \in DOMAIN cache : x # it.key => cache'[x] = cache[x]
    BY <2>1 DEF With
  <2>7. StaleOnlyIfRaced'
    BY <2>1, <2>5, <2>6 DEF FreshInv, StaleOnlyIfRaced
  <2>8. QED BY <2>1, <2>4, <2>7 DEF FreshInv
<1>5. ASSUME NEW c \in Callers, Prime(c) PROVE FreshInv'
  <2> DEFINE it == callers[c]
  <2>1. /\ it.at = "prime" /\ callers' = [callers EXCEPT ![c] = Idle]
        /\ cache' = cache \/ cache' = With(it.key, it.value)
        /\ UNCHANGED <<batch, batches, version, cleared, raced>>
    BY <1>5 DEF Prime, Become, External
  <2>2. callers'[c] = Idle /\ \A d \in Callers : d # c => callers'[d] = callers[d]
    BY <1>0, <2>1
  <2>3. Fresh(c)'
    BY <2>2 DEF Fresh, Idle
  <2>4. \A d \in Callers : Fresh(d)'
    BY <2>1, <2>2, <2>3, CallersKeep, FreshKeeps DEF FreshInv
  <2>5. it.value[2] < cleared[it.key] => it.key \in raced
    BY <2>1 DEF FreshInv, Fresh
  <2>6. CASE cache' = With(it.key, it.value)
    <3>1. /\ DOMAIN cache' = DOMAIN cache \cup {it.key} /\ cache'[it.key] = it.value
          /\ \A x \in DOMAIN cache : x # it.key => cache'[x] = cache[x]
      BY <2>6 DEF With
    <3>2. StaleOnlyIfRaced'
      BY <2>1, <2>5, <3>1 DEF FreshInv, StaleOnlyIfRaced
    <3>3. QED BY <2>1, <2>4, <3>2 DEF FreshInv
  <2>7. CASE cache' = cache
    BY <2>1, <2>4, <2>7 DEF FreshInv, StaleOnlyIfRaced
  <2>8. QED BY <2>1, <2>6, <2>7
<1>5a. ASSUME NEW c \in Callers, NEW k \in Keys, ReadDatabase(c, k) PROVE FreshInv'
  <2> DEFINE t == [at |-> "prime", key |-> k, value |-> <<k, version[k]>>]
  <2>1. /\ callers' = [callers EXCEPT ![c] = t]
        /\ UNCHANGED <<cache, batch, batches, version, cleared, raced>>
    BY <1>5a DEF ReadDatabase, Become, External
  <2>2. callers'[c] = t /\ \A d \in Callers : d # c => callers'[d] = callers[d]
    BY <1>0, <2>1
  <2>3. ~(version[k] < cleared[k])
    BY <1>0 DEF FreshInv
  <2>4. Fresh(c)'
    BY <2>1, <2>2, <2>3 DEF Fresh
  <2>5. QED BY <1>1, <2>1, <2>2, <2>4, CallersKeep
<1>6. ASSUME NEW c \in Callers, NEW k \in Keys, Write(c, k) PROVE FreshInv'
  <2> DEFINE t == [at |-> "clear", key |-> k]
  <2>1. /\ callers' = [callers EXCEPT ![c] = t]
        /\ version' = [version EXCEPT ![k] = @ + 1]
        /\ UNCHANGED <<cache, batch, batches, cleared, raced>>
    BY <1>6 DEF Write, Become
  <2>2. callers'[c].at = "clear" /\ \A d \in Callers : d # c => callers'[d] = callers[d]
    BY <1>0, <2>1
  <2>3. Fresh(c)'
    BY <2>2 DEF Fresh
  <2>4. \A d \in Callers : Fresh(d)'
    BY <2>1, <2>2, <2>3, CallersKeep, FreshKeeps DEF FreshInv
  <2>5. \A x \in Keys : cleared'[x] <= version'[x]
    BY <1>0, <2>1 DEF FreshInv
  <2>6. QED BY <2>1, <2>4, <2>5 DEF FreshInv, StaleOnlyIfRaced
<1>7. ASSUME NEW c \in Callers, Clear(c) PROVE FreshInv'
  <2> DEFINE k == callers[c].key
  <2>1. /\ callers[c].at = "clear" /\ callers' = [callers EXCEPT ![c] = Idle]
        /\ cache' = [x \in DOMAIN cache \ {k} |-> cache[x]]
        /\ cleared' = [cleared EXCEPT ![k] = version[k]]
        /\ raced' = IF Loading(k) THEN raced \cup {k} ELSE raced \ {k}
        /\ UNCHANGED <<batch, batches, version>>
    BY <1>7 DEF Clear, Become, Cleared, Without
  <2>2. k \in Keys
    BY <1>0, <2>1, StateFields
  <2>3. /\ cleared'[k] = version[k]
        /\ \A x \in Keys : x # k => cleared'[x] = cleared[x] /\ (x \in raced' <=> x \in raced)
    BY <1>0, <2>1, <2>2
  <2>4. \A x \in Keys : cleared'[x] <= version'[x]
    BY <1>0, <2>1, <2>2, <2>3 DEF FreshInv
  <2>5. StaleOnlyIfRaced'
    BY <1>0, <2>1, <2>3 DEF FreshInv, StaleOnlyIfRaced
  <2>6. ASSUME NEW d \in Callers PROVE Fresh(d)'
    <3> DEFINE it == callers[d]
    <3>1. CASE d = c
      <4>1. callers'[d] = Idle
        BY <1>0, <2>1, <3>1
      <4>2. QED BY <4>1 DEF Fresh, Idle
    <3>2. CASE d # c /\ it.at \notin {"thunk", "set", "prime"}
      <4>1. callers'[d] = it
        BY <1>0, <2>1, <3>2
      <4>2. QED BY <3>2, <4>1 DEF Fresh
    <3>3. CASE d # c /\ it.at \in {"thunk", "set", "prime"} /\ it.key # k
      <4>1. callers'[d] = it
        BY <1>0, <2>1, <3>3
      <4>2. it.key \in Keys
        BY <1>0, <3>3, StateFields
      <4>3. cleared'[it.key] = cleared[it.key] /\ (it.key \in raced' <=> it.key \in raced)
        BY <2>3, <3>3, <4>2
      <4>4. Fresh(d)
        BY DEF FreshInv
      <4>5. QED BY <2>1, <4>1, <4>3, <4>4 DEF Fresh
    <3>4. CASE d # c /\ it.at \in {"thunk", "set", "prime"} /\ it.key = k
      <4>1. callers'[d] = it
        BY <1>0, <2>1, <3>4
      <4>2. CASE it.at # "prime" /\ batches[it.b].fetched = <<>>
        <5>1. it.at = "thunk"
          BY <3>4, <4>2 DEF LoaderInv, CallerInv, Placed
        <5>2. QED BY <2>1, <4>1, <4>2, <5>1 DEF Fresh
      <4>3. CASE it.at = "prime" \/ batches[it.b].fetched # <<>>
        <5>1. Loading(k)
          BY <3>4, <4>3 DEF Loading
        <5>2. k \in raced'
          BY <2>1, <5>1
        <5>3. QED BY <3>4, <4>1, <5>2 DEF Fresh
      <4>4. QED BY <4>2, <4>3
    <3>5. QED BY <3>1, <3>2, <3>3, <3>4
  <2>7. QED BY <2>4, <2>5, <2>6 DEF FreshInv
<1>8. ASSUME NEW b \in DOMAIN batches, NEW who \in {"timer", "ender"},
             Wake(b) \/ Done(b, who)
      PROVE  FreshInv'
  <2>1. b \in 1..Len(batches)
    BY <1>0
  <2>2. UNCHANGED <<cache, callers, version, cleared, raced>>
    BY <1>8 DEF Wake, Done, External
  <2>3. Grow /\ SameFetched
    BY <1>8, <2>1, WakeStep, DoneStep
  <2>4. \A d \in Callers : Fresh(d)'
    BY <2>2, <2>3, FreshKeeps DEF FreshInv
  <2>5. QED BY <2>2, <2>4 DEF FreshInv, StaleOnlyIfRaced
<1>9. ASSUME NEW b \in DOMAIN batches, NEW who \in {"timer", "ender"}, Fetch(b, who)
      PROVE  FreshInv'
  <2>1. b \in 1..Len(batches)
    BY <1>0
  <2>2. UNCHANGED <<cache, callers, version, cleared, raced>>
    BY <1>9 DEF Fetch, External
  <2>3. /\ batches[b].fetched = <<>>
        /\ Len(batches'[b].data) = Len(batches[b].keys)
        /\ \A i \in 1..Len(batches[b].keys) :
              batches'[b].data[i] = <<batches[b].keys[i], version[batches[b].keys[i]]>>
        /\ \A x \in 1..Len(batches) : x # b => batches'[x] = batches[x]
    BY <1>9, <2>1, FetchStep
  <2>4. ASSUME NEW d \in Callers PROVE Fresh(d)'
    <3> DEFINE it == callers[d]
    <3>1. Fresh(d) /\ Placed(d)
      BY DEF FreshInv, LoaderInv, CallerInv
    <3>2. CASE it.at # "thunk"
      BY <2>2, <3>1, <3>2 DEF Fresh
    <3>3. CASE it.at = "thunk" /\ it.b # b
      <4>1. batches'[it.b] = batches[it.b]
        BY <2>3, <3>1, <3>3 DEF Placed
      <4>2. QED BY <2>2, <3>1, <3>3, <4>1 DEF Fresh
    <3>4. CASE it.at = "thunk" /\ it.b = b
      <4>1. it.pos \in 1..Len(batches[b].keys) /\ batches[b].keys[it.pos] = it.key
        BY <3>1, <3>4 DEF Placed
      <4>2. it.key \in Keys
        BY <1>0, <3>4, StateFields
      <4>3. batches'[b].data[it.pos][2] = version[it.key]
        BY <2>3, <4>1
      <4>4. ~(version[it.key] < cleared[it.key])
        BY <1>0, <4>2 DEF FreshInv
      <4>5. QED BY <2>2, <3>4, <4>3, <4>4 DEF Fresh
    <3>5. QED BY <3>2, <3>3, <3>4
  <2>5. QED BY <2>2, <2>4 DEF FreshInv, StaleOnlyIfRaced
<1>10. CASE UNCHANGED loaderVars
  BY <1>10 DEF FreshInv, Fresh, StaleOnlyIfRaced, loaderVars
<1>11. QED
  <2>1. CASE \E b \in DOMAIN batches : Wake(b) \/ \E who \in {"timer", "ender"} : Goroutine(b, who)
    BY <1>8, <1>9, <2>1 DEF Goroutine
  <2>2. QED
    BY <1>2, <1>3, <1>4, <1>5, <1>5a, <1>6, <1>7, <1>10, <2>1 DEF LoaderNext

\* What is cached of a key is never older than the last clearing of the key, unless
\* the key was being loaded when it was cleared: that race is the only one, whoever
\* loads, primes, writes and clears (itemsliceloader_gen.go:102-106, 164-169).
THEOREM OnlyRacesLeaveStale == LoaderSpec => []StaleOnlyIfRaced
<1>1. LoaderInit => FreshInv
  BY DEF LoaderInit, FreshInv, Fresh, Idle, StaleOnlyIfRaced
<1>2. LoaderInv /\ FreshInv /\ [LoaderNext]_loaderVars => FreshInv'
  BY FreshStep
<1>3. FreshInv => StaleOnlyIfRaced
  BY DEF FreshInv
<1>4. QED BY <1>1, <1>2, <1>3, LoaderInvHolds, PTL DEF LoaderSpec

---------------------------------------------------------------------------
(* The examples side by side *)

\* Each example behaves as it does alone, so what is proved of it alone holds.
LEMMA ExamplesAreBoth == ExamplesSpec => ChatSpec /\ LoaderSpec
<1>1. ExamplesInit => ChatInit /\ LoaderInit
  BY DEF ExamplesInit
<1>2. [ExamplesNext]_examplesVars => [ChatNext]_chatVars /\ [LoaderNext]_loaderVars
  BY DEF ExamplesNext, examplesVars
<1>3. QED BY <1>1, <1>2, PTL DEF ExamplesSpec, ChatSpec, LoaderSpec

\* All invariants of both, in the behaviours that the run of the examples checks, for
\* any posters, subscribers, rooms, callers, keys and batches.
THEOREM ExamplesAreSafe ==
  ExamplesSpec => [](/\ TypesOK /\ FeedsFollowRoom /\ UnracedPostsStay
                     /\ BatchesFetchedOnce /\ ResultsMatch /\ StaleOnlyIfRaced)
<1>1. ChatTypeOK /\ LoaderTypeOK => TypesOK
  BY DEF TypesOK
<1>2. QED BY <1>1, ExamplesAreBoth, ChatTypeCorrect, LoaderTypeCorrect, FeedsFollow,
             UnracedStay, EachBatchOnce, EveryoneGetsTheirs, OnlyRacesLeaveStale, PTL
=============================================================================
