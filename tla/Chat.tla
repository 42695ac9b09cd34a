-------------------------------- MODULE Chat --------------------------------
(***************************************************************************)
(* The chat server of example/chat: mutations that post to a room and      *)
(* subscriptions that observe it, all over one mutex.  A poster sends its  *)
(* message to the channel of each observer while it holds the mutex; who   *)
(* reads those channels is the transport of the subscription: a websocket  *)
(* reads on for as long as the channel is open, which is forever, and an   *)
(* http POST reads one response.                                           *)
(***************************************************************************)
EXTENDS Naturals, Sequences, SequencesExt, Functions, Sublists

CONSTANTS
    Posters,     \* clients that post, one mutation field after another
    Streams,     \* subscriptions over a websocket
    Singles,     \* subscriptions over http POST
    Rooms,
    Users,       \* a message has one, an observer one or none
    Anyone,      \* the username of an observer without @user
    Nobody,      \* does not hold the mutex
    At, Author,  \* the room of each client, and the user of each poster
    Filter,      \* the user of each subscription, or Anyone
    MaxPosts     \* how many messages each poster sends

Subscribers == Streams \cup Singles
Messages == UNION {{p} \X (1..MaxPosts[p]) : p \in Posters}

ASSUME ChatAssumption ==
    /\ Nobody \notin Posters /\ Anyone \notin Users
    /\ Streams \cap Singles = {} /\ MaxPosts \in [Posters -> Nat]
    /\ At \in [Posters \cup Subscribers -> Rooms]
    /\ Author \in [Posters -> Users] /\ Filter \in [Subscribers -> Users \cup {Anyone}]

VARIABLES
    mu,          \* who holds resolver.mu
    rooms,       \* keys of resolver.Rooms
    log,         \* Chatroom.Messages
    observers,   \* keys of Chatroom.Observers
    channel,     \* observer.Message, with room for one
    ppc, posted, \* a poster: where it is, and the number of its message
    seen,        \* Chatroom.Messages as the poster's append read it
    pending,     \* observers the poster has still to send to
    spc,         \* a subscription: where it is
    done,        \* its context is done
    cleaner,     \* the goroutine that waits for the context
    got,         \* messages the transport has read
    told, since, upto,  \* history: what each room was told, and when one observed
    contended    \* history: messages whose append met another

resolver == <<mu, rooms, log, observers, channel>>
poster == <<ppc, posted, seen, pending>>
subscriber == <<spc, done, cleaner, got>>
past == <<told, since, upto, contended>>
chatVars == <<resolver, poster, subscriber, past>>

ChatTypeOK ==
    /\ mu \in Posters \cup {Nobody}
    /\ rooms \subseteq Rooms
    /\ log \in [Rooms -> Seq(Messages)]
    /\ observers \in [Rooms -> SUBSET Subscribers]
    /\ channel \in [Subscribers -> Seq(Messages)]
    /\ \A s \in Subscribers : Len(channel[s]) <= 1
    /\ ppc \in [Posters -> {"idle", "append", "store", "lock", "send"}]
    /\ posted \in [Posters -> Nat]
    /\ seen \in [Posters -> Seq(Messages)]
    /\ pending \in [Posters -> SUBSET Subscribers]
    /\ spc \in [Subscribers -> {"idle", "register", "open"}]
    /\ done \in [Subscribers -> BOOLEAN]
    /\ cleaner \in [Subscribers -> {"none", "waiting", "gone"}]
    /\ got \in [Subscribers -> Seq(Messages)]
    /\ told \in [Rooms -> Seq(Messages)]
    /\ since \in [Subscribers -> Nat] /\ upto \in [Subscribers -> Nat]
    /\ contended \subseteq Messages

ChatInit ==
    /\ mu = Nobody /\ rooms = {} /\ contended = {}
    /\ log = [r \in Rooms |-> <<>>] /\ told = [r \in Rooms |-> <<>>]
    /\ observers = [r \in Rooms |-> {}]
    /\ channel = [s \in Subscribers |-> <<>>] /\ got = [s \in Subscribers |-> <<>>]
    /\ ppc = [p \in Posters |-> "idle"] /\ posted = [p \in Posters |-> 0]
    /\ seen = [p \in Posters |-> <<>>] /\ pending = [p \in Posters |-> {}]
    /\ spc = [s \in Subscribers |-> "idle"]
    /\ done = [s \in Subscribers |-> FALSE] /\ cleaner = [s \in Subscribers |-> "none"]
    /\ since = [s \in Subscribers |-> 0] /\ upto = [s \in Subscribers |-> 0]

---------------------------------------------------------------------------
(* mutationResolver.Post *)

Message(p) == <<p, posted[p]>>
Appending(p) == ppc[p] = "store"

\* The room is looked up, or made, in a critical section of its own.
FindRoom(p) ==
    /\ ppc[p] = "idle" /\ posted[p] < MaxPosts[p] /\ mu = Nobody
    /\ rooms' = rooms \cup {At[p]}
    /\ posted' = [posted EXCEPT ![p] = @ + 1]
    /\ ppc' = [ppc EXCEPT ![p] = "append"]
    /\ UNCHANGED <<mu, log, observers, channel, seen, pending, subscriber, past>>

\* room.Messages = append(room.Messages, message), without the mutex: the slice
\* is read, and written back later.
Read(p) ==
    /\ ppc[p] = "append"
    /\ seen' = [seen EXCEPT ![p] = log[At[p]]]
    /\ ppc' = [ppc EXCEPT ![p] = "store"]
    /\ LET rivals == {q \in Posters \ {p} : Appending(q) /\ At[q] = At[p]} IN
       contended' = IF rivals = {} THEN contended
                ELSE contended \cup {Message(q) : q \in rivals \cup {p}}
    /\ UNCHANGED <<resolver, posted, pending, subscriber, told, since, upto>>

\* Mutation: the slice is not read again.
StoredAlone(p) == <<Message(p)>>

Stored(p) == Append(seen[p], Message(p))

Store(p) ==
    /\ ppc[p] = "store"
    /\ log' = [log EXCEPT ![At[p]] = Stored(p)]
    /\ ppc' = [ppc EXCEPT ![p] = "lock"]
    /\ seen' = [seen EXCEPT ![p] = <<>>]
    /\ UNCHANGED <<mu, rooms, observers, channel, posted, pending, subscriber, past>>

\* Mutation: an observer with a user gets everything, too.
WantsAll(s, user) == user \in Users

Wants(s, user) == Filter[s] \in {Anyone, user}

\* Mutation: the mutex is released before the sends.
HoldsNot(p) == Nobody

HoldsWhileSending(p) == p

Lock(p) ==
    /\ ppc[p] = "lock" /\ mu = Nobody
    /\ mu' = HoldsWhileSending(p)
    /\ pending' = [pending EXCEPT ![p] = {s \in observers[At[p]] : Wants(s, Author[p])}]
    /\ ppc' = [ppc EXCEPT ![p] = "send"]
    /\ told' = [told EXCEPT ![At[p]] = Append(@, Message(p))]
    /\ UNCHANGED <<rooms, log, observers, channel, posted, seen>>
    /\ UNCHANGED <<subscriber, since, upto, contended>>

\* Mutation: the channel has room for two.
FitsTwo(s) == Len(channel[s]) < 2

Fits(s) == Len(channel[s]) < 1

\* The order of a range over a map is any; a send waits for room in the channel.
Send(p, s) ==
    /\ ppc[p] = "send" /\ s \in pending[p] /\ Fits(s)
    /\ channel' = [channel EXCEPT ![s] = Append(@, Message(p))]
    /\ pending' = [pending EXCEPT ![p] = @ \ {s}]
    /\ UNCHANGED <<mu, rooms, log, observers, ppc, posted, seen, subscriber, past>>

Unlock(p) ==
    /\ ppc[p] = "send" /\ pending[p] = {}
    /\ mu' = Nobody
    /\ ppc' = [ppc EXCEPT ![p] = "idle"]
    /\ UNCHANGED <<rooms, log, observers, channel, posted, seen, pending>>
    /\ UNCHANGED <<subscriber, past>>

---------------------------------------------------------------------------
(* subscriptionResolver.MessageAdded, its goroutine and its transport *)

\* The room is looked up, the goroutine for the clean-up started.
Subscribe(s) ==
    /\ spc[s] = "idle" /\ mu = Nobody
    /\ rooms' = rooms \cup {At[s]}
    /\ cleaner' = [cleaner EXCEPT ![s] = "waiting"]
    /\ spc' = [spc EXCEPT ![s] = "register"]
    /\ UNCHANGED <<mu, log, observers, channel, poster, done, got, past>>

Register(s) ==
    /\ spc[s] = "register" /\ mu = Nobody
    /\ observers' = [observers EXCEPT ![At[s]] = @ \cup {s}]
    /\ spc' = [spc EXCEPT ![s] = "open"]
    /\ since' = [since EXCEPT ![s] = Len(told[At[s]])]
    /\ UNCHANGED <<mu, rooms, log, channel, poster, done, cleaner, got>>
    /\ UNCHANGED <<told, upto, contended>>

\* Mutation: the observer stays.
LeftStays(s) == observers[At[s]]

Left(s) == observers[At[s]] \ {s}

\* <-ctx.Done(), then the observer is deleted; it may not be there yet.
Clean(s) ==
    /\ cleaner[s] = "waiting" /\ done[s] /\ mu = Nobody
    /\ observers' = [observers EXCEPT ![At[s]] = Left(s)]
    /\ cleaner' = [cleaner EXCEPT ![s] = "gone"]
    /\ upto' = [upto EXCEPT ![s] = Len(told[At[s]])]
    /\ UNCHANGED <<mu, rooms, log, channel, poster, spc, done, got>>
    /\ UNCHANGED <<told, since, contended>>

\* A stop over the websocket cancels the context; that of a POST is done only
\* when the server is.
Cancel(s) ==
    /\ s \in Streams /\ spc[s] # "idle" /\ ~done[s]
    /\ done' = [done EXCEPT ![s] = TRUE]
    /\ UNCHANGED <<resolver, poster, spc, cleaner, got, past>>

\* Mutation: the transport stops reading when the context is done.
DrainsWhileLive(s) == IF s \in Streams THEN ~done[s] ELSE got[s] = <<>>

\* subscribe() asks for responses until it gets nil, whatever its context says.
Drains(s) == s \in Streams \/ got[s] = <<>>

Receive(s) ==
    /\ spc[s] = "open" /\ channel[s] # <<>> /\ Drains(s)
    /\ got' = [got EXCEPT ![s] = Append(@, Head(channel[s]))]
    /\ channel' = [channel EXCEPT ![s] = Tail(@)]
    /\ UNCHANGED <<mu, rooms, log, observers, poster, spc, done, cleaner, past>>

PostStep(p) ==
    \/ Read(p) \/ Store(p) \/ Lock(p) \/ Unlock(p)
    \/ \E s \in Subscribers : Send(p, s)

ChatNext ==
    \/ \E p \in Posters : FindRoom(p) \/ PostStep(p)
    \/ \E s \in Subscribers :
          Subscribe(s) \/ Register(s) \/ Clean(s) \/ Cancel(s) \/ Receive(s)

\* Goroutines run, and the mutex is granted in some order.  Nobody has to post,
\* to subscribe or to stop.
ChatFairness ==
    /\ \A p \in Posters : SF_chatVars(PostStep(p))
    /\ \A s \in Subscribers : SF_chatVars(Register(s)) /\ SF_chatVars(Clean(s))
                              /\ WF_chatVars(Receive(s))

ChatSpec == ChatInit /\ [][ChatNext]_chatVars /\ ChatFairness
---------------------------------------------------------------------------
(* Properties *)

\* Where in its room is what s should have been sent: what the room was told while
\* s observed it, by the user it asks for.
Owed(s) ==
    LET room == told[At[s]]
        last == IF s \in observers[At[s]] \/ cleaner[s] # "gone" THEN Len(room) ELSE upto[s]
    IN  {i \in since[s] + 1..last : Filter[s] \in {Anyone, Author[room[i][1]]}}

\* What has been read, what is in the channel, and what a poster is about to send.
Feed(s) ==
    LET has == got[s] \o channel[s] IN
    IF \E p \in Posters : s \in pending[p]
    THEN Append(has, Message(CHOOSE p \in Posters : s \in pending[p]))
    ELSE has

\* Every observer gets exactly what its room is told while it observes, for it,
\* in the order of the room: nothing is lost, doubled, reordered or leaked to
\* another user (resolvers.go:87-93, 134-149).
FeedsFollowRoom ==
    \A s \in Subscribers : spc[s] = "open" => Follows(Feed(s), told[At[s]], Owed(s))

\* The list of messages may lose some to the race of appends, but never one whose
\* append met no other, nor does it hold one twice (resolvers.go:86).
UnracedPostsStay ==
    \A r \in Rooms :
        /\ IsInjective(log[r])
        /\ \A p \in Posters : \A i \in 1..posted[p] :
              /\ At[p] = r /\ <<p, i>> \notin contended
              /\ i = posted[p] => ppc[p] \notin {"append", "store"}
              => \E j \in DOMAIN log[r] : log[r][j] = <<p, i>>

\* The observer that has had its one response and whose channel is full: no one
\* will ever read it.
Stuck(s) == s \in Singles /\ got[s] # <<>> /\ channel[s] # <<>>

\* Every post returns, whatever subscriptions come, go or stop, unless it waits for
\* an observer over POST that has had its response; and then it waits with the
\* mutex (resolvers.go:87-93, http_post.go:53-56, websocket.go:238-247).
PostsReturn ==
    \A p \in Posters :
        (ppc[p] = "append") ~>
            \/ ppc[p] = "idle"
            \/ \E s \in Subscribers, q \in Posters : mu = q /\ s \in pending[q] /\ Stuck(s)

\* An observer whose context is done is deleted, unless it was registered after
\* the clean-up had run, or a poster is stuck (resolvers.go:137-149).
ObserversLeave ==
    \A s \in Streams :
        (done[s] /\ cleaner[s] = "waiting" /\ s \in observers[At[s]]) ~>
            \/ s \notin observers[At[s]]
            \/ \E t \in Subscribers, q \in Posters : mu = q /\ t \in pending[q] /\ Stuck(t)
=============================================================================
