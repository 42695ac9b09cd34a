--------------------------- MODULE WsConnection ---------------------------
(***************************************************************************)
(* One GraphQL-over-websocket connection, as served by                     *)
(* graphql/handler/transport/websocket.go: the reader goroutine (init,     *)
(* then run), the keepAlive goroutine and one goroutine per registered     *)
(* operation share the socket, the mutex mu and the map active of cancel   *)
(* functions.  The client, the resolvers, a server shutdown and the        *)
(* websocket library are the environment.                                  *)
(*                                                                         *)
(* A write is two steps, Lock and then the write that releases mu, since   *)
(* it may block on a full socket while it holds the mutex.  The sections   *)
(* under mu that only touch active cannot block and are one step.          *)
(***************************************************************************)
EXTENDS Naturals, Sequences

CONSTANTS
    Ops,       \* the start messages the client may send, one operation each
    Ids,       \* the operation ids the client uses
    IdOf,      \* the id each start message carries
    ConnMsgs,  \* the other kinds of message this client may send
    Pings,     \* whether KeepAlivePingInterval is not zero
    Shutdowns, \* whether the server may be shut down
    MaxData,   \* bound: responses one operation puts on the wire
    MaxKa,     \* bound: ka frames on the wire, the one of init included
    OutCap,    \* bound: frames written and not read by the client
    InCap      \* bound: messages sent and not read by the server

None == "none"
Reader == "reader"
KeepAlive == "keepAlive"
Procs == Ops \cup {Reader, KeepAlive}

\* "init" has a payload the code can decode and "badInit" one it cannot;
\* "garbage" is no operationMessage; "other" has a type the server does not
\* know; "close" and "goingAway" are close frames, of a normal and of another
\* code.
AllConnMsgs ==
    {"init", "badInit", "terminate", "garbage", "other", "close", "goingAway"}

ASSUME ConstantsAssumption ==
    /\ IdOf \in [Ops -> Ids]
    /\ Ops \cap {None, Reader, KeepAlive} = {}
    /\ ConnMsgs \subseteq AllConnMsgs
    /\ Pings \in BOOLEAN /\ Shutdowns \in BOOLEAN
    /\ MaxData \in Nat /\ MaxKa \in Nat /\ OutCap \in Nat /\ InCap \in Nat

VARIABLES
    mu,         \* the process that holds wsConnection.mu, or None
    rpc,        \* where the reader is
    rop,        \* the operation of the message the reader is handling
    phase,      \* whether the reader is in init() or in run()
    code,       \* the code of the close the reader is on its way to, or None
    active,     \* wsConnection.active: whose cancel function an id maps to
    opc,        \* where the goroutine of each operation is
    kpc,        \* where the keepAlive goroutine is
    cancelled,  \* the contexts whose cancel function has been called
    down,       \* the server is shutting down: every RequestCtx is done
    conn,       \* the socket, from the server's side
    inbox,      \* client messages not read yet
    out,        \* frames written and not read by the client yet
    sent,       \* per operation, the frames put on the wire for it
    sess,       \* the frames of the connection itself put on the wire
    asked,      \* the messages the client has sent
    over        \* the operations whose complete frame the client has read

server == <<mu, rpc, rop, phase, code, active, opc, kpc, cancelled>>
net == <<conn, inbox, out, sent, sess>>
client == <<asked, over>>
vars == <<server, net, client, down>>

Codes == {"normal", "protocol", "abnormal"}
Start(o) == [type |-> "start", op |-> o]
Stop(o) == [type |-> "stop", op |-> o]
Msgs == [type : {"start", "stop"}, op : Ops] \cup [type : ConnMsgs, op : {None}]
OpFrames == {"data", "error", "complete"}
ConnFrames == {"ack", "ka", "connErr", "echo"} \cup Codes
Frames == [type : OpFrames, op : Ops] \cup [type : ConnFrames, op : {None}]

ReaderWrites == {"ack", "ka", "connErr", "close"} \cup OpFrames
ReaderPcs == ReaderWrites \cup
             {"read", "run", "register", "stop", "sock", "leave", "done", "crashed"}
OpPcs == {"idle", "run", "delete", "ended", "panicked"} \cup OpFrames
KaPcs == {"off", "wait", "ka", "ended"}

\* The places where a process is inside write() or close(), which need mu.
AtWrite(p) ==
    \/ p = Reader /\ rpc \in ReaderWrites
    \/ p = KeepAlive /\ kpc = "ka"
    \/ p \in Ops /\ opc[p] \in OpFrames

TypeOK ==
    /\ mu \in Procs \cup {None}
    /\ rpc \in ReaderPcs
    /\ rop \in Ops \cup {None}
    /\ rpc \in OpFrames \cup {"register", "stop"} => rop \in Ops
    /\ phase \in {"init", "run"}
    /\ code \in Codes \cup {None}
    /\ rpc = "close" => code \in Codes
    /\ active \in [Ids -> Ops \cup {None}]
    /\ opc \in [Ops -> OpPcs]
    /\ kpc \in KaPcs
    /\ cancelled \subseteq Ops \cup {KeepAlive}
    /\ down \in BOOLEAN
    /\ conn \in {"open", "closeSent", "shut", "gone"}
    /\ inbox \in Seq(Msgs)
    /\ out \in Seq(Frames)
    /\ sent \in [Ops -> Seq(OpFrames)]
    /\ sess \in Seq(ConnFrames)
    /\ asked \subseteq Msgs
    /\ over \subseteq Ops

Init ==
    /\ mu = None /\ rpc = "read" /\ rop = None /\ phase = "init" /\ code = None
    /\ active = [i \in Ids |-> None]
    /\ opc = [o \in Ops |-> "idle"]
    /\ kpc = "off" /\ cancelled = {} /\ down = FALSE
    /\ conn = "open" /\ inbox = <<>> /\ out = <<>>
    /\ sent = [o \in Ops |-> <<>>] /\ sess = <<>>
    /\ asked = {} /\ over = {}

---------------------------------------------------------------------------
(* The mutex and the socket *)

\* Mutation: the Unlock is forgotten.
UnlockForgotten == mu' = mu

\* c.mu.Unlock() of write() and close().
Unlock == mu' = None

\* Puts frame f on the wire.  Blocks while the client's buffer is full; once
\* the connection is closed on either side the library drops the frame and
\* the error is ignored by write() and close().
Emit(f) ==
    IF conn = "open"
    THEN /\ Len(out) < OutCap
         /\ out' = Append(out, f)
         /\ IF f.op \in Ops
            THEN /\ sent' = [sent EXCEPT ![f.op] = Append(@, f.type)]
                 /\ sess' = sess
            ELSE /\ sess' = Append(sess, f.type)
                 /\ sent' = sent
    ELSE UNCHANGED <<out, sent, sess>>

\* The library answers a close frame with one of its own, outside mu and with
\* a deadline; when the buffer is full the answer may fail, before or after
\* the connection is marked as closed for writing.
Echo ==
    \/ /\ conn = "open" /\ Len(out) < OutCap
       /\ Emit([type |-> "echo", op |-> None])
       /\ conn' = "closeSent"
    \/ /\ conn = "open" /\ Len(out) >= OutCap
       /\ conn' \in {"open", "closeSent"}
       /\ UNCHANGED <<out, sent, sess>>
    \/ conn # "open" /\ UNCHANGED <<conn, out, sent, sess>>

\* c.mu.Lock() of write() and close().
Lock(p) ==
    /\ mu = None /\ AtWrite(p)
    /\ mu' = p
    /\ UNCHANGED <<rpc, rop, phase, code, active, opc, kpc, cancelled,
                   net, client, down>>

---------------------------------------------------------------------------
(* The reader: init(), then run() and subscribe() *)

\* Mutation: a terminate message is answered by leaving without a close.
TerminatedSilently == <<"leave", None>>

\* The reaction to a terminate message, the same in init() and run().
Terminated == <<"close", "normal">>

\* Where a message of type t takes init(): the next place and the close code.
\* A panic of the user's InitFunc finds nothing deferred.
InitReaction(t) ==
    CASE t = "init" -> {<<"ack", None>>, <<"connErr", "normal">>, <<"crashed", None>>}
      [] t = "badInit" -> {<<"done", None>>}
      [] t = "terminate" -> {Terminated}
      [] t = "close" -> {<<"close", "protocol">>}
      [] OTHER -> {<<"connErr", "protocol">>}

\* Where a message of type t takes the loop of run().  A start is registered,
\* refused by subscribe() with an error or a data frame, or panics in it: a
\* payload of null leaves params nil, and the mutator of persisted queries
\* panics on a context without an operation.  The deferred function of run()
\* then runs, with the operation still in rop.
RunReaction(t) ==
    CASE t = "start" -> {<<"register", None>>, <<"error", None>>, <<"data", None>>,
                         <<"leave", None>>}
      [] t = "stop" -> {<<"stop", None>>}
      [] t = "terminate" -> {Terminated}
      [] t = "close" -> {<<"leave", None>>}
      [] t \in {"garbage", "goingAway"} -> {<<"connErr", None>>}
      [] OTHER -> {<<"connErr", "protocol">>}

Reaction(t) == IF phase = "init" THEN InitReaction(t) ELSE RunReaction(t)

\* readOp() returns a message, or fails on one, and the caller reacts.  The
\* undecodable init payload makes the handler return, which closes the socket,
\* as does the end of the process.
ReadOp ==
    /\ rpc = "read" /\ inbox # <<>>
    /\ LET m == Head(inbox) IN
       \E r \in Reaction(m.type) :
          /\ inbox' = Tail(inbox)
          /\ rpc' = r[1] /\ code' = r[2] /\ rop' = m.op
          /\ IF m.type \in {"close", "goingAway"} THEN Echo
             ELSE /\ conn' = IF r[1] \in {"done", "crashed"} /\ conn # "gone"
                             THEN "shut" ELSE conn
                  /\ UNCHANGED <<out, sent, sess>>
    /\ UNCHANGED <<mu, phase, active, opc, kpc, cancelled, client, down>>

\* readOp() fails because the peer is gone.
ReadFails ==
    /\ rpc = "read" /\ conn = "gone"
    /\ rpc' = "connErr"
    /\ code' = IF phase = "init" THEN "protocol" ELSE None
    /\ UNCHANGED <<mu, rop, phase, active, opc, kpc, cancelled, net, client, down>>

AfterWrite(pc) ==
    CASE pc = "ack" -> "ka"
      [] pc = "ka" -> "run"
      [] pc \in {"error", "data"} -> "complete"
      [] pc = "complete" -> "read"
      [] pc = "connErr" -> IF code = None THEN "leave" ELSE "close"
      [] pc = "close" -> "sock"

\* The reader's write(), and the write of close().
ReaderWrite ==
    /\ rpc \in ReaderWrites /\ mu = Reader
    /\ Emit([type |-> IF rpc = "close" THEN code ELSE rpc,
             op |-> IF rpc \in OpFrames THEN rop ELSE None])
    /\ conn' = IF rpc = "close" /\ conn = "open" THEN "closeSent" ELSE conn
    /\ rpc' = AfterWrite(rpc) /\ Unlock
    /\ rop' = IF rpc = "complete" THEN None ELSE rop
    /\ UNCHANGED <<phase, code, active, opc, kpc, cancelled, inbox, client, down>>

\* run() begins: the ticker is made under mu and keepAlive is started.
Run ==
    /\ rpc = "run" /\ mu = None
    /\ rpc' = "read" /\ phase' = "run"
    /\ kpc' = IF Pings THEN "wait" ELSE kpc
    /\ UNCHANGED <<mu, rop, code, active, opc, cancelled, net, client, down>>

\* subscribe() registers the cancel function and starts the goroutine.
Register ==
    /\ rpc = "register" /\ mu = None
    /\ active' = [active EXCEPT ![IdOf[rop]] = rop]
    /\ opc' = [opc EXCEPT ![rop] = "run"]
    /\ rpc' = "read" /\ rop' = None
    /\ UNCHANGED <<mu, phase, code, kpc, cancelled, net, client, down>>

\* Mutation: the test for nil is inverted.
CalledInverted(i) == {}

\* Whose cancel function a stop for id i calls.
Called(i) == IF active[i] = None THEN {} ELSE {active[i]}

\* A stop message: look the id up under mu, call the cancel function found.
StopOp ==
    /\ rpc = "stop" /\ mu = None
    /\ cancelled' = cancelled \cup Called(IdOf[rop])
    /\ rpc' = "read" /\ rop' = None
    /\ UNCHANGED <<mu, phase, code, active, opc, kpc, net, client, down>>

\* conn.Close() of close(); init() then returns, run() runs its deferred call.
\* After that a panic of subscribe() goes on, which nothing recovers: the
\* process ends.
SockClose ==
    /\ rpc = "sock"
    /\ conn' = IF conn = "gone" THEN conn ELSE "shut"
    /\ rpc' = IF phase = "init" THEN "done"
              ELSE IF code # "abnormal" THEN "leave"
              ELSE IF rop = None THEN "done" ELSE "crashed"
    /\ UNCHANGED <<mu, rop, phase, code, active, opc, kpc, cancelled,
                   inbox, out, sent, sess, client, down>>

\* The deferred function of run(): cancel the keepAlive context, then close.
Leave ==
    /\ rpc = "leave"
    /\ cancelled' = cancelled \cup {KeepAlive}
    /\ rpc' = "close" /\ code' = "abnormal"
    /\ UNCHANGED <<mu, rop, phase, active, opc, kpc, net, client, down>>

ReaderNext == \/ ReadOp \/ ReadFails \/ ReaderWrite \/ Run \/ Register
              \/ StopOp \/ SockClose \/ Leave \/ Lock(Reader)

---------------------------------------------------------------------------
(* keepAlive() *)

KaFrames == Len(SelectSeq(sess, LAMBDA t : t = "ka"))

KaTick ==
    /\ kpc = "wait" /\ (conn = "open" => KaFrames < MaxKa)
    /\ kpc' = "ka"
    /\ UNCHANGED <<mu, rpc, rop, phase, code, active, opc, cancelled,
                   net, client, down>>

KaWrite ==
    /\ kpc = "ka" /\ mu = KeepAlive
    /\ Emit([type |-> "ka", op |-> None])
    /\ kpc' = "wait" /\ Unlock
    /\ UNCHANGED <<rpc, rop, phase, code, active, opc, cancelled,
                   conn, inbox, client, down>>

\* Mutation: keepAlive is given the context of the connection, not of run().
KaDoneOfConnection == down

KaDone == KeepAlive \in cancelled \/ down

KaStop ==
    /\ kpc = "wait" /\ KaDone
    /\ kpc' = "ended"
    /\ UNCHANGED <<mu, rpc, rop, phase, code, active, opc, cancelled,
                   net, client, down>>

KaNext == KaTick \/ KaWrite \/ KaStop \/ Lock(KeepAlive)

---------------------------------------------------------------------------
(* The goroutine of an operation, and its resolver *)

\* The context the operation runs under derives from the RequestCtx, which is
\* done when the server shuts down, and from nothing of the connection.
OpDone(o) == o \in cancelled \/ down

OpGoto(o, pc) ==
    /\ opc' = [opc EXCEPT ![o] = pc]
    /\ UNCHANGED <<rpc, rop, phase, code, kpc, down>>

\* responses(ctx) returns a response.
OpResponse(o) ==
    /\ opc[o] = "run" /\ (conn = "open" => Len(sent[o]) < MaxData)
    /\ OpGoto(o, "data")
    /\ UNCHANGED <<mu, active, cancelled, net, client>>

\* responses(ctx) returns nil: the resolver has closed its channel.
OpEnd(o) ==
    /\ opc[o] = "run"
    /\ OpGoto(o, "complete")
    /\ UNCHANGED <<mu, active, cancelled, net, client>>

\* A panic in responses(ctx) or in the marshalling of a response.
OpPanic(o) ==
    /\ opc[o] = "run"
    /\ OpGoto(o, "error")
    /\ UNCHANGED <<mu, active, cancelled, net, client>>

\* Mutation: recover() is around each response, and the loop goes on.
AfterOpWriteRecovering(pc) ==
    CASE pc \in {"data", "error"} -> "run" [] pc = "complete" -> "delete"

AfterOpWrite(pc) ==
    CASE pc = "data" -> "run"
      [] pc = "complete" -> "delete"
      [] pc = "error" -> "panicked"

\* sendResponse(), complete() or the sendError() of a recovered panic.
OpWrite(o) ==
    /\ opc[o] \in OpFrames /\ mu = o
    /\ Emit([type |-> opc[o], op |-> o])
    /\ Unlock
    /\ OpGoto(o, AfterOpWrite(opc[o]))
    /\ UNCHANGED <<active, cancelled, conn, inbox, client>>

\* Mutation: the map is emptied.
DeregisterAll(o) == active' = [i \in Ids |-> None]

\* Mutation: the entry stays.
DeregisterNothing(o) == active' = active

\* delete(c.active, message.ID), whichever operation the entry belongs to.
Deregister(o) == active' = [active EXCEPT ![IdOf[o]] = None]

\* Mutation: the function in the map is called, not the goroutine's own.
ReleasedByEntry(o) == Called(IdOf[o])

\* cancel(): the context the goroutine made for itself.
Released(o) == {o}

\* After complete: delete the entry of the id under mu, then cancel().
OpDelete(o) ==
    /\ opc[o] = "delete" /\ mu = None
    /\ Deregister(o)
    /\ cancelled' = cancelled \cup Released(o)
    /\ OpGoto(o, "ended")
    /\ UNCHANGED <<mu, net, client>>

OpNext(o) == \/ OpResponse(o) \/ OpEnd(o) \/ OpPanic(o) \/ OpWrite(o)
             \/ OpDelete(o) \/ Lock(o)

---------------------------------------------------------------------------
(* The environment *)

\* A client sends each message at most once and nothing after it has asked to
\* close; it reuses an id only after it has read complete for it, and stops
\* only what it has started and not seen complete.
MaySend(m) ==
    /\ m \notin asked
    /\ \A t \in {"terminate", "close", "goingAway"} :
          [type |-> t, op |-> None] \notin asked
    /\ m.type = "start" =>
          \A p \in Ops \ {m.op} :
             IdOf[p] = IdOf[m.op] /\ Start(p) \in asked => p \in over
    /\ m.type = "stop" => Start(m.op) \in asked /\ m.op \notin over

ClientSend(m) ==
    /\ conn = "open" /\ Len(inbox) < InCap /\ MaySend(m)
    /\ inbox' = Append(inbox, m)
    /\ asked' = asked \cup {m}
    /\ UNCHANGED <<server, conn, out, sent, sess, over, down>>

ClientRead ==
    /\ out # <<>> /\ conn # "gone"
    /\ out' = Tail(out)
    /\ over' = IF Head(out).type = "complete" THEN over \cup {Head(out).op} ELSE over
    /\ UNCHANGED <<server, conn, inbox, sent, sess, asked, down>>

\* The client or the network goes away without a close frame.
ClientGone ==
    /\ conn \in {"open", "closeSent"}
    /\ conn' = "gone" /\ out' = <<>>
    /\ UNCHANGED <<server, inbox, sent, sess, client, down>>

Shutdown == Shutdowns /\ ~down /\ down' = TRUE /\ UNCHANGED <<server, net, client>>

\* The process has not ended with a panic of the reader.
Up == rpc # "crashed"

Next ==
    \/ ReaderNext \/ (Up /\ KaNext) \/ (Up /\ \E o \in Ops : OpNext(o))
    \/ (\E m \in Msgs : ClientSend(m)) \/ ClientRead \/ ClientGone \/ Shutdown

Spec == Init /\ [][Next]_vars

---------------------------------------------------------------------------
(* Safety *)

\* The places of a goroutine that still works for its operation.
Live == {"run", "data", "complete", "delete", "error"}

\* A frame of the connection itself is, or was, on the wire.
Put(t) == \E i \in 1..Len(sess) : sess[i] = t

\* No path leaves write() or close() with mu held: whoever holds it is about
\* to put a frame on the wire (websocket.go:128-132, 310-315).
MuHeldByWriter == mu # None => AtWrite(mu)

\* While an operation can still produce data a stop for its id finds its
\* cancel function, in spite of what other operations register and delete
\* (websocket.go:162-168, 226-229, 249-251).  Holds when no id is reused.
ActiveTracksRunning ==
    \A o \in Ops : opc[o] \in Live \cup {"panicked"} => active[IdOf[o]] = o

\* An entry of active belongs to an operation that still runs, under its own
\* id; only a panic leaves one behind (websocket.go:232-237, 249-251).
EntriesAreLive ==
    \A i \in Ids : active[i] # None =>
        /\ IdOf[active[i]] = i
        /\ opc[active[i]] \in Live \cup {"panicked"}

\* The close code tells the client why: "normal" only for a client that asked
\* to terminate or whose init was refused, "protocol" only for one that broke
\* the protocol or closed during init, "abnormal" for an unreadable message or
\* a close frame in run(), or because subscribe() panicked on a start message,
\* of which there is no other trace (websocket.go:87-126, 138-177, 201).
CloseCodeFaithful ==
    LET Asked(t) == [type |-> t, op |-> None] \in asked
        Panicked(o) == /\ rop = o /\ rpc \in {"sock", "crashed"} /\ Start(o) \in asked
                       /\ opc[o] = "idle" /\ sent[o] = <<>>
    IN  /\ Put("normal") => Asked("terminate") \/ (Asked("init") /\ ~Put("ack"))
        /\ Put("protocol") => Asked("other") \/ ~Put("ack")
                                \/ (Asked("init") /\ Asked("badInit"))
        /\ Put("abnormal") => /\ Put("ack")
                                /\ \/ \E t \in {"garbage", "close", "goingAway"} : Asked(t)
                                   \/ \E o \in Ops : Panicked(o)

\* The context of an operation that has not sent complete is cancelled only if
\* the client stopped that very operation: neither a stop of an earlier
\* operation of the id nor the clean-up of one, both of which may come late,
\* reaches the one that reuses it (websocket.go:162-168, 226-229, 247-252).
CancelledOnlyIfStopped ==
    \A o \in Ops \cap cancelled : Stop(o) \in asked \/ opc[o] \in {"delete", "ended"}

---------------------------------------------------------------------------
(* Refinement *)

Session == INSTANCE WsSession WITH
    session <- IF \E t \in Codes \cup {"echo"} : Put(t) THEN "over"
               ELSE IF Put("ack") THEN "acked" ELSE "fresh",
    stream <- [o \in Ops |->
                 IF sent[o] = <<>> THEN "none"
                 ELSE LET last == sent[o][Len(sent[o])]
                      IN  IF last = "data" THEN "open"
                          ELSE IF last = "error" /\ Len(sent[o]) > 1 THEN "failed" ELSE last]

\* The frames on the wire are a session as WsSession describes it, for every
\* operation, also when the client reuses an id after complete
\* (websocket.go:114-115, 231-282, 310-315).
ImplementsSession == Session!Spec

---------------------------------------------------------------------------
(* Liveness *)

\* A goroutine of a running process that can go on does.  Go's mutex hands itself to a starving
\* waiter, hence strong fairness; select picks at random among ready channels,
\* so keepAlive does take its done channel; a resolver closes its channel some
\* time after its context is done, however many responses it still sends; a
\* client reads what it is sent, or goes away.  Nothing makes a client send, a
\* timer fire or a resolver whose context is not done end.
Fairness ==
    /\ SF_vars(ReaderNext)
    /\ SF_vars(Up /\ (KaWrite \/ Lock(KeepAlive))) /\ SF_vars(Up /\ KaStop)
    /\ \A o \in Ops : /\ SF_vars(Up /\ (Lock(o) \/ OpWrite(o) \/ OpDelete(o)))
                      /\ SF_vars(Up /\ OpDone(o) /\ OpEnd(o))
    /\ WF_vars(ClientRead)

FairSpec == Spec /\ Fairness

\* A client that stops an operation reads its complete, unless the operation
\* panicked or the connection is over (websocket_test.go, "start stop").
StopIsServed ==
    \A o \in Ops :
        Stop(o) \in asked ~> (o \in over \/ opc[o] = "panicked" \/ conn # "open")

\* Leaving run() ends keepAlive (websocket.go:135-141, 180-190).
KeepAliveStops ==
    (rpc = "done" /\ phase = "run" /\ Pings) ~> kpc = "ended"

\* A connection the client ends, in whatever way, is left by its reader, which
\* may have to wait for mu behind blocked writers (websocket.go:138-177); a
\* panic of subscribe() leaves it too, and then ends the process.
ReaderLeaves ==
    (conn # "open" \/ [type |-> "terminate", op |-> None] \in asked)
        ~> rpc \in {"done", "crashed"}

\* The operations of a connection end with it (subscription_test.go:86-107,
\* "wont leak goroutines").
OpsEndWithConnection ==
    \A o \in Ops : rpc = "done" ~> opc[o] \in {"idle", "ended", "panicked"}
=============================================================================
