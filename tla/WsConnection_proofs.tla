------------------------ MODULE WsConnection_proofs ------------------------
(***************************************************************************)
(* Theorems about WsConnection for any operations, ids and bounds.         *)
(***************************************************************************)
EXTENDS WsConnection, TLAPS

LEMMA EmitType ==
  ASSUME TypeOK, NEW f \in Frames, Emit(f)
  PROVE  /\ out' \in Seq(Frames)
         /\ sent' \in [Ops -> Seq(OpFrames)]
         /\ sess' \in Seq(ConnFrames)
<1>1. CASE conn = "open"
  <2>0. out' = Append(out, f)
    BY <1>1 DEF Emit
  <2>1. out' \in Seq(Frames)
    BY <2>0 DEF TypeOK
  <2>2. CASE f.op \in Ops
    <3>1. f.type \in OpFrames
      BY <2>2, ConstantsAssumption DEF Frames
    <3>2. Append(sent[f.op], f.type) \in Seq(OpFrames)
      BY <2>2, <3>1 DEF TypeOK
    <3>3. sent' = [sent EXCEPT ![f.op] = Append(@, f.type)] /\ sess' = sess
      BY <1>1, <2>2 DEF Emit
    <3>4. QED BY <2>1, <2>2, <3>2, <3>3 DEF TypeOK
  <2>3. CASE f.op \notin Ops
    <3>1. f.type \in ConnFrames
      BY <2>3 DEF Frames
    <3>2. Append(sess, f.type) \in Seq(ConnFrames)
      BY <3>1 DEF TypeOK
    <3>3. sess' = Append(sess, f.type) /\ sent' = sent
      BY <1>1, <2>3 DEF Emit
    <3>4. QED BY <2>1, <3>2, <3>3 DEF TypeOK
  <2>4. QED BY <2>2, <2>3
<1>2. CASE conn # "open"
  BY <1>2 DEF Emit, TypeOK
<1>3. QED BY <1>1, <1>2

LEMMA EchoType ==
  ASSUME TypeOK, Echo
  PROVE  /\ out' \in Seq(Frames)
         /\ sent' \in [Ops -> Seq(OpFrames)]
         /\ sess' \in Seq(ConnFrames)
         /\ conn' \in {"open", "closeSent", "shut", "gone"}
<1>1. [type |-> "echo", op |-> None] \in Frames
  BY DEF Frames, ConnFrames
<1>2. CASE Emit([type |-> "echo", op |-> None]) /\ conn' = "closeSent"
  BY <1>1, <1>2, EmitType
<1>3. CASE conn' \in {"open", "closeSent"} /\ UNCHANGED <<out, sent, sess>>
  BY <1>3 DEF TypeOK
<1>4. CASE UNCHANGED <<conn, out, sent, sess>>
  BY <1>4 DEF TypeOK
<1>5. QED BY <1>2, <1>3, <1>4 DEF Echo

LEMMA ReactionType ==
  ASSUME TypeOK, NEW m \in Msgs, NEW r \in Reaction(m.type)
  PROVE  /\ r[1] \in ReaderPcs
         /\ r[2] \in Codes \cup {None}
         /\ r[1] = "close" => r[2] \in Codes
         /\ r[1] \in OpFrames \cup {"register", "stop"} => m.op \in Ops
<1>1. m.type \in {"start", "stop"} => m.op \in Ops
  BY ConstantsAssumption DEF Msgs, AllConnMsgs
<1>2. CASE phase = "init"
  BY <1>2 DEF Reaction, InitReaction, Terminated, ReaderPcs, ReaderWrites,
              OpFrames, Codes
<1>3. CASE phase # "init"
  BY <1>1, <1>3 DEF Reaction, RunReaction, Terminated, ReaderPcs, ReaderWrites,
                    OpFrames, Codes
<1>4. QED BY <1>2, <1>3

---------------------------------------------------------------------------
(* Type correctness *)

\* Every variable keeps its type, and a reader that is about to use the
\* operation of its message or a close code has one.
THEOREM TypeCorrect == Spec => []TypeOK
<1>1. Init => TypeOK
  <2> SUFFICES ASSUME Init PROVE TypeOK
    OBVIOUS
  <2>1. inbox \in Seq(Msgs) /\ out \in Seq(Frames) /\ sess \in Seq(ConnFrames)
    BY DEF Init
  <2>2. sent \in [Ops -> Seq(OpFrames)]
    BY DEF Init
  <2>3. rpc \in ReaderPcs /\ rpc \notin OpFrames \cup {"register", "stop", "close"}
    BY DEF Init, ReaderPcs, OpFrames
  <2>4. opc \in [Ops -> OpPcs] /\ kpc \in KaPcs
    BY DEF Init, OpPcs, KaPcs
  <2>5. QED
    BY <2>1, <2>2, <2>3, <2>4 DEF Init, TypeOK, Procs
<1>2. TypeOK /\ [Next]_vars => TypeOK'
  <2> SUFFICES ASSUME TypeOK, [Next]_vars PROVE TypeOK'
    OBVIOUS
  <2>1. CASE ReadOp
    <3>1. PICK r \in Reaction(Head(inbox).type) :
             /\ inbox' = Tail(inbox)
             /\ rpc' = r[1] /\ code' = r[2] /\ rop' = Head(inbox).op
             /\ IF Head(inbox).type \in {"close", "goingAway"} THEN Echo
                ELSE /\ conn' = IF r[1] \in {"done", "crashed"} /\ conn # "gone"
                                THEN "shut" ELSE conn
                     /\ UNCHANGED <<out, sent, sess>>
      BY <2>1 DEF ReadOp
    <3>2. Head(inbox) \in Msgs /\ Tail(inbox) \in Seq(Msgs)
      BY <2>1 DEF ReadOp, TypeOK
    <3>3. Head(inbox).op \in Ops \cup {None}
      BY <3>2 DEF Msgs
    <3>4. /\ out' \in Seq(Frames) /\ sent' \in [Ops -> Seq(OpFrames)]
          /\ sess' \in Seq(ConnFrames)
          /\ conn' \in {"open", "closeSent", "shut", "gone"}
      BY <3>1, EchoType DEF TypeOK
    <3>5. /\ rpc' \in ReaderPcs /\ code' \in Codes \cup {None}
          /\ rpc' = "close" => code' \in Codes
          /\ rpc' \in OpFrames \cup {"register", "stop"} => rop' \in Ops
      BY <3>1, <3>2, ReactionType
    <3>6. QED
      BY <2>1, <3>1, <3>2, <3>3, <3>4, <3>5 DEF ReadOp, TypeOK, client
  <2>2. CASE ReadFails
    BY <2>2 DEF ReadFails, TypeOK, net, client, ReaderPcs, ReaderWrites, Codes, OpFrames
  <2>3. CASE ReaderWrite
    <3> DEFINE f == [type |-> IF rpc = "close" THEN code ELSE rpc,
                     op |-> IF rpc \in OpFrames THEN rop ELSE None]
    <3>1. f \in Frames
      BY <2>3 DEF ReaderWrite, ReaderWrites, Frames, TypeOK, OpFrames, ConnFrames, Codes
    <3>2. Emit(f)
      BY <2>3 DEF ReaderWrite
    <3>3. /\ out' \in Seq(Frames) /\ sent' \in [Ops -> Seq(OpFrames)]
          /\ sess' \in Seq(ConnFrames)
      BY <3>1, <3>2, EmitType
    <3>4. /\ rpc' \in ReaderPcs
          /\ rpc' = "close" => code \in Codes
          /\ rpc' \in OpFrames \cup {"register", "stop"} => rop' \in Ops
      BY <2>3 DEF ReaderWrite, ReaderWrites, AfterWrite, ReaderPcs, OpFrames, TypeOK
    <3>5. QED
      BY <2>3, <3>3, <3>4 DEF ReaderWrite, Unlock, TypeOK, client
  <2>4. CASE Run
    BY <2>4 DEF Run, TypeOK, net, client, ReaderPcs, KaPcs, OpFrames
  <2>5. CASE Register
    BY <2>5, ConstantsAssumption
    DEF Register, TypeOK, net, client, ReaderPcs, OpPcs, OpFrames
  <2>6. CASE StopOp
    BY <2>6, ConstantsAssumption
    DEF StopOp, Called, TypeOK, net, client, ReaderPcs, OpFrames
  <2>7. CASE SockClose
    BY <2>7 DEF SockClose, TypeOK, client, ReaderPcs, OpFrames
  <2>8. CASE Leave
    BY <2>8 DEF Leave, TypeOK, net, client, ReaderPcs, ReaderWrites, OpFrames, Codes
  <2>9. ASSUME NEW p \in Procs, Lock(p) PROVE TypeOK'
    BY <2>9 DEF Lock, TypeOK, net, client
  <2>10. CASE KaTick
    BY <2>10 DEF KaTick, TypeOK, net, client, KaPcs
  <2>11. CASE KaWrite
    <3>1. [type |-> "ka", op |-> None] \in Frames
      BY DEF Frames, ConnFrames
    <3>2. Emit([type |-> "ka", op |-> None])
      BY <2>11 DEF KaWrite
    <3>3. /\ out' \in Seq(Frames) /\ sent' \in [Ops -> Seq(OpFrames)]
          /\ sess' \in Seq(ConnFrames)
      BY <3>1, <3>2, EmitType
    <3>4. QED
      BY <2>11, <3>3 DEF KaWrite, Unlock, TypeOK, client, KaPcs
  <2>12. CASE KaStop
    BY <2>12 DEF KaStop, TypeOK, net, client, KaPcs
  <2>13. ASSUME NEW o \in Ops, OpResponse(o) \/ OpEnd(o) \/ OpPanic(o) PROVE TypeOK'
    <3>1. /\ opc' \in [Ops -> OpPcs] /\ UNCHANGED <<rpc, rop, phase, code, kpc, down>>
          /\ UNCHANGED <<mu, active, cancelled, net, client>>
      BY <2>13 DEF OpResponse, OpEnd, OpPanic, OpGoto, TypeOK, OpPcs, OpFrames
    <3>2. QED BY <3>1 DEF TypeOK, net, client
  <2>14. ASSUME NEW o \in Ops, OpWrite(o) PROVE TypeOK'
    <3>1. [type |-> opc[o], op |-> o] \in Frames
      BY <2>14 DEF OpWrite, Frames
    <3>2. Emit([type |-> opc[o], op |-> o])
      BY <2>14 DEF OpWrite
    <3>3. /\ out' \in Seq(Frames) /\ sent' \in [Ops -> Seq(OpFrames)]
          /\ sess' \in Seq(ConnFrames)
      BY <3>1, <3>2, EmitType
    <3>4. AfterOpWrite(opc[o]) \in OpPcs
      BY <2>14 DEF OpWrite, AfterOpWrite, OpFrames, OpPcs
    <3>5. QED
      BY <2>14, <3>3, <3>4 DEF OpWrite, OpGoto, Unlock, TypeOK, client
  <2>15. ASSUME NEW o \in Ops, OpDelete(o) PROVE TypeOK'
    BY <2>15, ConstantsAssumption
    DEF OpDelete, Deregister, Released, OpGoto, TypeOK, net, client, OpPcs
  <2>16. ASSUME NEW m \in Msgs, ClientSend(m) PROVE TypeOK'
    BY <2>16 DEF ClientSend, TypeOK, server
  <2>17. CASE ClientRead
    <3>1. /\ Head(out) \in Frames /\ Tail(out) \in Seq(Frames)
      BY <2>17 DEF ClientRead, TypeOK
    <3>2. Head(out).type = "complete" => Head(out).op \in Ops
      BY <3>1 DEF Frames, ConnFrames, Codes
    <3>3. QED
      BY <2>17, <3>1, <3>2 DEF ClientRead, TypeOK, server
  <2>18. CASE ClientGone
    BY <2>18 DEF ClientGone, TypeOK, server, client
  <2>19. CASE Shutdown
    BY <2>19 DEF Shutdown, TypeOK, server, net, client
  <2>20. CASE UNCHANGED vars
    BY <2>20 DEF vars, server, net, client, TypeOK
  <2>21. QED
    BY <2>1, <2>2, <2>3, <2>4, <2>5, <2>6, <2>7, <2>8, <2>9, <2>10, <2>11, <2>12,
       <2>13, <2>14, <2>15, <2>16, <2>17, <2>18, <2>19, <2>20
    DEF Next, ReaderNext, KaNext, OpNext, Procs
<1>3. QED BY <1>1, <1>2, PTL DEF Spec

---------------------------------------------------------------------------
(* The mutex *)

\* Only a process at a write holds mu, so no path through a write, a panic or
\* a close leaves the mutex locked.
THEOREM MutexDiscipline == Spec => []MuHeldByWriter
<1>1. Init => MuHeldByWriter
  BY DEF Init, MuHeldByWriter
<1>2. TypeOK /\ MuHeldByWriter /\ [Next]_vars => MuHeldByWriter'
  <2> SUFFICES ASSUME TypeOK, MuHeldByWriter, [Next]_vars PROVE MuHeldByWriter'
    OBVIOUS
  <2> USE DEF MuHeldByWriter
  <2>1. ASSUME mu' = None PROVE MuHeldByWriter'
    BY <2>1
  <2>2. ASSUME mu' = mu, AtWrite(mu) => AtWrite(mu)' PROVE MuHeldByWriter'
    BY <2>2 DEF AtWrite
  <2>3. CASE ReaderNext
    <3>1. CASE Lock(Reader)
      BY <3>1 DEF Lock, AtWrite
    <3>2. CASE ReaderWrite
      BY <3>2, <2>1 DEF ReaderWrite, Unlock
    <3>3. CASE ReadOp \/ ReadFails \/ Run \/ Register \/ StopOp \/ SockClose \/ Leave
      <4>1. (mu' = mu /\ kpc' = kpc) \/ (mu = None /\ mu' = None)
        BY <3>3 DEF ReadOp, ReadFails, Run, Register, StopOp, SockClose, Leave
      <4>2. rpc \notin ReaderWrites
        BY <3>3 DEF ReadOp, ReadFails, Run, Register, StopOp, SockClose, Leave,
                    ReaderWrites, OpFrames
      <4>3. opc' = opc \/ mu' = None
        BY <3>3 DEF ReadOp, ReadFails, Run, Register, StopOp, SockClose, Leave
      <4>4. QED BY <4>1, <4>2, <4>3, <2>1, ConstantsAssumption DEF AtWrite, TypeOK, Procs
    <3>4. QED BY <2>3, <3>1, <3>2, <3>3 DEF ReaderNext
  <2>4. CASE KaNext
    <3>1. CASE Lock(KeepAlive)
      BY <3>1 DEF Lock, AtWrite
    <3>2. CASE KaWrite
      BY <3>2, <2>1 DEF KaWrite, Unlock
    <3>3. CASE KaTick \/ KaStop
      BY <3>3, ConstantsAssumption DEF KaTick, KaStop, AtWrite
    <3>4. QED BY <2>4, <3>1, <3>2, <3>3 DEF KaNext
  <2>5. ASSUME NEW o \in Ops, OpNext(o) PROVE MuHeldByWriter'
    <3>1. CASE Lock(o)
      BY <3>1 DEF Lock, AtWrite
    <3>2. CASE OpWrite(o)
      BY <3>2, <2>1 DEF OpWrite, Unlock
    <3>3. CASE OpDelete(o)
      BY <3>3 DEF OpDelete
    <3>4. CASE OpResponse(o) \/ OpEnd(o) \/ OpPanic(o)
      <4>1. /\ mu' = mu /\ rpc' = rpc /\ kpc' = kpc
            /\ opc[o] = "run" /\ \E pc \in OpFrames : opc' = [opc EXCEPT ![o] = pc]
        BY <3>4 DEF OpResponse, OpEnd, OpPanic, OpGoto, OpFrames
      <4>2. \A p \in Ops : opc[p] \in OpFrames => opc'[p] \in OpFrames
        BY <4>1 DEF TypeOK
      <4>3. QED BY <4>1, <4>2 DEF AtWrite
    <3>5. QED BY <2>5, <3>1, <3>2, <3>3, <3>4 DEF OpNext
  <2>6. CASE \/ \E m \in Msgs : ClientSend(m)
             \/ ClientRead \/ ClientGone \/ Shutdown \/ UNCHANGED vars
    BY <2>6 DEF ClientSend, ClientRead, ClientGone, Shutdown, vars, server, AtWrite
  <2>7. QED BY <2>3, <2>4, <2>5, <2>6 DEF Next
<1>3. QED BY <1>1, <1>2, TypeCorrect, PTL DEF Spec

---------------------------------------------------------------------------
(* The map of cancel functions *)

\* When no two start messages carry one id, active maps the id of every
\* operation that still runs, or panicked, to that operation, and maps nothing
\* else: the two halves of the invariant carry each other.
Entries == ActiveTracksRunning /\ EntriesAreLive

LEMMA EntriesStep ==
  ASSUME \A o, p \in Ops : IdOf[o] = IdOf[p] => o = p,
         TypeOK, Entries, [Next]_vars
  PROVE  Entries'
<1> USE DEF Entries, ActiveTracksRunning, EntriesAreLive
<1>1. ASSUME UNCHANGED <<active, opc>> PROVE Entries'
  BY <1>1
<1>2. CASE Register
  <2>1. /\ rop \in Ops
        /\ active' = [active EXCEPT ![IdOf[rop]] = rop]
        /\ opc' = [opc EXCEPT ![rop] = "run"]
    BY <1>2 DEF Register, TypeOK
  <2>2. ActiveTracksRunning'
    <3>1. SUFFICES ASSUME NEW o \in Ops, opc'[o] \in Live \cup {"panicked"}
                   PROVE  active'[IdOf[o]] = o
      OBVIOUS
    <3>2. CASE o = rop
      BY <2>1, <3>2, ConstantsAssumption DEF TypeOK
    <3>3. CASE o # rop
      <4>1. IdOf[o] # IdOf[rop] /\ active[IdOf[o]] = o
        BY <2>1, <3>1, <3>3 DEF TypeOK
      <4>2. QED BY <2>1, <4>1, ConstantsAssumption DEF TypeOK
    <3>4. QED BY <3>2, <3>3
  <2>3. EntriesAreLive'
    BY <2>1, ConstantsAssumption DEF TypeOK, Live
  <2>4. QED BY <2>2, <2>3
<1>3. ASSUME NEW o \in Ops, OpDelete(o) PROVE Entries'
  <2>1. /\ active' = [active EXCEPT ![IdOf[o]] = None]
        /\ opc[o] = "delete" /\ opc' = [opc EXCEPT ![o] = "ended"]
    BY <1>3 DEF OpDelete, Deregister, OpGoto
  <2>2. active[IdOf[o]] = o
    BY <2>1 DEF Live
  <2>3. ActiveTracksRunning'
    BY <2>1, ConstantsAssumption DEF TypeOK, Live
  <2>4. EntriesAreLive'
    BY <2>1, <2>2, ConstantsAssumption DEF TypeOK
  <2>5. QED BY <2>3, <2>4
<1>4. ASSUME NEW o \in Ops,
             OpResponse(o) \/ OpEnd(o) \/ OpPanic(o) \/ OpWrite(o)
      PROVE  Entries'
  <2>1. PICK pc \in Live \cup {"panicked"} :
           active' = active /\ opc' = [opc EXCEPT ![o] = pc]
    BY <1>4 DEF OpResponse, OpEnd, OpPanic, OpWrite, OpGoto, AfterOpWrite, OpFrames, Live
  <2>2. opc[o] \in Live
    BY <1>4 DEF OpResponse, OpEnd, OpPanic, OpWrite, OpFrames, Live
  <2>3. active[IdOf[o]] = o
    BY <2>2
  <2>4. QED BY <2>1, <2>3 DEF TypeOK
<1>5. QED
  <2>1. CASE \/ ReadOp \/ ReadFails \/ ReaderWrite \/ Run \/ StopOp \/ SockClose
             \/ Leave \/ KaNext \/ \E p \in Procs : Lock(p)
    BY <2>1, <1>1 DEF ReadOp, ReadFails, ReaderWrite, Run, StopOp, SockClose, Leave,
                      KaNext, KaTick, KaWrite, KaStop, Lock
  <2>2. CASE \/ \E m \in Msgs : ClientSend(m)
             \/ ClientRead \/ ClientGone \/ Shutdown \/ UNCHANGED vars
    BY <2>2, <1>1 DEF ClientSend, ClientRead, ClientGone, Shutdown, vars, server
  <2>3. QED
    BY <1>2, <1>3, <1>4, <2>1, <2>2 DEF Next, ReaderNext, OpNext, Procs

\* Fresh ids make stop effective: it finds the cancel function of whatever
\* still runs under the id, and no function of an operation that is over.
THEOREM StopFindsRunning ==
  ASSUME \A o, p \in Ops : IdOf[o] = IdOf[p] => o = p
  PROVE  Spec => []ActiveTracksRunning /\ []EntriesAreLive
<1>1. Init => Entries
  BY ConstantsAssumption
  DEF Init, Entries, ActiveTracksRunning, EntriesAreLive, Live
<1>2. TypeOK /\ Entries /\ [Next]_vars => Entries'
  BY EntriesStep
<1>3. Spec => []Entries
  BY <1>1, <1>2, TypeCorrect, PTL DEF Spec
<1>4. QED BY <1>3, PTL DEF Entries

\* No entry outlives its operation, unless that panicked: the other half.
THEOREM EntriesBelong ==
  ASSUME \A o, p \in Ops : IdOf[o] = IdOf[p] => o = p
  PROVE  Spec => []EntriesAreLive
BY StopFindsRunning, PTL

---------------------------------------------------------------------------
(* The reader on its way through init() and run() *)

AskedFor(t) == [type |-> t, op |-> None] \in asked
Queued(m) == \E i \in 1..Len(inbox) : inbox[i] = m

\* The socket is only written to before a close frame, by either side.
ClosePut == \E t \in Codes \cup {"echo"} : Put(t)

\* Something in run() gave it a reason to leave: an unreadable message or a
\* close frame, unless the socket is no longer open.
RunBroken == conn = "open" => \E t \in {"garbage", "close", "goingAway"} : AskedFor(t)

\* Every message is sent once, so none is read twice.
InboxInv ==
    /\ \A i \in 1..Len(inbox) : inbox[i] \in asked
    /\ \A i, j \in 1..Len(inbox) : inbox[i] = inbox[j] => i = j

\* What each place of the reader says of the messages read and of the frames
\* written so far.
ReaderInv ==
    /\ conn = "open" => ~ClosePut
    /\ phase = "run" \/ rpc \in {"ack", "ka", "run"} =>
          AskedFor("init") /\ ~Queued([type |-> "init", op |-> None])
    /\ phase = "init" /\ rpc \notin {"ka", "run"} => ~Put("ack")
    /\ (phase = "run" \/ rpc \in {"ka", "run"}) /\ conn = "open" => Put("ack")
    /\ phase = "run" => rpc \notin {"ack", "ka", "run"}
    /\ rpc \in {"register", "stop", "leave"} \cup OpFrames => phase = "run"
    /\ rpc \in {"read", "ack", "ka", "run"} => rop = None
    /\ rpc = "connErr" /\ phase = "run" => rop = None
    /\ rpc = "leave" => RunBroken \/ rop \in Ops
    /\ rpc = "sock" => conn # "open"

\* What a close frame on the wire tells, as long as the operation whose start
\* panicked is in rop.
CodeReason ==
    /\ Put("normal") => AskedFor("terminate") \/ (AskedFor("init") /\ ~Put("ack"))
    /\ Put("protocol") => AskedFor("other") \/ ~Put("ack")
                            \/ (AskedFor("init") /\ AskedFor("badInit"))
    /\ Put("abnormal") =>
          /\ Put("ack")
          /\ rpc \in {"sock", "done", "crashed"} /\ phase = "run" /\ code = "abnormal"
          /\ \/ \E t \in {"garbage", "close", "goingAway"} : AskedFor(t)
             \/ rop \in Ops /\ rpc # "done"

\* Why the reader closes with the code it has: only a panic leaves an operation
\* in rop.
CodeInv ==
    /\ rpc \in {"connErr", "close"} =>
          CASE code = "normal" -> AskedFor("terminate") \/ (AskedFor("init") /\ phase = "init")
            [] code = "protocol" -> \/ AskedFor("other") \/ phase = "init"
                                    \/ AskedFor("init") /\ AskedFor("badInit")
            [] OTHER -> phase = "run" /\ (RunBroken \/ rop \in Ops)
    /\ CodeReason

CloseInv == InboxInv /\ ReaderInv /\ CodeInv

---------------------------------------------------------------------------
(* The streams of operations *)

\* The reader refuses or registers o, which is what a start message is for, or
\* unwinds from the panic it made of it.
Unwinding == phase = "run" /\ rpc \in {"leave", "close", "sock", "crashed"}
Handles(o) == rop = o /\ (Unwinding \/ rpc \in OpFrames \cup {"register"})

Ended(o) == sent[o] # <<>> /\ sent[o][Len(sent[o])] = "complete"
OnlyData(o) == \A i \in 1..Len(sent[o]) : sent[o][i] = "data"

\* A start message is in the queue, then the reader's, then the goroutine's;
\* what is on the wire for it says how far it got.
StreamInv(o) ==
    /\ Queued(Start(o)) => sent[o] = <<>> /\ opc[o] = "idle" /\ ~Handles(o)
    /\ Handles(o) =>
          /\ Start(o) \in asked /\ opc[o] = "idle"
          /\ IF rpc = "complete" THEN sent[o] \in {<<>>, <<"data">>, <<"error">>}
             ELSE sent[o] = <<>>
    /\ opc[o] # "idle" => Start(o) \in asked /\ phase = "run"
    /\ opc[o] \in {"run"} \cup OpFrames => OnlyData(o)
    /\ sent[o] # <<>> => Start(o) \in asked
    /\ o \in over => Ended(o)
    /\ \A i \in 1..Len(out) : out[i] = [type |-> "complete", op |-> o] => Ended(o)

\* An id is reused after its complete was read.
ReuseInv ==
    \A o, p \in Ops :
        o # p /\ IdOf[o] = IdOf[p] /\ Start(o) \in asked /\ Start(p) \in asked =>
            o \in over \/ p \in over

SessionInv == CloseInv /\ ReuseInv /\ \A o \in Ops : StreamInv(o)

LEMMA PutStays ==
  ASSUME sess' = sess
  PROVE  \A t : Put(t)' <=> Put(t)
BY DEF Put

LEMMA PutAppended ==
  ASSUME TypeOK, NEW x \in ConnFrames, sess' = Append(sess, x)
  PROVE  \A t : Put(t)' <=> Put(t) \/ t = x
<1>1. /\ sess \in Seq(ConnFrames)
      /\ Len(sess') = Len(sess) + 1
      /\ sess'[Len(sess) + 1] = x
      /\ \A i \in 1..Len(sess) : sess'[i] = sess[i]
  BY DEF TypeOK
<1>2. Len(sess) \in Nat
  BY <1>1
<1>3. QED BY <1>1, <1>2 DEF Put

\* What a frame of the connection and a frame of an operation change.
LEMMA EmitConn ==
  ASSUME TypeOK, NEW t \in ConnFrames, Emit([type |-> t, op |-> None])
  PROVE  /\ sent' = sent
         /\ conn = "open" => /\ \A u : Put(u)' <=> Put(u) \/ u = t
                             /\ out' = Append(out, [type |-> t, op |-> None])
         /\ conn # "open" => UNCHANGED <<out, sess>>
<1>1. None \notin Ops
  BY ConstantsAssumption
<1>2. QED BY <1>1, PutAppended DEF Emit

LEMMA EmitOp ==
  ASSUME TypeOK, NEW o \in Ops, NEW t \in OpFrames, Emit([type |-> t, op |-> o])
  PROVE  /\ sess' = sess
         /\ \A p \in Ops \ {o} : sent'[p] = sent[p]
         /\ conn = "open" => /\ sent' = [sent EXCEPT ![o] = Append(@, t)]
                             /\ out' = Append(out, [type |-> t, op |-> o])
         /\ conn # "open" => UNCHANGED <<out, sent>>
BY DEF Emit, TypeOK

LEMMA EchoPut ==
  ASSUME TypeOK, Echo
  PROVE  /\ sent' = sent
         /\ \/ /\ conn = "open" /\ conn' = "closeSent"
               /\ \A u : Put(u)' <=> Put(u) \/ u = "echo"
               /\ out' = Append(out, [type |-> "echo", op |-> None])
            \/ /\ UNCHANGED <<out, sess>> /\ (conn # "open" => conn' # "open")
<1>1. "echo" \in ConnFrames
  BY DEF ConnFrames
<1>2. QED BY <1>1, EmitConn DEF Echo

\* What the reader writes: a frame of the connection, or of its operation.
LEMMA ReaderFrame ==
  ASSUME TypeOK, ReaderWrite
  PROVE  /\ rpc \in OpFrames => rop \in Ops /\ Emit([type |-> rpc, op |-> rop])
         /\ rpc \in {"ack", "ka", "connErr"} => Emit([type |-> rpc, op |-> None])
         /\ rpc = "close" => code \in Codes /\ Emit([type |-> code, op |-> None])
         /\ rpc \in OpFrames \cup {"ack", "ka", "connErr", "close"}
BY DEF ReaderWrite, ReaderWrites, TypeOK, OpFrames

LEMMA InboxStep ==
  ASSUME TypeOK, InboxInv, [Next]_vars
  PROVE  /\ InboxInv' /\ asked \subseteq asked'
         /\ \A m \in asked : Queued(m)' => Queued(m)
         /\ ReadOp => \A m : m = Head(inbox) => m \in asked /\ ~Queued(m)'
<1>1. CASE UNCHANGED <<inbox, asked>> /\ ~ReadOp
  BY <1>1 DEF InboxInv, Queued
<1>2. CASE ReadOp
  <2>1. /\ inbox \in Seq(Msgs) /\ inbox # <<>>
        /\ inbox' = Tail(inbox) /\ asked' = asked
    BY <1>2 DEF ReadOp, TypeOK, client
  <2>2. /\ Len(inbox) \in Nat \ {0} /\ Len(inbox') = Len(inbox) - 1
        /\ \A i \in 1..Len(inbox') : i + 1 \in 1..Len(inbox) /\ inbox'[i] = inbox[i + 1]
        /\ Head(inbox) = inbox[1]
    BY <2>1
  <2>3. InboxInv'
    BY <2>1, <2>2 DEF InboxInv
  <2>4. \A m \in asked : Queued(m)' => Queued(m)
    BY <2>2 DEF Queued
  <2>5. \A m : m = inbox[1] => m \in asked /\ ~Queued(m)'
    BY <2>2 DEF InboxInv, Queued
  <2>6. QED BY <2>1, <2>2, <2>3, <2>4, <2>5
<1>3. ASSUME NEW m \in Msgs, ClientSend(m), ~ReadOp
      PROVE  InboxInv' /\ asked \subseteq asked' /\ \A n \in asked : Queued(n)' => Queued(n)
  <2>1. /\ inbox \in Seq(Msgs) /\ m \notin asked
        /\ inbox' = Append(inbox, m) /\ asked' = asked \cup {m}
    BY <1>3 DEF ClientSend, MaySend, TypeOK
  <2>2. /\ Len(inbox) \in Nat /\ Len(inbox') = Len(inbox) + 1
        /\ \A i \in 1..Len(inbox) : inbox'[i] = inbox[i]
        /\ inbox'[Len(inbox) + 1] = m
    BY <2>1
  <2>3. InboxInv'
    BY <2>1, <2>2 DEF InboxInv
  <2>4. \A n \in asked : Queued(n)' => Queued(n)
    BY <2>1, <2>2 DEF Queued
  <2>5. QED BY <2>1, <2>3, <2>4
<1>4. QED
  <2>1. CASE \/ ReadFails \/ ReaderWrite \/ Run \/ Register \/ StopOp \/ SockClose \/ Leave
             \/ KaNext \/ (\E p \in Procs : Lock(p))
    <3>1. UNCHANGED <<inbox, asked>>
      BY <2>1 DEF ReadFails, ReaderWrite, Run, Register, StopOp, SockClose, Leave, KaNext,
                  KaTick, KaWrite, KaStop, Lock, net, client
    <3>2. QED BY <1>1, <1>2, <3>1
  <2>2. ASSUME NEW o \in Ops, OpNext(o) PROVE UNCHANGED <<inbox, asked>>
    BY <2>2 DEF OpNext, OpResponse, OpEnd, OpPanic, OpWrite, OpDelete, Lock, net, client
  <2>3. CASE ClientRead \/ ClientGone \/ Shutdown \/ UNCHANGED vars
    <3>1. UNCHANGED <<inbox, asked>>
      BY <2>3 DEF ClientRead, ClientGone, Shutdown, vars, net, client
    <3>2. QED BY <1>1, <1>2, <3>1
  <2>4. QED
    BY <1>1, <1>2, <1>3, <2>1, <2>2, <2>3 DEF Next, ReaderNext, KaNext, Procs

\* What no step takes away: messages asked for, and why run() is broken.
LEMMA CloseMonotone ==
  ASSUME TypeOK, InboxInv, [Next]_vars
  PROVE  /\ \A t : AskedFor(t) => AskedFor(t)'
         /\ conn # "open" => conn' # "open"
         /\ RunBroken => RunBroken'
         /\ AskedFor("init") /\ ~Queued([type |-> "init", op |-> None])
            => ~Queued([type |-> "init", op |-> None])'
<1>1. asked \subseteq asked' /\ \A m \in asked : Queued(m)' => Queued(m)
  BY InboxStep
<1>2. conn # "open" => conn' # "open"
  <2>1. CASE ReadOp
    BY <2>1, EchoPut DEF ReadOp
  <2>2. CASE \/ ReadFails \/ ReaderWrite \/ Run \/ Register \/ StopOp \/ SockClose \/ Leave
             \/ KaNext \/ (\E p \in Procs : Lock(p))
    BY <2>2 DEF ReadFails, ReaderWrite, Run, Register, StopOp, SockClose, Leave, KaNext,
                KaTick, KaWrite, KaStop, Lock, net
  <2>3. ASSUME NEW o \in Ops, OpNext(o) PROVE conn' = conn
    BY <2>3 DEF OpNext, OpResponse, OpEnd, OpPanic, OpWrite, OpDelete, Lock, net
  <2>4. CASE (\E m \in Msgs : ClientSend(m)) \/ ClientRead \/ ClientGone \/ Shutdown \/ UNCHANGED vars
    BY <2>4 DEF ClientSend, ClientRead, ClientGone, Shutdown, vars, net
  <2>5. QED BY <2>1, <2>2, <2>3, <2>4 DEF Next, ReaderNext, KaNext, Procs
<1>3. QED BY <1>1, <1>2 DEF AskedFor, RunBroken

\* A close frame is the last frame of the connection.
LEMMA CloseStep ==
  ASSUME TypeOK, CloseInv, [Next]_vars
  PROVE  CloseInv'
<1> USE DEF CloseInv
<1>1. InboxInv'
  BY InboxStep
<1>2. /\ \A t : AskedFor(t) => AskedFor(t)'
      /\ conn # "open" => conn' # "open"
      /\ RunBroken => RunBroken'
      /\ AskedFor("init") /\ ~Queued([type |-> "init", op |-> None])
         => ~Queued([type |-> "init", op |-> None])'
  BY CloseMonotone
<1>3. ASSUME UNCHANGED <<rpc, rop, phase, code>>, \A t : Put(t)' <=> Put(t)
      PROVE  ReaderInv' /\ CodeInv'
  <2>1. ReaderInv'
    BY <1>2, <1>3 DEF ReaderInv, ClosePut
  <2>2. CodeInv'
    BY <1>2, <1>3 DEF CodeInv, CodeReason, AskedFor
  <2>3. QED BY <2>1, <2>2
<1>4. CASE ReadOp
  <2> DEFINE m == Head(inbox)
  <2>1. PICK r \in Reaction(m.type) :
           /\ rpc' = r[1] /\ code' = r[2] /\ rop' = m.op
           /\ IF m.type \in {"close", "goingAway"} THEN Echo
              ELSE /\ conn' = IF r[1] \in {"done", "crashed"} /\ conn # "gone"
                              THEN "shut" ELSE conn
                   /\ UNCHANGED <<out, sent, sess>>
    BY <1>4 DEF ReadOp
  <2>2. rpc = "read" /\ phase' = phase /\ m \in Msgs
    BY <1>4 DEF ReadOp, TypeOK
  <2>3. m \in asked /\ m \in asked' /\ \A n : n = m => ~Queued(n)'
    BY <1>4, InboxStep
  <2>4. /\ Put("ack")' <=> Put("ack")
        /\ conn' = "open" => (\A t : Put(t)' <=> Put(t)) 
        /\ \A t \in Codes : Put(t)' <=> Put(t)
    <3>1. CASE UNCHANGED sess
      BY <3>1, PutStays
    <3>2. CASE conn' = "closeSent" /\ \A u : Put(u)' <=> Put(u) \/ u = "echo"
      BY <3>2 DEF Codes
    <3>3. QED BY <2>1, <3>1, <3>2, EchoPut
  <2>5. m.type = "init" => m = [type |-> "init", op |-> None]
    BY <2>2 DEF Msgs
  <2>6. \A t : m.type = t /\ t \notin {"start", "stop"} => AskedFor(t)'
    BY <2>2, <2>3 DEF Msgs, AskedFor
  <2>7. CASE phase = "init"
    <3>1. \/ m.type = "init" /\ r \in {<<"ack", None>>, <<"connErr", "normal">>}
          \/ r = <<"done", None>> \/ r = <<"crashed", None>>
          \/ m.type = "terminate" /\ r = <<"close", "normal">>
          \/ r = <<"close", "protocol">>
          \/ r = <<"connErr", "protocol">>
      BY <2>1, <2>7 DEF Reaction, InitReaction, Terminated
    <3>2. ReaderInv'
      BY <1>2, <2>1, <2>2, <2>3, <2>4, <2>5, <2>6, <2>7, <3>1
      DEF ReaderInv, ClosePut, OpFrames
    <3>3. CodeInv'
      <4>1. \/ rpc' \notin {"connErr", "close"}
            \/ code' = "normal" /\ (AskedFor("terminate")' \/ AskedFor("init")')
            \/ code' = "protocol"
        BY <2>1, <2>6, <3>1
      <4>2. phase' = "init"
        BY <2>2, <2>7
      <4>3. CodeReason'
        BY <1>2, <2>2, <2>4 DEF CodeInv, CodeReason, AskedFor, Codes
      <4>4. QED BY <4>1, <4>2, <4>3 DEF CodeInv
    <3>4. QED BY <1>1, <3>2, <3>3
  <2>8. CASE phase # "init"
    <3>0. phase = "run"
      BY <2>8 DEF TypeOK
    <3>1. \/ r[1] \in {"register", "error", "data", "stop"}
          \/ m.type = "start" /\ r = <<"leave", None>>
          \/ m.type = "terminate" /\ r = <<"close", "normal">>
          \/ m.type = "close" /\ r = <<"leave", None>>
          \/ m.type \in {"garbage", "goingAway"} /\ r = <<"connErr", None>>
          \/ m.type \in {"init", "badInit", "other"} /\ r = <<"connErr", "protocol">>
      BY <2>1, <2>2, <2>8, ConstantsAssumption
      DEF Reaction, RunReaction, Terminated, Msgs, AllConnMsgs
    <3>2. /\ m.type \in {"garbage", "close", "goingAway"} => RunBroken'
          /\ m.type = "start" => m.op \in Ops
          /\ m.type \notin {"start", "stop"} => m.op = None
      BY <2>2, <2>6, ConstantsAssumption DEF RunBroken, Msgs, AllConnMsgs
    <3>3. ReaderInv'
      BY <1>2, <2>1, <2>2, <2>4, <3>0, <3>1, <3>2 DEF ReaderInv, ClosePut, OpFrames
    <3>4. m.type # "init"
      <4>1. inbox[1] = m /\ 1 \in 1..Len(inbox)
        BY <1>4 DEF ReadOp, TypeOK
      <4>2. Queued(m)
        BY <4>1 DEF Queued
      <4>3. QED BY <2>5, <3>0, <4>2 DEF ReaderInv
    <3>5. CodeInv'
      <4>1. \/ rpc' \notin {"connErr", "close"}
            \/ code' = "normal" /\ AskedFor("terminate")'
            \/ code' = None /\ RunBroken'
            \/ code' = "protocol" /\ AskedFor("init")'
               /\ (AskedFor("other")' \/ AskedFor("badInit")')
        BY <1>2, <2>1, <2>6, <3>0, <3>1, <3>2, <3>4 DEF ReaderInv
      <4>2. phase' = "run"
        BY <2>2, <3>0
      <4>3. CodeReason'
        BY <1>2, <2>2, <2>4 DEF CodeInv, CodeReason, AskedFor, Codes
      <4>4. QED BY <4>1, <4>2, <4>3 DEF CodeInv, None
    <3>6. QED BY <1>1, <3>3, <3>5
  <2>9. QED BY <2>7, <2>8
<1>5. CASE ReadFails
  <2>1. /\ rpc' = "connErr" /\ rpc = "read" /\ phase' = phase /\ conn = "gone" /\ conn' = conn
        /\ rop' = rop
        /\ code' = IF phase = "init" THEN "protocol" ELSE None
        /\ \A t : Put(t)' <=> Put(t)
    BY <1>5, PutStays DEF ReadFails, net
  <2>2. ReaderInv'
    BY <1>2, <2>1 DEF ReaderInv, OpFrames
  <2>3. CodeInv'
    BY <1>2, <2>1 DEF CodeInv, CodeReason, AskedFor, RunBroken, TypeOK, None
  <2>4. QED BY <1>1, <2>2, <2>3
<1>6. CASE ReaderWrite
  <2>1. /\ phase' = phase /\ code' = code /\ rpc' = AfterWrite(rpc)
        /\ conn' = IF rpc = "close" /\ conn = "open" THEN "closeSent" ELSE conn
        /\ rop' = IF rpc = "complete" THEN None ELSE rop
    BY <1>6 DEF ReaderWrite
  <2>2. CASE rpc \in OpFrames
    <3>1. \A t : Put(t)' <=> Put(t)
      BY <1>6, <2>2, ReaderFrame, EmitOp, PutStays
    <3>2. rpc' = (IF rpc = "complete" THEN "read" ELSE "complete") /\ conn' = conn
      BY <2>1, <2>2 DEF AfterWrite, OpFrames
    <3>3. ReaderInv'
      BY <1>2, <2>1, <2>2, <3>1, <3>2 DEF ReaderInv, ClosePut, OpFrames
    <3>4. CodeInv'
      BY <1>2, <2>2, <3>1, <3>2 DEF CodeInv, CodeReason, AskedFor, OpFrames
    <3>5. QED BY <1>1, <3>3, <3>4
  <2>3. CASE rpc \in {"ack", "ka", "connErr"}
    <3>1. rpc \in ConnFrames
      BY <2>3 DEF ConnFrames
    <3>2. \A u : Put(u)' <=> Put(u) \/ (conn = "open" /\ u = rpc)
      BY <1>6, <2>3, <3>1, ReaderFrame, EmitConn, PutStays
    <3>3. conn' = conn
      BY <2>1, <2>3
    <3>4. rpc' = IF rpc = "ack" THEN "ka" ELSE IF rpc = "ka" THEN "run"
                 ELSE IF code = None THEN "leave" ELSE "close"
      BY <2>1, <2>3 DEF AfterWrite
    <3>5. rpc = "connErr" /\ code = None => phase = "run" /\ RunBroken
      BY ConstantsAssumption DEF CodeInv, ReaderInv, None
    <3>6. ReaderInv'
      BY <1>2, <2>1, <2>3, <3>2, <3>3, <3>4, <3>5 DEF ReaderInv, ClosePut, OpFrames, Codes
    <3>7. CodeReason'
      <4>1. rpc = "ack" /\ conn = "open" => ~Put("normal") /\ ~Put("protocol") /\ ~Put("abnormal")
        BY DEF ReaderInv, ClosePut, Codes
      <4>2. \A t \in Codes : Put(t)' <=> Put(t)
        BY <2>3, <3>2 DEF Codes
      <4>3. Put("ack")' <=> Put("ack") \/ (rpc = "ack" /\ conn = "open")
        BY <3>2
      <4>4. QED BY <1>2, <2>3, <4>1, <4>2, <4>3 DEF CodeInv, CodeReason, AskedFor, Codes
    <3>8. CodeInv'
      BY <1>2, <2>1, <2>3, <3>4, <3>7 DEF CodeInv
    <3>9. QED BY <1>1, <3>6, <3>8
  <2>4. CASE rpc = "close"
    <3>1. code \in Codes /\ code \in ConnFrames
      BY <1>6, <2>4, ReaderFrame DEF ConnFrames
    <3>2. \A u : Put(u)' <=> Put(u) \/ (conn = "open" /\ u = code)
      BY <1>6, <2>4, <3>1, ReaderFrame, EmitConn, PutStays
    <3>3. conn' # "open" /\ rpc' = "sock"
      BY <2>1, <2>4 DEF AfterWrite
    <3>4. ReaderInv'
      BY <1>2, <2>1, <2>4, <3>1, <3>2, <3>3 DEF ReaderInv, ClosePut, OpFrames, Codes
    <3>5. Put("ack")' <=> Put("ack")
      BY <3>1, <3>2 DEF Codes
    <3>6. phase = "init" => ~Put("ack")
      BY <2>4 DEF ReaderInv
    <3>7. code = "abnormal" /\ conn = "open" =>
             /\ Put("ack") /\ phase = "run"
             /\ rop \in Ops \/ \E t \in {"garbage", "close", "goingAway"} : AskedFor(t)
      BY <2>4 DEF ReaderInv, CodeInv, RunBroken
    <3>8. CodeReason'
      BY <1>2, <2>1, <2>4, <3>1, <3>2, <3>3, <3>5, <3>6, <3>7 DEF CodeInv, CodeReason, AskedFor, Codes
    <3>9. CodeInv'
      BY <3>3, <3>8 DEF CodeInv
    <3>10. QED BY <1>1, <3>4, <3>9
  <2>5. QED BY <1>6, <2>2, <2>3, <2>4, ReaderFrame
<1>7. CASE Run \/ Register \/ StopOp \/ SockClose
  <2>1. /\ rpc \in {"run", "register", "stop", "sock"}
        /\ rpc' \in {"read", "done", "leave", "crashed"}
        /\ rpc' = "leave" => rpc = "sock" /\ phase # "init" /\ code # "abnormal"
        /\ rpc = "sock" <=> rpc' # "read"
        /\ rpc' = "done" /\ phase = "run" => rop = None
        /\ rpc \in {"run", "sock"} => rop' = rop
        /\ rpc \in {"register", "stop"} => rop' = None
        /\ phase' = IF rpc = "run" THEN "run" ELSE phase
        /\ code' = code
        /\ \A t : Put(t)' <=> Put(t)
    <3>1. CASE Run
      BY <1>7, <3>1, PutStays DEF Run, net
    <3>2. CASE Register \/ StopOp
      BY <3>2, PutStays DEF Register, StopOp, net
    <3>3. CASE SockClose
      BY <3>3, PutStays DEF SockClose
    <3>4. QED BY <1>7, <3>1, <3>2, <3>3
  <2>2. rpc = "sock" => conn # "open" /\ RunBroken'
    BY <1>2 DEF ReaderInv, RunBroken
  <2>3. phase \in {"init", "run"}
    BY DEF TypeOK
  <2>4. ReaderInv'
    BY <1>2, <2>1, <2>2, <2>3 DEF ReaderInv, ClosePut, OpFrames
  <2>5. CodeInv'
    BY <1>2, <2>1, ConstantsAssumption DEF CodeInv, CodeReason, AskedFor
  <2>6. QED BY <1>1, <2>4, <2>5
<1>8. CASE Leave
  <2>1. /\ rpc = "leave" /\ rpc' = "close" /\ code' = "abnormal" /\ phase' = phase
        /\ rop' = rop
        /\ \A t : Put(t)' <=> Put(t)
    BY <1>8, PutStays DEF Leave, net
  <2>2. phase = "run" /\ (RunBroken' \/ rop' \in Ops)
    BY <1>2, <2>1 DEF ReaderInv
  <2>3. ReaderInv'
    BY <1>2, <2>1, <2>2 DEF ReaderInv, ClosePut, OpFrames
  <2>4. CodeInv'
    BY <1>2, <2>1, <2>2 DEF CodeInv, CodeReason, AskedFor
  <2>5. QED BY <1>1, <2>3, <2>4
<1>9. CASE KaWrite
  <2>1. "ka" \in ConnFrames
    BY DEF ConnFrames
  <2>2. UNCHANGED <<rpc, rop, phase, code, conn>> /\ Emit([type |-> "ka", op |-> None])
    BY <1>9 DEF KaWrite
  <2>3. \A u : Put(u)' <=> Put(u) \/ (conn = "open" /\ u = "ka")
    BY <2>1, <2>2, EmitConn, PutStays
  <2>4. ReaderInv'
    BY <1>2, <2>2, <2>3 DEF ReaderInv, ClosePut, Codes
  <2>5. CodeInv'
    BY <1>2, <2>2, <2>3 DEF CodeInv, CodeReason, AskedFor
  <2>6. QED BY <1>1, <2>4, <2>5
<1>10. QED
  <2>1. CASE KaTick \/ KaStop \/ (\E p \in Procs : Lock(p))
    BY <2>1, <1>1, <1>3, PutStays DEF KaTick, KaStop, Lock, net
  <2>2. ASSUME NEW o \in Ops, OpResponse(o) \/ OpEnd(o) \/ OpPanic(o) \/ OpDelete(o)
        PROVE  CloseInv'
    BY <2>2, <1>1, <1>3, PutStays DEF OpResponse, OpEnd, OpPanic, OpDelete, OpGoto, net
  <2>3. ASSUME NEW o \in Ops, OpWrite(o) PROVE CloseInv'
    <3>1. sess' = sess /\ UNCHANGED <<rpc, rop, phase, code>>
      BY <2>3, EmitOp DEF OpWrite, OpGoto
    <3>2. QED BY <3>1, <1>1, <1>3, PutStays
  <2>4. CASE (\E m \in Msgs : ClientSend(m)) \/ ClientRead \/ ClientGone \/ Shutdown \/ UNCHANGED vars
    BY <2>4, <1>1, <1>3, PutStays
    DEF ClientSend, ClientRead, ClientGone, Shutdown, vars, server, net
  <2>5. QED
    BY <1>4, <1>5, <1>6, <1>7, <1>8, <1>9, <2>1, <2>2, <2>3, <2>4
    DEF Next, ReaderNext, KaNext, OpNext, Procs

LEMMA CloseInit == Init => CloseInv
<1> SUFFICES ASSUME Init PROVE CloseInv
  OBVIOUS
<1>1. \A t : ~Put(t)
  BY DEF Init, Put
<1>2. InboxInv
  BY DEF Init, InboxInv
<1>3. ReaderInv /\ CodeInv
  BY <1>1 DEF Init, ReaderInv, CodeInv, CodeReason, ClosePut, OpFrames
<1>4. QED BY <1>2, <1>3 DEF CloseInv

---------------------------------------------------------------------------
(* Streams *)

\* A frame for o is the last of its stream.
LEMMA SentSeq ==
  ASSUME TypeOK, NEW o \in Ops, NEW t \in OpFrames, sent' = [sent EXCEPT ![o] = Append(@, t)]
  PROVE  /\ sent[o] \in Seq(OpFrames) /\ sent'[o] = Append(sent[o], t)
         /\ sent'[o] # <<>> /\ sent'[o][Len(sent'[o])] = t
         /\ OnlyData(o) /\ t = "data" => OnlyData(o)'
         /\ t = "complete" <=> Ended(o)'
         /\ \A p \in Ops \ {o} : sent'[p] = sent[p]
<1>1. /\ sent[o] \in Seq(OpFrames) /\ sent'[o] = Append(sent[o], t)
      /\ \A p \in Ops \ {o} : sent'[p] = sent[p]
  BY DEF TypeOK
<1>2. /\ Len(sent[o]) \in Nat /\ Len(sent'[o]) = Len(sent[o]) + 1
      /\ sent'[o][Len(sent[o]) + 1] = t
      /\ \A i \in 1..Len(sent[o]) : sent'[o][i] = sent[o][i]
  BY <1>1
<1>3. sent'[o] # <<>> /\ sent'[o][Len(sent'[o])] = t
  BY <1>1, <1>2
<1>4. OnlyData(o) /\ t = "data" => OnlyData(o)'
  BY <1>2 DEF OnlyData
<1>5. t = "complete" <=> Ended(o)'
  BY <1>3 DEF Ended
<1>6. QED BY <1>1, <1>3, <1>4, <1>5

\* A stream that has ended is not one of responses only.
LEMMA EndedStream ==
  ASSUME TypeOK, NEW o \in Ops, Ended(o)
  PROVE  /\ ~OnlyData(o) /\ sent[o] # <<>>
         /\ sent[o] \notin {<<>>, <<"data">>, <<"error">>}
<1>1. sent[o] \in Seq(OpFrames) /\ sent[o] # <<>> /\ sent[o][Len(sent[o])] = "complete"
  BY DEF TypeOK, Ended
<1>2. Len(sent[o]) \in 1..Len(sent[o])
  BY <1>1
<1>3. ~OnlyData(o)
  BY <1>1, <1>2 DEF OnlyData
<1>4. QED BY <1>1, <1>3

\* Frames in the buffer for the streams: a step that appends one, or takes one.
CompletesSound(o) ==
    \A i \in 1..Len(out) : out[i] = [type |-> "complete", op |-> o] => Ended(o)

LEMMA OutAppended ==
  ASSUME TypeOK, NEW o \in Ops, CompletesSound(o), NEW f, out' = Append(out, f),
         Ended(o) => Ended(o)', f = [type |-> "complete", op |-> o] => Ended(o)'
  PROVE  CompletesSound(o)'
<1>1. /\ Len(out) \in Nat /\ Len(out') = Len(out) + 1 /\ out'[Len(out) + 1] = f
      /\ \A i \in 1..Len(out) : out'[i] = out[i]
  BY DEF TypeOK
<1>2. QED BY <1>1 DEF CompletesSound

\* What a step that is not of o, nor of its messages, leaves of its invariant.
LEMMA StreamStays ==
  ASSUME NEW o \in Ops, StreamInv(o), sent'[o] = sent[o], opc'[o] = opc[o],
         Handles(o)' => Handles(o) /\ (rpc' = rpc \/ "complete" \notin {rpc, rpc'}),
         Queued(Start(o))' => Queued(Start(o)),
         asked \subseteq asked', phase = "run" => phase' = "run",
         o \in over' => o \in over, CompletesSound(o)'
  PROVE  StreamInv(o)'
BY DEF StreamInv, Ended, OnlyData, CompletesSound, Start

LEMMA OutKept ==
  ASSUME NEW o \in Ops, StreamInv(o), out' = out, sent'[o] = sent[o]
  PROVE  CompletesSound(o)'
BY DEF CompletesSound, StreamInv, Ended

\* Starts are told apart by their operations.
LEMMA StartMsg ==
  ASSUME NEW o \in Ops
  PROVE  /\ Start(o) \in Msgs
         /\ \A m \in Msgs : m.type = "start" /\ m.op = o => m = Start(o)
         /\ \A m \in Msgs : m = Start(o) => m.type = "start" /\ m.op = o
BY DEF Start, Msgs

\* The queue and the messages asked for, from the point of view of a start.
LEMMA QueuedStep ==
  ASSUME TypeOK, InboxInv, [Next]_vars, NEW o \in Ops
  PROVE  /\ asked \subseteq asked'
         /\ asked' = asked => (Queued(Start(o))' => Queued(Start(o)))
<1>1. asked \subseteq asked' /\ InboxInv' /\ \A m \in asked : Queued(m)' => Queued(m)
  BY InboxStep
<1>2. Queued(Start(o))' => Start(o) \in asked'
  BY <1>1 DEF Queued, InboxInv, Start
<1>3. QED BY <1>1, <1>2

LEMMA StreamStep ==
  ASSUME TypeOK, SessionInv, [Next]_vars
  PROVE  \A o \in Ops : StreamInv(o)'
<1> SUFFICES ASSUME NEW o \in Ops PROVE StreamInv(o)'
  OBVIOUS
<1>1. /\ StreamInv(o) /\ InboxInv /\ ReaderInv
      /\ asked \subseteq asked'
      /\ asked' = asked => (Queued(Start(o))' => Queued(Start(o)))
  BY QueuedStep DEF SessionInv, CloseInv
<1>2. CompletesSound(o)
  BY <1>1 DEF StreamInv, CompletesSound
<1>3. CASE ReadOp
  <2> DEFINE m == Head(inbox)
  <2>1. PICK r \in Reaction(m.type) :
           /\ rpc' = r[1] /\ rop' = m.op
           /\ IF m.type \in {"close", "goingAway"} THEN Echo ELSE UNCHANGED <<out, sent, sess>>
    BY <1>3 DEF ReadOp
  <2>2. /\ rpc = "read" /\ phase' = phase /\ m \in Msgs /\ UNCHANGED <<opc, asked, over>>
        /\ m = inbox[1] /\ 1 \in 1..Len(inbox)
    BY <1>3 DEF ReadOp, TypeOK, client
  <2>3. sent' = sent
    BY <2>1, EchoPut
  <2>4. CompletesSound(o)'
    <3>1. CASE out' = out
      BY <1>1, <2>3, <3>1, OutKept
    <3>2. CASE out' = Append(out, [type |-> "echo", op |-> None])
      <4>1. [type |-> "echo", op |-> None] # [type |-> "complete", op |-> o]
        OBVIOUS
      <4>2. Ended(o) => Ended(o)'
        BY <2>3 DEF Ended
      <4>3. QED BY <1>2, <3>2, <4>1, <4>2, OutAppended
    <3>3. QED BY <2>1, <3>1, <3>2, EchoPut
  <2>5. ~Handles(o)
    BY <2>2 DEF Handles, Unwinding, OpFrames
  <2>6. CASE ~Handles(o)'
    BY <1>1, <2>2, <2>3, <2>4, <2>6, StreamStays
  <2>7. CASE Handles(o)'
    <3>0. m.op = o /\ m.type \in {"start", "stop"}
      BY <2>1, <2>2, <2>7, ConstantsAssumption DEF Handles, Msgs
    <3>1. rpc' \in OpFrames \cup {"register"} \/ (phase = "run" /\ rpc' # "stop")
      BY <2>2, <2>7 DEF Handles, Unwinding
    <3>2. phase = "run"
      BY <2>1, <3>0, <3>1 DEF Reaction, InitReaction, Terminated, TypeOK, OpFrames
    <3>3. m.type = "start" /\ rpc' # "complete"
      BY <2>1, <3>0, <3>1, <3>2 DEF Reaction, RunReaction, Terminated, OpFrames
    <3>4. m = Start(o)
      BY <2>2, <3>0, <3>3, StartMsg
    <3>5. Queued(Start(o)) /\ Start(o) \in asked
      BY <1>1, <2>2, <3>4 DEF Queued, InboxInv
    <3>6. ~Queued(Start(o))'
      BY <1>1, <1>3, <3>4, InboxStep DEF Start
    <3>7. sent[o] = <<>> /\ opc[o] = "idle" /\ o \notin over
      BY <1>1, <3>5 DEF StreamInv, Ended
    <3>8. QED BY <2>2, <2>3, <2>4, <3>2, <3>3, <3>5, <3>6, <3>7
                 DEF StreamInv, CompletesSound, OpFrames
  <2>8. QED BY <2>6, <2>7
<1>4. CASE \/ ReadFails \/ Run \/ StopOp \/ SockClose \/ Leave \/ (\E p \in Procs : Lock(p))
           \/ KaTick \/ KaStop \/ Shutdown \/ UNCHANGED vars
  <2>1. UNCHANGED <<opc, out, sent, asked, over>>
    BY <1>4 DEF ReadFails, Run, StopOp, SockClose, Leave, Lock, KaTick, KaStop, Shutdown,
                vars, server, net, client
  <2>2. /\ \/ UNCHANGED <<rpc, rop, phase>> \/ rpc' \in {"connErr", "read", "done"}
           \/ /\ rpc \in {"sock", "leave"} /\ rpc' \in {"leave", "close", "crashed"}
              /\ UNCHANGED <<rop, phase>>
        /\ phase = "run" => phase' = "run"
    BY <1>4 DEF ReadFails, Run, StopOp, SockClose, Leave, Lock, KaTick, KaStop, Shutdown,
                vars, server
  <2>3. Handles(o)' => Handles(o) /\ (rpc' = rpc \/ "complete" \notin {rpc, rpc'})
    BY <2>2 DEF Handles, Unwinding, OpFrames
  <2>4. CompletesSound(o)'
    BY <1>1, <2>1, OutKept
  <2>5. QED BY <1>1, <2>1, <2>2, <2>3, <2>4, StreamStays
<1>5. CASE ReaderWrite
  <2>1. /\ rpc' = AfterWrite(rpc) /\ rop' = IF rpc = "complete" THEN None ELSE rop
        /\ UNCHANGED <<phase, opc, asked, over>>
    BY <1>5 DEF ReaderWrite, client
  <2>2. CASE rpc \in OpFrames /\ rop = o
    <3>1. /\ Handles(o) /\ Emit([type |-> rpc, op |-> o])
      BY <1>5, <2>2, ReaderFrame DEF Handles, Unwinding
    <3>2. ~Queued(Start(o))' /\ ~Ended(o) /\ Start(o) \in asked /\ opc[o] = "idle"
      BY <1>1, <2>1, <3>1, EndedStream DEF StreamInv, Ended
    <3>3. rpc' = (IF rpc = "complete" THEN "read" ELSE "complete")
      BY <2>1, <2>2 DEF AfterWrite, OpFrames
    <3>4. CASE conn = "open"
      <4>1. /\ sent' = [sent EXCEPT ![o] = Append(@, rpc)]
            /\ out' = Append(out, [type |-> rpc, op |-> o])
        BY <2>2, <3>1, <3>4, EmitOp
      <4>2. /\ sent'[o] = Append(sent[o], rpc)
            /\ (rpc = "complete" <=> Ended(o)') /\ sent'[o] # <<>>
        BY <2>2, <4>1, SentSeq
      <4>3. CompletesSound(o)'
        BY <1>2, <3>2, <4>1, <4>2, OutAppended
      <4>4. rpc # "complete" => sent'[o] \in {<<"data">>, <<"error">>}
        <5>1. rpc # "complete" => sent[o] = <<>> /\ rpc \in {"data", "error"}
          BY <1>1, <2>2, <3>1 DEF StreamInv, OpFrames
        <5>2. Append(<<>>, rpc) = <<rpc>>
          OBVIOUS
        <5>3. QED BY <4>2, <5>1, <5>2
      <4>5. o \notin over
        BY <1>1, <3>2 DEF StreamInv
      <4>6. QED BY <2>1, <2>2, <3>2, <3>3, <4>2, <4>3, <4>4, <4>5
                   DEF StreamInv, CompletesSound, Handles, Unwinding, OpFrames
    <3>5. CASE conn # "open"
      <4>1. UNCHANGED <<out, sent>>
        BY <2>2, <3>1, <3>5, EmitOp
      <4>2. CompletesSound(o)'
        BY <1>1, <4>1, OutKept
      <4>3. o \notin over
        BY <1>1, <3>2 DEF StreamInv
      <4>4. QED BY <1>1, <2>1, <2>2, <3>1, <3>2, <3>3, <4>1, <4>2, <4>3
                   DEF StreamInv, CompletesSound, Handles, Unwinding, OpFrames
    <3>6. QED BY <3>4, <3>5
  <2>3. CASE rpc \in OpFrames /\ rop # o
    <3>1. rop \in Ops /\ Emit([type |-> rpc, op |-> rop])
      BY <1>5, <2>3, ReaderFrame
    <3>2. sent'[o] = sent[o] /\ (out' = out \/ out' = Append(out, [type |-> rpc, op |-> rop]))
      BY <2>3, <3>1, EmitOp
    <3>3. CompletesSound(o)'
      <4>1. [type |-> rpc, op |-> rop] # [type |-> "complete", op |-> o]
        BY <2>3
      <4>2. Ended(o) => Ended(o)'
        BY <3>2 DEF Ended
      <4>3. CASE out' = out
        BY <1>1, <3>2, <4>3, OutKept
      <4>4. CASE out' = Append(out, [type |-> rpc, op |-> rop])
        BY <1>2, <4>1, <4>2, <4>4, OutAppended
      <4>5. QED BY <3>2, <4>3, <4>4
    <3>4. ~Handles(o)'
      BY <2>1, <2>3, ConstantsAssumption DEF Handles, Unwinding
    <3>5. QED BY <1>1, <2>1, <3>2, <3>3, <3>4, StreamStays
  <2>4. CASE rpc \notin OpFrames
    <3>1. PICK t \in ConnFrames : Emit([type |-> t, op |-> None])
      BY <1>5, <2>4, ReaderFrame DEF ConnFrames
    <3>2. sent' = sent /\ (out' = out \/ out' = Append(out, [type |-> t, op |-> None]))
      BY <3>1, EmitConn
    <3>3. CompletesSound(o)'
      <4>1. [type |-> t, op |-> None] # [type |-> "complete", op |-> o]
        BY ConstantsAssumption
      <4>2. Ended(o) => Ended(o)'
        BY <3>2 DEF Ended
      <4>3. CASE out' = out
        BY <1>1, <3>2, <4>3, OutKept
      <4>4. CASE out' = Append(out, [type |-> t, op |-> None])
        BY <1>2, <4>1, <4>2, <4>4, OutAppended
      <4>5. QED BY <3>2, <4>3, <4>4
    <3>4. \/ rpc' \in {"ka", "run"}
          \/ rpc = "close" /\ rpc' = "sock"
          \/ rpc = "connErr" /\ rpc' \in {"leave", "close"}
      <4>1. rpc \in {"ack", "ka", "connErr", "close"}
        BY <1>5, <2>4, ReaderFrame
      <4>2. rpc = "connErr" => rpc' \in {"leave", "close"}
        BY <2>1 DEF AfterWrite
      <4>3. (rpc \in {"ack", "ka"} => rpc' \in {"ka", "run"}) /\ (rpc = "close" => rpc' = "sock")
        BY <2>1 DEF AfterWrite
      <4>4. QED BY <4>1, <4>2, <4>3
    <3>5. Handles(o)' => Handles(o) /\ "complete" \notin {rpc, rpc'}
      BY <1>1, <2>1, <3>4, ConstantsAssumption DEF Handles, Unwinding, OpFrames, ReaderInv
    <3>6. QED BY <1>1, <2>1, <3>2, <3>3, <3>5, StreamStays
  <2>5. QED BY <2>2, <2>3, <2>4
<1>6. CASE Register
  <2>1. /\ rpc = "register" /\ rpc' = "read" /\ rop \in Ops
        /\ opc' = [opc EXCEPT ![rop] = "run"]
        /\ UNCHANGED <<phase, out, sent, asked, over>>
    BY <1>6 DEF Register, TypeOK, net, client
  <2>2. CompletesSound(o)' /\ ~Handles(o)'
    BY <1>1, <2>1, OutKept DEF Handles, Unwinding, OpFrames
  <2>3. CASE o # rop
    <3>1. opc'[o] = opc[o]
      BY <2>1, <2>3
    <3>2. QED BY <1>1, <2>1, <2>2, <3>1, StreamStays
  <2>4. CASE o = rop
    <3>1. opc'[o] = "run"
      BY <2>1, <2>4 DEF TypeOK
    <3>2. /\ sent[o] = <<>> /\ Start(o) \in asked /\ phase = "run" /\ ~Queued(Start(o))
      BY <1>1, <2>1, <2>4 DEF StreamInv, Handles, ReaderInv, OpFrames
    <3>3. o \notin over /\ OnlyData(o)'
      BY <1>1, <2>1, <3>2 DEF StreamInv, Ended, OnlyData
    <3>4. QED BY <1>1, <2>1, <2>2, <3>1, <3>2, <3>3 DEF StreamInv, CompletesSound
  <2>5. QED BY <2>3, <2>4
<1>7. CASE KaWrite
  <2>1. /\ UNCHANGED <<rpc, rop, phase, opc, asked, over>>
        /\ Emit([type |-> "ka", op |-> None]) /\ "ka" \in ConnFrames
    BY <1>7 DEF KaWrite, client, ConnFrames
  <2>2. sent' = sent /\ (out' = out \/ out' = Append(out, [type |-> "ka", op |-> None]))
    BY <2>1, EmitConn
  <2>3. CompletesSound(o)'
    <3>1. [type |-> "ka", op |-> None] # [type |-> "complete", op |-> o]
      BY ConstantsAssumption
    <3>2. Ended(o) => Ended(o)'
      BY <2>2 DEF Ended
    <3>3. CASE out' = out
      BY <1>1, <2>2, <3>3, OutKept
    <3>4. CASE out' = Append(out, [type |-> "ka", op |-> None])
      BY <1>2, <3>1, <3>2, <3>4, OutAppended
    <3>5. QED BY <2>2, <3>3, <3>4
  <2>4. Handles(o)' => Handles(o) /\ (rpc' = rpc \/ "complete" \notin {rpc, rpc'})
    BY <2>1 DEF Handles, Unwinding
  <2>5. QED BY <1>1, <2>1, <2>2, <2>3, <2>4, StreamStays
<1>8. ASSUME NEW p \in Ops, OpResponse(p) \/ OpEnd(p) \/ OpPanic(p) \/ OpDelete(p)
      PROVE  StreamInv(o)'
  <2>1. /\ UNCHANGED <<rpc, rop, phase, out, sent, asked, over>>
        /\ \/ opc[p] = "run" /\ \E l \in OpFrames : opc' = [opc EXCEPT ![p] = l]
           \/ opc[p] = "delete" /\ opc' = [opc EXCEPT ![p] = "ended"]
    BY <1>8 DEF OpResponse, OpEnd, OpPanic, OpDelete, OpGoto, net, client, OpFrames
  <2>2. CompletesSound(o)' /\ (Handles(o)' <=> Handles(o))
    BY <1>1, <2>1, OutKept DEF Handles, Unwinding
  <2>3. CASE o # p
    <3>1. opc'[o] = opc[o]
      BY <2>1, <2>3 DEF TypeOK
    <3>2. QED BY <1>1, <2>1, <2>2, <3>1, StreamStays
  <2>4. CASE o = p
    <3>1. \/ opc[o] = "run" /\ opc'[o] \in OpFrames
          \/ opc[o] = "delete" /\ opc'[o] = "ended"
      BY <2>1, <2>4 DEF TypeOK
    <3>2. /\ Start(o) \in asked /\ phase = "run" /\ ~Queued(Start(o)) /\ ~Handles(o)
          /\ opc[o] = "run" => OnlyData(o)
      BY <1>1, <3>1 DEF StreamInv
    <3>3. QED BY <1>1, <2>1, <2>2, <3>1, <3>2
                 DEF StreamInv, CompletesSound, OnlyData, Ended, OpFrames
  <2>5. QED BY <2>3, <2>4
<1>9. ASSUME NEW p \in Ops, OpWrite(p) PROVE StreamInv(o)'
  <2>1. /\ opc[p] \in OpFrames /\ Emit([type |-> opc[p], op |-> p])
        /\ opc' = [opc EXCEPT ![p] = AfterOpWrite(opc[p])]
        /\ UNCHANGED <<rpc, rop, phase, asked, over>>
    BY <1>9 DEF OpWrite, OpGoto, client
  <2>2. Handles(o)' <=> Handles(o)
    BY <2>1 DEF Handles, Unwinding
  <2>3. CASE o # p
    <3>1. /\ opc'[o] = opc[o] /\ sent'[o] = sent[o]
          /\ out' = out \/ out' = Append(out, [type |-> opc[p], op |-> p])
      BY <2>1, <2>3, EmitOp
    <3>2. CompletesSound(o)'
      <4>1. [type |-> opc[p], op |-> p] # [type |-> "complete", op |-> o]
        BY <2>3
      <4>2. Ended(o) => Ended(o)'
        BY <3>1 DEF Ended
      <4>3. CASE out' = out
        BY <1>1, <3>1, <4>3, OutKept
      <4>4. CASE out' = Append(out, [type |-> opc[p], op |-> p])
        BY <1>2, <4>1, <4>2, <4>4, OutAppended
      <4>5. QED BY <3>1, <4>3, <4>4
    <3>3. QED BY <1>1, <2>1, <2>2, <3>1, <3>2, StreamStays
  <2>4. CASE o = p
    <3>1. /\ opc'[o] = AfterOpWrite(opc[o]) /\ opc[o] \in OpFrames
          /\ Emit([type |-> opc[o], op |-> o])
      BY <2>1, <2>4 DEF TypeOK
    <3>2. /\ Start(o) \in asked /\ phase = "run" /\ ~Queued(Start(o)) /\ ~Handles(o)
          /\ OnlyData(o)
      BY <1>1, <3>1 DEF StreamInv, OpFrames
    <3>3. ~Ended(o) /\ o \notin over
      BY <1>1, <3>2, EndedStream DEF StreamInv
    <3>4. opc'[o] \in {"run", "delete", "panicked"} /\ (opc'[o] = "run" <=> opc[o] = "data")
      BY <3>1 DEF AfterOpWrite, OpFrames
    <3>5. CASE conn = "open"
      <4>1. /\ sent' = [sent EXCEPT ![o] = Append(@, opc[o])]
            /\ out' = Append(out, [type |-> opc[o], op |-> o])
        BY <3>1, <3>5, EmitOp
      <4>2. /\ (opc[o] = "complete" <=> Ended(o)')
            /\ opc[o] = "data" => OnlyData(o)'
        BY <3>1, <3>2, <4>1, SentSeq
      <4>3. CompletesSound(o)'
        BY <1>2, <3>3, <4>1, <4>2, OutAppended
      <4>4. QED BY <1>1, <2>1, <2>2, <3>2, <3>3, <3>4, <4>2, <4>3
                   DEF StreamInv, CompletesSound, OpFrames
    <3>6. CASE conn # "open"
      <4>1. UNCHANGED <<out, sent>>
        BY <3>1, <3>6, EmitOp
      <4>2. CompletesSound(o)'
        BY <1>1, <4>1, OutKept
      <4>3. QED BY <1>1, <2>1, <2>2, <3>2, <3>3, <3>4, <4>1, <4>2
                   DEF StreamInv, CompletesSound, OnlyData, OpFrames
    <3>7. QED BY <3>5, <3>6
  <2>5. QED BY <2>3, <2>4
<1>10. ASSUME NEW m \in Msgs, ClientSend(m) PROVE StreamInv(o)'
  <2>1. /\ UNCHANGED <<rpc, rop, phase, opc, out, sent, over>>
        /\ m \notin asked /\ asked' = asked \cup {m}
    BY <1>10 DEF ClientSend, MaySend, server
  <2>2. CompletesSound(o)' /\ (Handles(o)' <=> Handles(o))
    BY <1>1, <2>1, OutKept DEF Handles, Unwinding
  <2>3. CASE Queued(Start(o))' => Queued(Start(o))
    BY <1>1, <2>1, <2>2, <2>3, StreamStays
  <2>4. CASE Queued(Start(o))' /\ ~Queued(Start(o))
    <3>1. Start(o) \notin asked
      <4>1. \A n \in asked : Queued(n)' => Queued(n)
        BY <1>1, InboxStep
      <4>2. QED BY <2>4, <4>1
    <3>2. sent[o] = <<>> /\ opc[o] = "idle" /\ ~Handles(o) /\ o \notin over
      BY <1>1, <3>1 DEF StreamInv, Ended, TypeOK, OpPcs
    <3>3. QED BY <1>1, <2>1, <2>2, <3>2 DEF StreamInv, CompletesSound, OpFrames
  <2>5. QED BY <2>3, <2>4
<1>11. CASE ClientRead
  <2>1. /\ out # <<>> /\ out' = Tail(out)
        /\ over' = IF Head(out).type = "complete" THEN over \cup {Head(out).op} ELSE over
        /\ UNCHANGED <<rpc, rop, phase, opc, sent, asked>>
    BY <1>11 DEF ClientRead, server
  <2>2. /\ out \in Seq(Frames) /\ Len(out') = Len(out) - 1 /\ Len(out) \in Nat \ {0}
        /\ \A i \in 1..Len(out') : i + 1 \in 1..Len(out) /\ out'[i] = out[i + 1]
        /\ Head(out) = out[1] /\ 1 \in 1..Len(out) /\ out[1] \in Frames
    BY <2>1 DEF TypeOK
  <2>3. CompletesSound(o)'
    BY <1>2, <2>1, <2>2 DEF CompletesSound, Ended
  <2>4. out[1].type = "complete" /\ out[1].op = o => out[1] = [type |-> "complete", op |-> o]
    BY <2>2 DEF Frames
  <2>5. o \in over' => Ended(o)
    BY <1>1, <1>2, <2>1, <2>2, <2>4 DEF StreamInv, CompletesSound
  <2>6. Handles(o)' <=> Handles(o)
    BY <2>1 DEF Handles, Unwinding
  <2>7. QED BY <1>1, <2>1, <2>3, <2>5, <2>6 DEF StreamInv, CompletesSound, OnlyData, Ended
<1>12. CASE ClientGone
  <2>1. out' = <<>> /\ UNCHANGED <<rpc, rop, phase, opc, sent, asked, over>>
    BY <1>12 DEF ClientGone, server, client
  <2>2. CompletesSound(o)' /\ (Handles(o)' <=> Handles(o))
    BY <2>1 DEF Handles, Unwinding, CompletesSound
  <2>3. QED BY <1>1, <2>1, <2>2, StreamStays
<1>13. QED
  BY <1>3, <1>4, <1>5, <1>6, <1>7, <1>8, <1>9, <1>10, <1>11, <1>12
  DEF Next, ReaderNext, KaNext, OpNext, Procs

\* What the client has read stays read.
LEMMA OverGrows ==
  ASSUME [Next]_vars
  PROVE  over \subseteq over'
<1>1. CASE ClientRead
  BY <1>1 DEF ClientRead
<1>2. CASE \/ ReadOp \/ ReadFails \/ ReaderWrite \/ Run \/ Register \/ StopOp \/ SockClose
           \/ Leave \/ KaNext \/ (\E p \in Procs : Lock(p))
  BY <1>2 DEF ReadOp, ReadFails, ReaderWrite, Run, Register, StopOp, SockClose, Leave,
              KaNext, KaTick, KaWrite, KaStop, Lock, client
<1>3. ASSUME NEW o \in Ops, OpNext(o) PROVE over' = over
  BY <1>3 DEF OpNext, OpResponse, OpEnd, OpPanic, OpWrite, OpDelete, Lock, client
<1>4. CASE (\E m \in Msgs : ClientSend(m)) \/ ClientGone \/ Shutdown \/ UNCHANGED vars
  BY <1>4 DEF ClientSend, ClientGone, Shutdown, vars, client
<1>5. QED BY <1>1, <1>2, <1>3, <1>4 DEF Next, ReaderNext, KaNext, Procs

LEMMA ReuseStep ==
  ASSUME TypeOK, SessionInv, [Next]_vars
  PROVE  ReuseInv'
<1>1. over \subseteq over'
  BY OverGrows
<1>2. CASE asked' = asked
  BY <1>1, <1>2 DEF SessionInv, ReuseInv, Start
<1>3. ASSUME NEW m \in Msgs, ClientSend(m) PROVE ReuseInv'
  <2>1. /\ asked' = asked \cup {m} /\ over' = over
        /\ m.type = "start" =>
              \A p \in Ops \ {m.op} : IdOf[p] = IdOf[m.op] /\ Start(p) \in asked => p \in over
    BY <1>3 DEF ClientSend, MaySend
  <2>2. \A o \in Ops : m = Start(o) => m.type = "start" /\ m.op = o
    BY StartMsg
  <2>3. \A o \in Ops : Start(o) \in asked' => Start(o) \in asked \/ m = Start(o)
    BY <2>1
  <2>4. SUFFICES ASSUME NEW o \in Ops, NEW p \in Ops, o # p, IdOf[o] = IdOf[p],
                        Start(o) \in asked', Start(p) \in asked'
                 PROVE  o \in over \/ p \in over
    BY <2>1 DEF ReuseInv, Start
  <2>5. CASE Start(o) \in asked /\ Start(p) \in asked
    BY <2>4, <2>5 DEF SessionInv, ReuseInv
  <2>6. CASE m = Start(o)
    BY <2>1, <2>2, <2>3, <2>4, <2>6
  <2>7. CASE m = Start(p)
    BY <2>1, <2>2, <2>3, <2>4, <2>7
  <2>8. QED BY <2>3, <2>4, <2>5, <2>6, <2>7
<1>4. QED
  <2>1. CASE \/ ReadOp \/ ReadFails \/ ReaderWrite \/ Run \/ Register \/ StopOp \/ SockClose
             \/ Leave \/ KaNext \/ (\E p \in Procs : Lock(p))
    BY <2>1, <1>2 DEF ReadOp, ReadFails, ReaderWrite, Run, Register, StopOp, SockClose, Leave,
                KaNext, KaTick, KaWrite, KaStop, Lock, client
  <2>2. ASSUME NEW o \in Ops, OpNext(o) PROVE asked' = asked
    BY <2>2 DEF OpNext, OpResponse, OpEnd, OpPanic, OpWrite, OpDelete, Lock, client
  <2>3. CASE ClientRead \/ ClientGone \/ Shutdown \/ UNCHANGED vars
    BY <2>3, <1>2 DEF ClientRead, ClientGone, Shutdown, vars, client
  <2>4. QED BY <1>2, <1>3, <2>1, <2>2, <2>3 DEF Next, ReaderNext, KaNext, Procs

LEMMA SessionInit == Init => SessionInv
<1> SUFFICES ASSUME Init PROVE SessionInv
  OBVIOUS
<1>2. CloseInv
  BY CloseInit
<1>3. ASSUME NEW o \in Ops PROVE StreamInv(o)
  <2>1. /\ sent[o] = <<>> /\ opc[o] = "idle" /\ o \notin over /\ Len(out) = 0
        /\ ~Handles(o)
    BY DEF Init, Handles, Unwinding, OpFrames
  <2>2. QED BY <2>1 DEF StreamInv, OpFrames
<1>4. ReuseInv
  BY DEF Init, ReuseInv
<1>5. QED BY <1>2, <1>3, <1>4 DEF SessionInv

LEMMA SessionStep ==
  ASSUME TypeOK, SessionInv, [Next]_vars
  PROVE  SessionInv'
BY CloseStep, StreamStep, ReuseStep DEF SessionInv

\* Whatever the peer sends, loses or leaves unread, the close code names the
\* reason, a panic of subscribe() being one: the invariant ties each place of
\* the reader to the messages read, and the start it panicked on, of which
\* nothing is on the wire, to rop.
THEOREM CloseCodesAreFaithful == Spec => []CloseCodeFaithful
<1>1. SessionInv => CloseCodeFaithful
  <2> SUFFICES ASSUME SessionInv PROVE CloseCodeFaithful
    OBVIOUS
  <2>1. CodeReason
    BY DEF SessionInv, CloseInv, CodeInv
  <2>2. ASSUME Put("abnormal"), rop \in Ops, rpc # "done"
        PROVE  /\ rpc \in {"sock", "crashed"} /\ Start(rop) \in asked
               /\ opc[rop] = "idle" /\ sent[rop] = <<>>
    <3>1. Handles(rop) /\ rpc \in {"sock", "crashed"}
      BY <2>1, <2>2 DEF CodeReason, Handles, Unwinding
    <3>2. QED BY <2>2, <3>1 DEF SessionInv, StreamInv
  <2>3. QED BY <2>1, <2>2 DEF CodeReason, CloseCodeFaithful, AskedFor
<1>2. TypeOK /\ SessionInv /\ [Next]_vars => SessionInv'
  BY SessionStep
<1>3. QED BY <1>1, <1>2, SessionInit, TypeCorrect, PTL DEF Spec

---------------------------------------------------------------------------
(* Reused ids *)

\* A stop of p that is still on its way was sent before the start of an
\* operation that reuses the id, or else that one is over.
Behind(p, q) == q # p /\ IdOf[q] = IdOf[p] /\ Start(q) \in asked

StopsInv ==
    /\ \A p, q \in Ops : \A i \in 1..Len(inbox) :
          inbox[i] = Stop(p) /\ Behind(p, q) =>
             \/ q \in over
             \/ \E j \in 1..Len(inbox) : i < j /\ inbox[j] = Start(q)
    /\ rpc = "stop" =>
          /\ Stop(rop) \in asked
          /\ \A q \in Ops : Behind(rop, q) => q \in over \/ Queued(Start(q))

\* Entries are of operations that were started, and one that panicked has not
\* completed.
StartedInv ==
    /\ \A i \in Ids : active[i] # None => IdOf[active[i]] = i /\ opc[active[i]] # "idle"
    /\ \A o \in Ops : opc[o] = "panicked" => ~Ended(o)

CancelInv == StopsInv /\ StartedInv /\ CancelledOnlyIfStopped

LEMMA StopsStep ==
  ASSUME TypeOK, SessionInv, StopsInv, [Next]_vars
  PROVE  StopsInv'
<1>1. asked \subseteq asked' /\ over \subseteq over'
  BY InboxStep, OverGrows DEF SessionInv, CloseInv
<1>2. ASSUME UNCHANGED <<inbox, asked>>, rpc' = "stop" => rpc = "stop" /\ rop' = rop
      PROVE  StopsInv'
  <2>1. \A q \in Ops : Queued(Start(q))' <=> Queued(Start(q))
    BY <1>2 DEF Queued, Start
  <2>2. QED BY <1>1, <1>2, <2>1 DEF StopsInv, Behind, Start, Stop
<1>3. CASE ReadOp
  <2>1. /\ inbox \in Seq(Msgs) /\ inbox # <<>> /\ inbox' = Tail(inbox) /\ asked' = asked
        /\ rop' = Head(inbox).op /\ over' = over /\ rpc' \in {r[1] : r \in Reaction(Head(inbox).type)}
    BY <1>3 DEF ReadOp, TypeOK, client
  <2>2. /\ Len(inbox) \in Nat \ {0} /\ Len(inbox') = Len(inbox) - 1
        /\ \A i \in 1..Len(inbox') : i + 1 \in 1..Len(inbox) /\ inbox'[i] = inbox[i + 1]
        /\ Head(inbox) = inbox[1] /\ 1 \in 1..Len(inbox) /\ inbox[1] \in Msgs
    BY <2>1
  <2>3. \A p, q \in Ops : \A i \in 1..Len(inbox') :
           inbox'[i] = Stop(p) /\ Behind(p, q) =>
              \/ q \in over
              \/ \E j \in 1..Len(inbox') : i < j /\ inbox'[j] = Start(q)
    <3>1. SUFFICES ASSUME NEW p \in Ops, NEW q \in Ops, NEW i \in 1..Len(inbox'),
                          inbox'[i] = Stop(p), Behind(p, q), q \notin over
                   PROVE  \E j \in 1..Len(inbox') : i < j /\ inbox'[j] = Start(q)
      OBVIOUS
    <3>2. PICK j \in 1..Len(inbox) : i + 1 < j /\ inbox[j] = Start(q)
      BY <2>2, <3>1 DEF StopsInv
    <3>3. j - 1 \in 1..Len(inbox') /\ inbox'[j - 1] = Start(q) /\ i < j - 1
      BY <2>2, <3>2
    <3>4. QED BY <3>3
  <2>4. ASSUME rpc' = "stop"
        PROVE  /\ Stop(rop') \in asked
               /\ \A q \in Ops : Behind(rop', q) => q \in over \/ Queued(Start(q))'
    <3>1. inbox[1].type = "stop"
      BY <2>1, <2>2, <2>4 DEF Reaction, InitReaction, RunReaction, Terminated
    <3>2. rop' \in Ops /\ inbox[1] = Stop(rop')
      BY <2>1, <2>2, <3>1, ConstantsAssumption DEF Msgs, Stop, AllConnMsgs
    <3>3. Stop(rop') \in asked
      BY <2>2, <3>2 DEF SessionInv, CloseInv, InboxInv
    <3>4. ASSUME NEW q \in Ops, Behind(rop', q), q \notin over PROVE Queued(Start(q))'
      <4>1. PICK j \in 1..Len(inbox) : 1 < j /\ inbox[j] = Start(q)
        BY <2>2, <3>2, <3>4 DEF StopsInv
      <4>2. j - 1 \in 1..Len(inbox') /\ inbox'[j - 1] = Start(q)
        BY <2>2, <4>1
      <4>3. QED BY <4>2 DEF Queued, Start
    <3>5. QED BY <3>3, <3>4
  <2>5. over' = over /\ (\A p, q \in Ops : Behind(p, q)' <=> Behind(p, q))
    BY <2>1 DEF Behind, Start
  <2>6. rpc' = "stop" => \A q \in Ops : Behind(rop, q)' => Behind(rop', q)
    BY <2>1 DEF Behind, Start
  <2>7. (rpc = "stop" => /\ Stop(rop) \in asked
                        /\ \A q \in Ops : Behind(rop, q) => q \in over \/ Queued(Start(q)))'
    BY <2>1, <2>4, <2>5, <2>6 DEF Start, Stop
  <2>8. QED BY <2>3, <2>5, <2>7 DEF StopsInv, Start, Stop
<1>4. ASSUME NEW m \in Msgs, ClientSend(m) PROVE StopsInv'
  <2>1. /\ inbox \in Seq(Msgs) /\ inbox' = Append(inbox, m) /\ asked' = asked \cup {m}
        /\ m \notin asked /\ UNCHANGED <<over, rpc, rop>>
        /\ m.type = "stop" => Start(m.op) \in asked /\ m.op \notin over
    BY <1>4 DEF ClientSend, MaySend, TypeOK, server
  <2>2. /\ Len(inbox) \in Nat /\ Len(inbox') = Len(inbox) + 1
        /\ \A i \in 1..Len(inbox) : inbox'[i] = inbox[i]
        /\ inbox'[Len(inbox) + 1] = m
    BY <2>1
  <2>3. \A q \in Ops : Start(q) \in asked' => Start(q) \in asked \/ inbox'[Len(inbox')] = Start(q)
    BY <2>1, <2>2
  <2>4. ASSUME NEW p \in Ops, NEW q \in Ops, NEW i \in 1..Len(inbox'),
               inbox'[i] = Stop(p), Behind(p, q)', q \notin over
        PROVE  \E j \in 1..Len(inbox') : i < j /\ inbox'[j] = Start(q)
    <3>1. q # p /\ IdOf[q] = IdOf[p] /\ Start(q) \in asked'
      BY <2>4 DEF Behind, Start
    <3>2. CASE i \in 1..Len(inbox) /\ Start(q) \in asked
      <4>1. PICK j \in 1..Len(inbox) : i < j /\ inbox[j] = Start(q)
        BY <2>2, <2>4, <3>1, <3>2 DEF StopsInv, Behind
      <4>2. QED BY <2>2, <4>1
    <3>3. CASE i \in 1..Len(inbox) /\ Start(q) \notin asked
      BY <2>2, <2>3, <3>1, <3>3
    <3>4. CASE i = Len(inbox) + 1
      <4>1. m = Stop(p)
        BY <2>2, <2>4, <3>4
      <4>2. m.type = "stop" /\ m.op = p /\ m # Start(q)
        BY <4>1 DEF Stop, Start
      <4>3. Start(p) \in asked /\ p \notin over /\ Start(q) \in asked
        BY <2>1, <3>1, <4>2
      <4>4. q \in over
        BY <3>1, <4>3 DEF SessionInv, ReuseInv
      <4>5. QED BY <2>4, <4>4
    <3>5. QED BY <2>2, <3>2, <3>3, <3>4
  <2>5. ASSUME rpc = "stop"
        PROVE  /\ Stop(rop) \in asked'
               /\ \A q \in Ops : Behind(rop, q)' => q \in over \/ Queued(Start(q))'
    <3>1. \A q \in Ops : Queued(Start(q)) => Queued(Start(q))'
      BY <2>2 DEF Queued, Start
    <3>2. \A q \in Ops : inbox'[Len(inbox')] = Start(q) => Queued(Start(q))'
      BY <2>2 DEF Queued, Start
    <3>3. QED BY <2>1, <2>3, <2>5, <3>1, <3>2 DEF StopsInv, Behind, Start
  <2>6. QED BY <2>1, <2>4, <2>5 DEF StopsInv, Behind, Stop, Start
<1>5. QED
  <2>1. CASE \/ ReadFails \/ Run \/ Register \/ StopOp \/ SockClose \/ Leave
             \/ KaNext \/ (\E p \in Procs : Lock(p))
    <3>1. UNCHANGED <<inbox, asked>> /\ (rpc' = "stop" => rpc = "stop" /\ rop' = rop)
      BY <2>1 DEF ReadFails, Run, Register, StopOp, SockClose, Leave, KaNext, KaTick, KaWrite,
                  KaStop, Lock, net, client
    <3>2. QED BY <1>2, <3>1
  <2>2. CASE ReaderWrite
    <3>1. UNCHANGED <<inbox, asked>> /\ rpc' # "stop"
      BY <2>2, ReaderFrame DEF ReaderWrite, AfterWrite, OpFrames, client
    <3>2. QED BY <1>2, <3>1
  <2>3. ASSUME NEW o \in Ops, OpNext(o) PROVE StopsInv'
    <3>1. UNCHANGED <<inbox, asked, rpc, rop>>
      BY <2>3 DEF OpNext, OpResponse, OpEnd, OpPanic, OpWrite, OpDelete, OpGoto, Lock, net, client
    <3>2. QED BY <1>2, <3>1
  <2>4. CASE ClientRead \/ ClientGone \/ Shutdown \/ UNCHANGED vars
    <3>1. UNCHANGED <<inbox, asked, rpc, rop>>
      BY <2>4 DEF ClientRead, ClientGone, Shutdown, vars, server, net, client
    <3>2. QED BY <1>2, <3>1
  <2>5. QED BY <1>3, <1>4, <2>1, <2>2, <2>3, <2>4 DEF Next, ReaderNext, KaNext, Procs

LEMMA StartedStep ==
  ASSUME TypeOK, SessionInv, StartedInv, [Next]_vars
  PROVE  StartedInv'
<1> USE DEF StartedInv
<1>1. ASSUME UNCHANGED <<active, opc>>, \A o \in Ops : opc[o] # "idle" => sent'[o] = sent[o]
      PROVE  StartedInv'
  BY <1>1 DEF Ended
<1>2. CASE ReaderWrite
  <2>1. UNCHANGED <<active, opc>>
    BY <1>2 DEF ReaderWrite
  <2>2. CASE rpc \in OpFrames
    <3>1. rop \in Ops /\ Emit([type |-> rpc, op |-> rop])
      BY <1>2, <2>2, ReaderFrame
    <3>2. opc[rop] = "idle"
      BY <2>2, <3>1 DEF SessionInv, StreamInv, Handles
    <3>3. \A o \in Ops \ {rop} : sent'[o] = sent[o]
      BY <2>2, <3>1, EmitOp
    <3>4. QED BY <1>1, <2>1, <3>2, <3>3
  <2>3. CASE rpc \notin OpFrames
    <3>1. PICK t \in ConnFrames : Emit([type |-> t, op |-> None])
      BY <1>2, <2>3, ReaderFrame DEF ConnFrames
    <3>2. QED BY <1>1, <2>1, <3>1, EmitConn
  <2>4. QED BY <2>2, <2>3
<1>3. CASE Register
  <2>1. /\ rop \in Ops /\ opc[rop] = "idle" /\ sent' = sent
        /\ active' = [active EXCEPT ![IdOf[rop]] = rop] /\ opc' = [opc EXCEPT ![rop] = "run"]
    BY <1>3 DEF Register, TypeOK, SessionInv, StreamInv, Handles, net
  <2>2. QED BY <2>1, ConstantsAssumption DEF TypeOK, Ended
<1>4. ASSUME NEW o \in Ops, OpResponse(o) \/ OpEnd(o) \/ OpPanic(o) \/ OpDelete(o)
      PROVE  StartedInv'
  <2>1. PICK pc \in OpFrames \cup {"ended"} : opc' = [opc EXCEPT ![o] = pc]
    BY <1>4 DEF OpResponse, OpEnd, OpPanic, OpDelete, OpGoto, OpFrames
  <2>2. sent' = sent /\ (active' = active \/ active' = [active EXCEPT ![IdOf[o]] = None])
    BY <1>4 DEF OpResponse, OpEnd, OpPanic, OpDelete, Deregister, net
  <2>3. QED BY <2>1, <2>2, ConstantsAssumption DEF TypeOK, Ended, OpFrames
<1>5. ASSUME NEW o \in Ops, OpWrite(o) PROVE StartedInv'
  <2>1. /\ opc[o] \in OpFrames /\ Emit([type |-> opc[o], op |-> o]) /\ active' = active
        /\ opc' = [opc EXCEPT ![o] = AfterOpWrite(opc[o])]
    BY <1>5 DEF OpWrite, OpGoto
  <2>2. /\ AfterOpWrite(opc[o]) # "idle"
        /\ AfterOpWrite(opc[o]) = "panicked" => opc[o] = "error"
    BY <2>1 DEF AfterOpWrite, OpFrames
  <2>3. \A p \in Ops \ {o} : sent'[p] = sent[p]
    BY <2>1, EmitOp
  <2>4. opc[o] = "error" => ~Ended(o)'
    <3>1. OnlyData(o) /\ ~Ended(o)
      BY <2>1, EndedStream DEF SessionInv, StreamInv
    <3>2. CASE conn = "open"
      BY <2>1, <3>2, EmitOp, SentSeq
    <3>3. CASE conn # "open"
      BY <2>1, <3>1, <3>3, EmitOp DEF Ended
    <3>4. QED BY <3>2, <3>3
  <2>5. QED BY <2>1, <2>2, <2>3, <2>4 DEF TypeOK, Ended
<1>6. QED
  <2>1. CASE ReadOp
    BY <2>1, <1>1, EchoPut DEF ReadOp
  <2>2. CASE \/ ReadFails \/ Run \/ StopOp \/ SockClose \/ Leave
             \/ KaTick \/ KaStop \/ (\E p \in Procs : Lock(p))
    BY <2>2, <1>1 DEF ReadFails, Run, StopOp, SockClose, Leave, KaTick, KaStop, Lock, net
  <2>3. CASE KaWrite
    <3>1. "ka" \in ConnFrames
      BY DEF ConnFrames
    <3>2. QED BY <2>3, <3>1, <1>1, EmitConn DEF KaWrite
  <2>4. CASE (\E m \in Msgs : ClientSend(m)) \/ ClientRead \/ ClientGone \/ Shutdown \/ UNCHANGED vars
    BY <2>4, <1>1 DEF ClientSend, ClientRead, ClientGone, Shutdown, vars, server, net
  <2>5. QED
    BY <1>2, <1>3, <1>4, <1>5, <2>1, <2>2, <2>3, <2>4
    DEF Next, ReaderNext, KaNext, OpNext, Procs

\* The one step that could break it: a stop of p finds q under the id.  Then q
\* has been started, so its start is not behind the stop in the queue, and it
\* is not over, as no goroutine that has written complete still works.
LEMMA CancelStep ==
  ASSUME TypeOK, SessionInv, CancelInv, [Next]_vars
  PROVE  CancelledOnlyIfStopped'
<1> USE DEF CancelledOnlyIfStopped
<1>1. asked \subseteq asked' /\ StopsInv /\ StartedInv /\ CancelledOnlyIfStopped
  BY InboxStep DEF SessionInv, CloseInv, CancelInv
<1>2. ASSUME cancelled' \cap Ops \subseteq cancelled, opc' = opc PROVE CancelledOnlyIfStopped'
  BY <1>1, <1>2 DEF Stop
<1>3. CASE StopOp
  <2>1. /\ rpc = "stop" /\ rop \in Ops /\ opc' = opc /\ asked' = asked
        /\ cancelled' = cancelled \cup Called(IdOf[rop]) /\ active \in [Ids -> Ops \cup {None}]
        /\ IdOf[rop] \in Ids
    BY <1>3, ConstantsAssumption DEF StopOp, TypeOK, client
  <2>2. ASSUME NEW q \in Called(IdOf[rop]) \cap Ops
        PROVE  Stop(q) \in asked \/ opc[q] \in {"delete", "ended"}
    <3>1. q = active[IdOf[rop]] /\ q # None
      BY <2>2 DEF Called
    <3>2. IdOf[q] = IdOf[rop] /\ opc[q] # "idle"
      BY <1>1, <2>1, <3>1 DEF StartedInv
    <3>3. CASE q = rop
      BY <1>1, <2>1, <3>3 DEF StopsInv
    <3>4. CASE q # rop
      <4>1. StreamInv(q) /\ opc[q] \in OpPcs
        BY DEF SessionInv, TypeOK
      <4>2. Behind(rop, q)
        BY <3>2, <3>4, <4>1 DEF Behind, StreamInv
      <4>3. ~Queued(Start(q))
        BY <3>2, <4>1 DEF StreamInv
      <4>4. q \in over
        BY <1>1, <2>1, <4>2, <4>3 DEF StopsInv
      <4>5. Ended(q) /\ ~OnlyData(q)
        BY <4>1, <4>4, EndedStream DEF StreamInv
      <4>6. opc[q] \notin {"run", "panicked", "idle"} \cup OpFrames
        BY <1>1, <3>2, <4>1, <4>5 DEF StreamInv, StartedInv
      <4>7. QED BY <4>1, <4>6 DEF OpPcs
    <3>5. QED BY <3>3, <3>4
  <2>3. QED BY <1>1, <2>1, <2>2 DEF Stop
<1>4. CASE Register
  <2>1. /\ rop \in Ops /\ opc[rop] = "idle" /\ cancelled' = cancelled
        /\ opc' = [opc EXCEPT ![rop] = "run"]
    BY <1>4 DEF Register, TypeOK, SessionInv, StreamInv, Handles
  <2>2. QED BY <1>1, <2>1 DEF TypeOK, Stop
<1>5. ASSUME NEW o \in Ops, OpResponse(o) \/ OpEnd(o) \/ OpPanic(o) \/ OpWrite(o)
      PROVE  CancelledOnlyIfStopped'
  <2>1. cancelled' = cancelled /\ opc[o] \in {"run"} \cup OpFrames
        /\ \A p \in Ops \ {o} : opc'[p] = opc[p]
    BY <1>5 DEF OpResponse, OpEnd, OpPanic, OpWrite, OpGoto, TypeOK
  <2>2. QED BY <1>1, <2>1 DEF Stop, OpFrames
<1>6. ASSUME NEW o \in Ops, OpDelete(o) PROVE CancelledOnlyIfStopped'
  <2>1. cancelled' = cancelled \cup {o} /\ opc' = [opc EXCEPT ![o] = "ended"]
    BY <1>6 DEF OpDelete, OpGoto, Released
  <2>2. QED BY <1>1, <2>1 DEF TypeOK, Stop
<1>7. QED
  <2>1. CASE \/ ReadOp \/ ReadFails \/ ReaderWrite \/ Run \/ SockClose \/ Leave
             \/ KaNext \/ (\E p \in Procs : Lock(p))
    BY <2>1, <1>2, ConstantsAssumption
    DEF ReadOp, ReadFails, ReaderWrite, Run, SockClose, Leave, KaNext, KaTick, KaWrite,
        KaStop, Lock
  <2>2. CASE (\E m \in Msgs : ClientSend(m)) \/ ClientRead \/ ClientGone \/ Shutdown \/ UNCHANGED vars
    BY <2>2, <1>2 DEF ClientSend, ClientRead, ClientGone, Shutdown, vars, server
  <2>3. QED
    BY <1>3, <1>4, <1>5, <1>6, <2>1, <2>2 DEF Next, ReaderNext, KaNext, OpNext, Procs

\* An operation loses its context to a stop of its own only, for any client
\* that reuses ids as it may: stops in the queue are ahead of the starts that
\* reuse their ids, and every goroutine releases no context but its own.
THEOREM OthersAreNotCancelled == Spec => []CancelledOnlyIfStopped
<1>1. Init => SessionInv /\ CancelInv
  BY SessionInit, ConstantsAssumption
  DEF Init, CancelInv, StopsInv, StartedInv, CancelledOnlyIfStopped
<1>2. TypeOK /\ SessionInv /\ CancelInv /\ [Next]_vars => SessionInv' /\ CancelInv'
  BY SessionStep, StopsStep, StartedStep, CancelStep DEF CancelInv
<1>3. CancelInv => CancelledOnlyIfStopped
  BY DEF CancelInv
<1>4. QED BY <1>1, <1>2, <1>3, TypeCorrect, PTL DEF Spec

---------------------------------------------------------------------------
(* The wire implements WsSession *)

\* The refinement mapping of WsConnection, with its parts named.
SessionNow == IF \E t \in Codes \cup {"echo"} : Put(t) THEN "over"
              ELSE IF Put("ack") THEN "acked" ELSE "fresh"

Phase(s) ==
    IF s = <<>> THEN "none"
    ELSE IF s[Len(s)] = "data" THEN "open"
    ELSE IF s[Len(s)] = "error" /\ Len(s) > 1 THEN "failed" ELSE s[Len(s)]

StreamNow == [o \in Ops |-> Phase(sent[o])]

\* What one frame more makes of a stream.
LEMMA PhaseAppended ==
  ASSUME NEW s \in Seq(OpFrames), NEW t \in OpFrames
  PROVE  /\ t = "data" => Phase(Append(s, t)) = "open"
         /\ t = "complete" => Phase(Append(s, t)) = "complete"
         /\ t = "error" => Phase(Append(s, t)) = IF s = <<>> THEN "error" ELSE "failed"
<1>1. /\ Append(s, t) # <<>> /\ Len(Append(s, t)) = Len(s) + 1
      /\ Append(s, t)[Len(s) + 1] = t /\ Len(s) \in Nat /\ (Len(s) > 0 <=> s # <<>>)
  OBVIOUS
<1>2. QED BY <1>1 DEF Phase

LEMMA PhaseOf ==
  ASSUME TypeOK, NEW o \in Ops
  PROVE  /\ OnlyData(o) => Phase(sent[o]) \in {"none", "open"}
         /\ OnlyData(o) /\ sent[o] # <<>> => Phase(sent[o]) = "open"
         /\ sent[o] = <<>> => Phase(sent[o]) = "none"
         /\ sent[o] \in {<<>>, <<"data">>, <<"error">>} =>
               Phase(sent[o]) \in {"none", "open", "error"}
         /\ Ended(o) => Phase(sent[o]) = "complete"
<1>1. sent[o] \in Seq(OpFrames)
  BY DEF TypeOK
<1>2. sent[o] # <<>> => Len(sent[o]) \in 1..Len(sent[o])
  BY <1>1
<1>3. QED BY <1>1, <1>2 DEF Phase, OnlyData, Ended

LEMMA SessionMapped ==
  /\ Session!Ack <=> SessionNow = "fresh" /\ SessionNow' = "acked" /\ StreamNow' = StreamNow
  /\ Session!Close <=> SessionNow # "over" /\ SessionNow' = "over" /\ StreamNow' = StreamNow
  /\ Session!Init <=> SessionNow = "fresh" /\ StreamNow = [o \in Ops |-> "none"]
  /\ UNCHANGED Session!vars <=> UNCHANGED <<SessionNow, StreamNow>>
BY DEF Session!Ack, Session!Close, Session!Init, Session!vars, SessionNow, StreamNow, Phase

\* No other operation of the same id is in the middle of its stream.
AloneNow(o) ==
    \A p \in Ops \ {o} : IdOf[p] = IdOf[o] => StreamNow[p] \in {"none", "complete"}

ToNow(o, s) ==
    /\ SessionNow = "acked" /\ AloneNow(o)
    /\ StreamNow' = [StreamNow EXCEPT ![o] = s]
    /\ SessionNow' = SessionNow

LEMMA StreamMapped ==
  ASSUME NEW o \in Ops
  PROVE  /\ Session!Data(o) <=> StreamNow[o] \in {"none", "open"} /\ ToNow(o, "open")
         /\ Session!Error(o) <=> StreamNow[o] = "none" /\ ToNow(o, "error")
         /\ Session!Fail(o) <=> StreamNow[o] = "open" /\ ToNow(o, "failed")
         /\ Session!Complete(o) <=>
               StreamNow[o] \in {"none", "open", "error"} /\ ToNow(o, "complete")
BY DEF Session!Data, Session!Error, Session!Fail, Session!Complete, Session!To, Session!Alone,
       SessionNow, StreamNow, Phase, ToNow, AloneNow

\* A frame of an operation that the client asked for and that has not ended is
\* a step of its stream, and the id is not in the middle of another.
LEMMA OpFrameRefines ==
  ASSUME TypeOK, SessionInv, NEW o \in Ops, NEW t \in OpFrames,
         conn = "open", phase = "run", Start(o) \in asked,
         sent' = [sent EXCEPT ![o] = Append(@, t)], sess' = sess,
         \/ OnlyData(o)
         \/ t = "complete" /\ sent[o] \in {<<>>, <<"data">>, <<"error">>}
  PROVE  Session!Next
<1>1. SessionNow = "acked" /\ SessionNow' = SessionNow
  <2>1. \A u : Put(u)' <=> Put(u)
    BY PutStays
  <2>2. QED BY <2>1 DEF SessionInv, CloseInv, ReaderInv, ClosePut, SessionNow
<1>2. ~Ended(o)
  BY EndedStream
<1>3. AloneNow(o)
  <2>1. SUFFICES ASSUME NEW p \in Ops \ {o}, IdOf[p] = IdOf[o]
                 PROVE  StreamNow[p] \in {"none", "complete"}
    BY DEF AloneNow
  <2>2. CASE Start(p) \in asked
    <3>1. p \in over
      BY <1>2, <2>1, <2>2 DEF SessionInv, ReuseInv, StreamInv
    <3>2. Ended(p)
      BY <3>1 DEF SessionInv, StreamInv
    <3>3. QED BY <3>2, PhaseOf DEF StreamNow
  <2>3. CASE Start(p) \notin asked
    <3>1. sent[p] = <<>>
      BY <2>3 DEF SessionInv, StreamInv
    <3>2. QED BY <3>1, PhaseOf DEF StreamNow
  <2>4. QED BY <2>2, <2>3
<1>4. /\ sent[o] \in Seq(OpFrames) /\ sent'[o] = Append(sent[o], t)
      /\ \A p \in Ops \ {o} : sent'[p] = sent[p]
  BY SentSeq
<1>5. StreamNow' = [StreamNow EXCEPT ![o] = Phase(Append(sent[o], t))]
  <2>1. StreamNow' = [p \in Ops |-> Phase(sent'[p])]
    BY DEF StreamNow, Phase
  <2>2. StreamNow = [p \in Ops |-> Phase(sent[p])]
    BY DEF StreamNow
  <2>3. \A p \in Ops : Phase(sent'[p]) = IF p = o THEN Phase(Append(sent[o], t)) ELSE Phase(sent[p])
    BY <1>4
  <2>4. QED BY <2>1, <2>2, <2>3
<1>6. ToNow(o, Phase(Append(sent[o], t)))
  BY <1>1, <1>3, <1>5 DEF ToNow
<1>7. StreamNow[o] = Phase(sent[o])
  BY DEF StreamNow
<1>8. Session!Data(o) \/ Session!Error(o) \/ Session!Fail(o) \/ Session!Complete(o)
  <2>1. CASE t = "data"
    BY <1>4, <1>6, <1>7, <2>1, PhaseAppended, PhaseOf, StreamMapped
  <2>2. CASE t = "complete"
    BY <1>4, <1>6, <1>7, <2>2, PhaseAppended, PhaseOf, StreamMapped
  <2>3. CASE t = "error"
    <3>1. CASE sent[o] = <<>>
      BY <1>4, <1>6, <1>7, <2>3, <3>1, PhaseAppended, PhaseOf, StreamMapped
    <3>2. CASE sent[o] # <<>>
      BY <1>4, <1>6, <1>7, <2>3, <3>2, PhaseAppended, PhaseOf, StreamMapped
    <3>3. QED BY <3>1, <3>2
  <2>4. QED BY <2>1, <2>2, <2>3 DEF OpFrames
<1>9. QED BY <1>8 DEF Session!Next

\* A frame of the connection, where one is written, is a step of the session
\* or none.
LEMMA ConnFrameRefines ==
  ASSUME TypeOK, SessionInv, NEW t \in ConnFrames, conn = "open", sent' = sent,
         \A u : Put(u)' <=> Put(u) \/ u = t,
         t = "ack" => ~Put("ack")
  PROVE  Session!Next \/ UNCHANGED Session!vars
<1>1. ~\E u \in Codes \cup {"echo"} : Put(u)
  BY DEF SessionInv, CloseInv, ReaderInv, ClosePut
<1>2. StreamNow' = StreamNow
  BY DEF StreamNow
<1>3. CASE t \in Codes \cup {"echo"}
  <2>1. SessionNow # "over" /\ SessionNow' = "over"
    BY <1>1, <1>3 DEF SessionNow
  <2>2. Session!Close
    BY <1>2, <2>1, SessionMapped
  <2>3. QED BY <2>2 DEF Session!Next
<1>4. CASE t = "ack"
  <2>1. SessionNow = "fresh" /\ SessionNow' = "acked"
    BY <1>1, <1>4 DEF SessionNow, Codes
  <2>2. Session!Ack
    BY <1>2, <2>1, SessionMapped
  <2>3. QED BY <2>2 DEF Session!Next
<1>5. CASE t \in {"ka", "connErr"}
  <2>1. SessionNow' = SessionNow
    BY <1>5 DEF SessionNow, Codes
  <2>2. QED BY <1>2, <2>1, SessionMapped
<1>6. QED BY <1>3, <1>4, <1>5 DEF ConnFrames

LEMMA QuietRefines ==
  ASSUME sent' = sent, sess' = sess
  PROVE  UNCHANGED Session!vars
<1>1. StreamNow' = StreamNow /\ SessionNow' = SessionNow
  BY PutStays DEF StreamNow, SessionNow
<1>2. QED BY <1>1, SessionMapped

LEMMA SessionRefines ==
  ASSUME TypeOK, SessionInv, [Next]_vars
  PROVE  [Session!Next]_(Session!vars)
<1>1. CASE ReadOp
  <2>1. Echo \/ UNCHANGED <<sent, sess>>
    BY <1>1 DEF ReadOp
  <2>2. CASE UNCHANGED <<sent, sess>>
    BY <2>2, QuietRefines
  <2>3. CASE Echo
    <3>1. "echo" \in ConnFrames
      BY DEF ConnFrames
    <3>2. QED BY <2>3, <3>1, EchoPut, ConnFrameRefines, QuietRefines
  <2>4. QED BY <2>1, <2>2, <2>3
<1>2. CASE ReaderWrite
  <2>1. CASE rpc \in OpFrames
    <3>1. rop \in Ops /\ Emit([type |-> rpc, op |-> rop])
      BY <1>2, <2>1, ReaderFrame
    <3>2. CASE conn # "open"
      BY <2>1, <3>1, <3>2, EmitOp, QuietRefines
    <3>3. CASE conn = "open"
      <4>1. sent' = [sent EXCEPT ![rop] = Append(@, rpc)] /\ sess' = sess
        BY <2>1, <3>1, <3>3, EmitOp
      <4>2. Handles(rop) /\ phase = "run"
        BY <2>1 DEF Handles, SessionInv, CloseInv, ReaderInv
      <4>3. /\ Start(rop) \in asked
            /\ IF rpc = "complete" THEN sent[rop] \in {<<>>, <<"data">>, <<"error">>}
               ELSE sent[rop] = <<>>
        BY <3>1, <4>2 DEF SessionInv, StreamInv
      <4>4. sent[rop] = <<>> => OnlyData(rop)
        BY DEF OnlyData
      <4>5. QED BY <2>1, <3>1, <3>3, <4>1, <4>2, <4>3, <4>4, OpFrameRefines
    <3>4. QED BY <3>2, <3>3
  <2>2. CASE rpc \notin OpFrames
    <3>1. PICK t \in ConnFrames :
             Emit([type |-> t, op |-> None]) /\ (t = "ack" => rpc = "ack")
      BY <1>2, <2>2, ReaderFrame DEF ConnFrames, Codes
    <3>2. rpc = "ack" => ~Put("ack")
      BY DEF SessionInv, CloseInv, ReaderInv, TypeOK
    <3>3. CASE conn = "open"
      BY <3>1, <3>2, <3>3, EmitConn, ConnFrameRefines
    <3>4. CASE conn # "open"
      BY <3>1, <3>4, EmitConn, QuietRefines
    <3>5. QED BY <3>3, <3>4
  <2>3. QED BY <2>1, <2>2
<1>3. CASE KaWrite
  <2>1. Emit([type |-> "ka", op |-> None]) /\ "ka" \in ConnFrames
    BY <1>3 DEF KaWrite, ConnFrames
  <2>2. CASE conn = "open"
    BY <2>1, <2>2, EmitConn, ConnFrameRefines
  <2>3. CASE conn # "open"
    BY <2>1, <2>3, EmitConn, QuietRefines
  <2>4. QED BY <2>2, <2>3
<1>4. ASSUME NEW o \in Ops, OpWrite(o) PROVE [Session!Next]_(Session!vars)
  <2>1. opc[o] \in OpFrames /\ Emit([type |-> opc[o], op |-> o])
    BY <1>4 DEF OpWrite
  <2>2. CASE conn # "open"
    BY <2>1, <2>2, EmitOp, QuietRefines
  <2>3. CASE conn = "open"
    <3>1. sent' = [sent EXCEPT ![o] = Append(@, opc[o])] /\ sess' = sess
      BY <2>1, <2>3, EmitOp
    <3>2. Start(o) \in asked /\ phase = "run" /\ OnlyData(o)
      BY <2>1 DEF SessionInv, StreamInv, OpFrames
    <3>3. QED BY <2>1, <2>3, <3>1, <3>2, OpFrameRefines
  <2>4. QED BY <2>2, <2>3
<1>5. CASE \/ ReadFails \/ Run \/ Register \/ StopOp \/ SockClose \/ Leave \/ KaTick \/ KaStop
           \/ (\E p \in Procs : Lock(p)) \/ (\E m \in Msgs : ClientSend(m))
           \/ ClientRead \/ ClientGone \/ Shutdown \/ UNCHANGED vars
  <2>1. UNCHANGED <<sent, sess>>
    BY <1>5 DEF ReadFails, Run, Register, StopOp, SockClose, Leave, KaTick, KaStop, Lock,
                ClientSend, ClientRead, ClientGone, Shutdown, vars, net
  <2>2. QED BY <2>1, QuietRefines
<1>6. ASSUME NEW o \in Ops, OpResponse(o) \/ OpEnd(o) \/ OpPanic(o) \/ OpDelete(o)
      PROVE  [Session!Next]_(Session!vars)
  <2>1. UNCHANGED <<sent, sess>>
    BY <1>6 DEF OpResponse, OpEnd, OpPanic, OpDelete, net
  <2>2. QED BY <2>1, QuietRefines
<1>7. QED
  BY <1>1, <1>2, <1>3, <1>4, <1>5, <1>6 DEF Next, ReaderNext, KaNext, OpNext, Procs

\* The frames on the wire are a session: an acknowledgement, one stream per
\* operation that ends once, no two open streams under an id, a close frame
\* last, for any number of operations, ids and goroutines.
THEOREM WireIsSession == Spec => ImplementsSession
<1>1. Init => Session!Init
  <2> SUFFICES ASSUME Init PROVE Session!Init
    OBVIOUS
  <2>1. SessionNow = "fresh"
    BY DEF Init, SessionNow, Put
  <2>2. StreamNow = [o \in Ops |-> "none"]
    BY DEF Init, StreamNow, Phase
  <2>3. QED BY <2>1, <2>2, SessionMapped
<1>2. TypeOK /\ SessionInv /\ [Next]_vars => SessionInv' /\ [Session!Next]_(Session!vars)
  BY SessionStep, SessionRefines
<1>3. QED
  BY <1>1, <1>2, SessionInit, TypeCorrect, PTL DEF Spec, ImplementsSession, Session!Spec
=============================================================================
