----------------------------- MODULE WsSession -----------------------------
(***************************************************************************)
(* What a websocket connection promises its client, as the client sees it: *)
(* an acknowledgement before anything of an operation, one stream of       *)
(* responses per operation that ends once, no two open streams under one   *)
(* id, and nothing after the close frame.  Goroutines, the mutex, the map  *)
(* of cancel functions and the queues are the business of WsConnection.    *)
(***************************************************************************)
CONSTANTS Ops, Ids, IdOf

VARIABLES
    session,  \* "fresh", then "acked", then "over"
    stream    \* per operation: nothing seen, responses, an error, ended

vars == <<session, stream>>

Init == session = "fresh" /\ stream = [o \in Ops |-> "none"]

Ack == session = "fresh" /\ session' = "acked" /\ UNCHANGED stream

\* The close frame may come before the acknowledgement, which it replaces.
Close == session # "over" /\ session' = "over" /\ UNCHANGED stream

\* No other operation of the same id is in the middle of its stream.
Alone(o) ==
    \A p \in Ops \ {o} : IdOf[p] = IdOf[o] => stream[p] \in {"none", "complete"}

To(o, s) ==
    /\ session = "acked" /\ Alone(o)
    /\ stream' = [stream EXCEPT ![o] = s]
    /\ UNCHANGED session

Data(o) == stream[o] \in {"none", "open"} /\ To(o, "open")

\* A refusal, which complete may follow, or a panic.
Error(o) == stream[o] = "none" /\ To(o, "error")

\* A panic between responses is the end of the stream.
Fail(o) == stream[o] = "open" /\ To(o, "failed")

Complete(o) == stream[o] \in {"none", "open", "error"} /\ To(o, "complete")

Next == Ack \/ Close \/ \E o \in Ops : Data(o) \/ Error(o) \/ Fail(o) \/ Complete(o)

Spec == Init /\ [][Next]_vars
=============================================================================
