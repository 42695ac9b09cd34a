-------------------------- MODULE MCWsConnection --------------------------
(***************************************************************************)
(* WsConnection with two operations, for TLC.  An operation with an id of  *)
(* its own uses itself as the id, so that the operations are symmetric.    *)
(***************************************************************************)
EXTENDS WsConnection, TLC

CONSTANTS o1, o2, id

OwnIds == [o \in {o1, o2} |-> o]
SharedId == [o \in {o1, o2} |-> id]
OneOp == [o \in {o1} |-> id]
Symmetry == Permutations({o1, o2})
=============================================================================
