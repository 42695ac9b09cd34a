----------------------------- MODULE Operation -----------------------------
(***************************************************************************)
(* One operation, from its uploads to its responses.  In a behaviour one   *)
(* part moves; the others stand still.  A complexity is one state, an      *)
(* input.                                                                  *)
(***************************************************************************)
EXTENDS Responses, Uploads, Collection, Complexity

VARIABLE moving

operationVars == <<moving, operation, vars, uploadVars, collectionVars>>

OperationInit ==
    /\ moving \in {"responses", "uploads", "fields", "cost"}
    /\ Init /\ UploadsInit /\ CollectionInit /\ ComplexityInit
OperationNext ==
    \/ moving = "responses" /\ Next /\ UNCHANGED <<moving, operation, uploadVars, collectionVars>>
    \/ moving = "uploads" /\ UploadsNext /\ UNCHANGED <<moving, operation, vars, collectionVars>>
    \/ moving = "fields" /\ Descend /\ UNCHANGED <<moving, operation, vars, uploadVars>>
OperationSpec ==
    /\ OperationInit /\ [][OperationNext]_operationVars
    /\ WF_vars(Respond) /\ WF_vars(Close)
---------------------------------------------------------------------------
\* Extensions, calls and responses, readers and files, and what objects are executed
\* with keep their types, whichever part runs (executor/extensions.go, http_form.go,
\* executable_schema.go).
TypesOK == TypeOK /\ UploadsTypeOK /\ CollectionTypeOK
=============================================================================
