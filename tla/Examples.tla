------------------------------ MODULE Examples ------------------------------
(***************************************************************************)
(* The two examples with shared state, side by side: a behaviour is one of *)
(* the chat server or one of a loader, the other standing still.           *)
(***************************************************************************)
EXTENDS Chat, DataLoader

VARIABLE example

examplesVars == <<example, chatVars, loaderVars>>

ExamplesInit == example \in {"chat", "loader"} /\ ChatInit /\ LoaderInit
ExamplesNext ==
    \/ example = "chat" /\ ChatNext /\ UNCHANGED <<example, loaderVars>>
    \/ example = "loader" /\ LoaderNext /\ UNCHANGED <<example, chatVars>>
ExamplesSpec ==
    ExamplesInit /\ [][ExamplesNext]_examplesVars /\ ChatFairness /\ LoaderFairness
---------------------------------------------------------------------------
\* Rooms, observers and posts, and batches, their goroutines and callers keep their
\* types, whichever example runs (chat/resolvers.go, dataloader/itemsliceloader_gen.go).
TypesOK == ChatTypeOK /\ LoaderTypeOK
=============================================================================
