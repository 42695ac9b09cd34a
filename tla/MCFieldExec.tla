---------------------------- MODULE MCFieldExec ----------------------------
(***************************************************************************)
(* FieldExec for TLC: { a { x y } l { z } s } where a, x, z and the two    *)
(* elements of l must not be null, and s is a plain field.                 *)
(***************************************************************************)
EXTENDS FieldExec, TLC

MCNodes == {"data", "a", "x", "y", "l", "l0", "z", "l1", "s"}
MCParent == "a" :> "data" @@ "l" :> "data" @@ "s" :> "data"
            @@ "x" :> "a" @@ "y" :> "a" @@ "l0" :> "l" @@ "l1" :> "l" @@ "z" :> "l0"
MCKind == [n \in MCNodes |-> CASE n \in {"data", "a", "l0"} -> "object"
                               [] n = "l" -> "list"
                               [] OTHER -> "leaf"]
MCPos == "data" :> 0 @@ "a" :> 0 @@ "l" :> 1 @@ "s" :> 2
         @@ "x" :> 0 @@ "y" :> 1 @@ "l0" :> 0 @@ "l1" :> 1 @@ "z" :> 0
MCNonNull == {"a", "x", "z", "l0", "l1"}
MCResolved == {"a", "x", "y", "l", "z"}

SomeOutcomes ==
    [n \in MCNodes |->
        CASE n = "data" -> {"ok"}
          [] n = "a" -> {"ok", "nil", "typedNil"}
          [] n = "x" -> {"ok", "nil", "reported"}
          [] n = "y" -> {"ok", "error"}
          [] n = "l" -> {"ok", "panic"}
          [] n \in {"l0", "l1", "s"} -> {"ok", "nil"}
          [] n = "z" -> {"ok", "nil"}]

\* Both elements of the list may panic.
PanicOutcomes ==
    [n \in MCNodes |-> CASE n \in {"l0", "l1"} -> {"ok", "panic"}
                         [] n \in {"x", "z"} -> {"ok", "panic"}
                         [] OTHER -> {"ok"}]
=============================================================================
