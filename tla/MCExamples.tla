----------------------------- MODULE MCExamples -----------------------------
(***************************************************************************)
(* Three posts of two posters to one room, which one observer follows as a *)
(* stream and one once; two callers of a loader.                           *)
(***************************************************************************)
EXTENDS Examples, TLC

MCPosters == {"ann", "bob"}
MCAt == [c \in MCPosters \cup {"ws", "post"} |-> "room"]
MCMaxPosts == "ann" :> 2 @@ "bob" :> 1
MCAuthor == "ann" :> "u1" @@ "bob" :> "u2"
MCFilter == "ws" :> "u1" @@ "post" :> "anyone"
=============================================================================
