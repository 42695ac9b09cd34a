---------------------------- MODULE MCGeneration ----------------------------
(***************************************************************************)
(* The generator for TLC: colliding import names, four packages, a schema  *)
(* of two files and one of five types.                                     *)
(***************************************************************************)
EXTENDS Generation, TLC

\* Two packages are named m and one m1; the user calls one of them fmt.
MCNameOf == "own" :> "own" @@ "fmt" :> "fmt" @@ "x/m" :> "m" @@ "y/m" :> "m" @@ "m1" :> "m1" @@ "vendor/y/m" :> "m"
MCNormalize == [p \in DOMAIN MCNameOf |-> IF p = "vendor/y/m" THEN "y/m" ELSE p]
MCNumbered ==
    [q \in Range(MCNameOf) \X (0..2) |-> IF q[2] = 0 THEN q[1] ELSE IF q = <<"m", 1>> THEN "m1" ELSE q[1] \o ToString(q[2])]
MCNames == Range(MCNumbered) \cup {"alias"}
MCUserImports == {<<"own", "own">>, <<"fmt", "alias">>, <<"x/m", "m1">>, <<"m1", "fmt">>}

MCFiles == <<"a", "b">>
MCFields == <<"f", "g">>

MCKind == "Query" :> "root" @@ "Int" :> "builtin" @@ "S" :> "scalar" @@ "A" :> "model" @@ "B" :> "model"
MCRefers == "Query" :> {"A"} @@ "Int" :> {} @@ "S" :> {} @@ "A" :> {"B", "S", "Int"} @@ "B" :> {"A"}

\* What a part that stands still starts from makes no difference.
MCInit ==
    /\ moving \in {"imports", "packages", "resolvers", "models"}
    /\ IF moving = "packages" THEN TRUE ELSE uses = [p \in Pkgs |-> {}]
    /\ IF moving = "resolvers" THEN TRUE ELSE base = "a" /\ home = [f \in FieldSet |-> Absent]
    /\ IF moving = "models" THEN TRUE ELSE autoBind = <<>>
    /\ GenerationInit
MCSpec == MCInit /\ [][GenerationNext]_generationVars
=============================================================================
