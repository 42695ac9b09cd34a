----------------------------- MODULE Generation -----------------------------
(***************************************************************************)
(* The four stateful parts of the generator side by side: in a behaviour   *)
(* one of them moves and the others stand still.                           *)
(***************************************************************************)
EXTENDS Imports, PackageCache, Resolvers, Generate

VARIABLE moving

generationVars == <<moving, importVars, packageVars, resolverVars, generateVars>>

GenerationInit ==
    /\ moving \in {"imports", "packages", "resolvers", "models"}
    /\ ImportsInit /\ PackagesInit /\ ResolversInit /\ GenerateInit
GenerationNext ==
    \/ moving = "imports" /\ ImportsNext /\ UNCHANGED <<moving, packageVars, resolverVars, generateVars>>
    \/ moving = "packages" /\ PackagesNext /\ UNCHANGED <<moving, importVars, resolverVars, generateVars>>
    \/ moving = "resolvers" /\ ResolversNext /\ UNCHANGED <<moving, importVars, packageVars, generateVars>>
    \/ moving = "models" /\ GenerateNext /\ UNCHANGED <<moving, importVars, packageVars, resolverVars>>
GenerationSpec == GenerationInit /\ [][GenerationNext]_generationVars
---------------------------------------------------------------------------
\* Import tables, cached packages, resolver files and bound types keep their types,
\* whichever part runs (templates/import.go, code/packages.go, resolvergen/resolver.go,
\* config/config.go).
TypesOK == ImportsTypeOK /\ PackagesTypeOK /\ ResolversTypeOK /\ GenerateTypeOK
=============================================================================
