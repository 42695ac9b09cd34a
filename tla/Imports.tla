------------------------------ MODULE Imports ------------------------------
(***************************************************************************)
(* The import table of one rendered file (codegen/templates/import.go), in *)
(* the order in which the template of resolvers uses it: the imports the   *)
(* template reserves, those the user's file had, and then whatever the     *)
(* types that are printed refer to (plugin/resolvergen/resolver.gotpl).    *)
(***************************************************************************)
EXTENDS Naturals, Sequences, Functions

CONSTANTS
    Paths,        \* import paths
    Own,          \* the path of the package that is rendered
    Names,        \* identifiers
    NameOf,       \* Packages.NameForPackage
    Numbered,     \* Numbered[<<n, i>>] is the name n followed by the number i
    MaxSuffix,    \* the last number that is tried; 9 in the code
    Normalize,    \* code.NormalizeVendor
    Reserved,     \* what the template reserves
    UserImports   \* what the user's file may import, with the names it uses

ASSUME ImportsAssumption ==
    /\ Own \in Paths /\ MaxSuffix \in Nat
    /\ NameOf \in [Paths -> Names] /\ Normalize \in [Paths -> Paths]
    /\ Numbered \in [Range(NameOf) \X (0..MaxSuffix) -> Names]
    /\ \A n \in Range(NameOf) : Numbered[<<n, 0>>] = n
    /\ Reserved \subseteq Paths /\ UserImports \subseteq Paths \X Names

VARIABLES
    imports,    \* Imports.imports
    stage,      \* the part of the template that is executed
    asked,      \* reservations that were made in it
    answers,    \* history: what Lookup returned
    panicked    \* Lookup has run out of numbers

importVars == <<imports, stage, asked, answers, panicked>>

Stages == {"template", "user", "types"}
Import == [path : Paths, name : Names, alias : Names]

ImportsTypeOK ==
    /\ imports \in Seq(Import)
    /\ stage \in Stages /\ asked \subseteq (Paths \X Names)
    /\ answers \subseteq (Paths \X Names) /\ panicked \in BOOLEAN
    /\ \A i \in DOMAIN imports : imports[i].path # Own /\ imports[i].name = NameOf[imports[i].path]

ImportsInit ==
    /\ imports = <<>> /\ stage = "template" /\ asked = {}
    /\ answers = {} /\ panicked = FALSE

Present(path) == \E i \in DOMAIN imports : imports[i].path = path
Taken(alias) == \E i \in DOMAIN imports : imports[i].alias = alias

With(path, alias) == Append(imports, [path |-> path, name |-> NameOf[path], alias |-> alias])

\* Mutation: the alias is not looked up.
ReservableByPath(path, alias) == ~Present(path)

\* findByPath and findByAlias; an import that is there, with the alias or with
\* another, and one whose alias is taken, change nothing.
Reservable(path, alias) == path # Own /\ ~Present(path) /\ ~Taken(alias)

Reserve(path, alias) ==
    /\ <<path, alias>> \notin asked
    /\ asked' = asked \cup {<<path, alias>>}
    /\ imports' = IF Reservable(path, alias) THEN With(path, alias) ELSE imports
    /\ UNCHANGED <<stage, answers, panicked>>

\* {{ reserveImport }}: without an alias, so by the name of the package.
ReserveTemplate == stage = "template" /\ \E p \in Reserved : Reserve(p, NameOf[p])

\* {{ .Imports }}: File.Imports does not look at the error of Reserve.
ReserveUser == stage = "user" /\ \E u \in UserImports : Reserve(u[1], u[2])

Ends == CASE stage = "template" -> asked = {<<p, NameOf[p]>> : p \in Reserved}
          [] stage = "user" -> TRUE
          [] OTHER -> FALSE

NextStage ==
    /\ Ends
    /\ stage' = IF stage = "template" THEN "user" ELSE "types"
    /\ UNCHANGED <<imports, asked, answers, panicked>>

Free(name) == {i \in 0..MaxSuffix : ~Taken(Numbered[<<name, i>>])}

\* Mutation: a collision is solved by the number of imports so far.
AliasCounted(name) == Numbered[<<name, IF Taken(name) THEN 1 ELSE 0>>]

Alias(name) == Numbered[<<name, CHOOSE i \in Free(name) : \A j \in Free(name) : i <= j>>]

\* ref and lookupImport: the types of the schema may be in any package.  The panic
\* ends the rendering.
Lookup(q) ==
    LET path == Normalize[q] IN
    /\ stage = "types" /\ ~panicked /\ path # Own
    /\ IF Present(path)
       THEN LET i == CHOOSE i \in DOMAIN imports : imports[i].path = path IN
            answers' = answers \cup {<<path, imports[i].alias>>} /\ UNCHANGED <<imports, panicked>>
       ELSE IF Free(NameOf[path]) = {}
       THEN panicked' = TRUE /\ UNCHANGED <<imports, answers>>
       ELSE /\ imports' = With(path, Alias(NameOf[path]))
            /\ answers' = answers \cup {<<path, Alias(NameOf[path])>>}
            /\ UNCHANGED panicked
    /\ UNCHANGED <<stage, asked>>

ImportsNext ==
    \/ ReserveTemplate \/ ReserveUser \/ NextStage
    \/ \E q \in Paths : Lookup(q)

ImportsSpec == ImportsInit /\ [][ImportsNext]_importVars
---------------------------------------------------------------------------
(* Properties *)

\* No path is imported twice and no two imports share a name, whatever is reserved
\* and looked up, also when the name of a package looks like a numbered name of
\* another; and what Lookup once answered, and the template has printed, stays the
\* name of that package and of no other (import.go:61-70, 93-114).
NamesStand ==
    /\ \A i, j \in DOMAIN imports :
          i # j => imports[i].path # imports[j].path /\ imports[i].alias # imports[j].alias
    /\ \A a \in answers : \A i \in DOMAIN imports :
          imports[i].alias = a[2] <=> imports[i].path = a[1]
=============================================================================
