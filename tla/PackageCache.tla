---------------------------- MODULE PackageCache ----------------------------
(***************************************************************************)
(* The cache of loaded Go packages (internal/code/packages.go) that one    *)
(* run of the generator keeps, and the writes of that run, each of which   *)
(* evicts the package it changes (codegen/templates/templates.go).         *)
(***************************************************************************)
EXTENDS Naturals, FiniteSets, Functions

CONSTANTS
    Pkgs,       \* packages, as numbers: a package imports smaller ones only
    Written,    \* those the generator writes
    MaxWrites   \* how many files it writes

ASSUME PackagesAssumption == Pkgs \subseteq Nat /\ Written \subseteq Pkgs /\ MaxWrites \in Nat

VARIABLES
    disk,       \* external: the number of times each package was written
    uses,       \* external: what each package imports
    packages,   \* Packages.packages
    names,      \* keys of Packages.importToName
    checked     \* history: the last result of LoadWithTypes

packageVars == <<disk, uses, packages, names, checked>>

Imported(p) == {q \in Pkgs : q < p}

\* What packages.Load says of a package: the version of everything its types are
\* made of, what it imports, and whether it has types of its own.
Loaded == [saw : [Pkgs -> Nat], imports : SUBSET Pkgs, typed : BOOLEAN]

PackagesTypeOK ==
    /\ disk \in [Pkgs -> Nat] /\ uses \in [Pkgs -> SUBSET Pkgs]
    /\ DOMAIN packages \subseteq Pkgs /\ Range(packages) \subseteq Loaded
    /\ names \subseteq Pkgs /\ checked \subseteq Pkgs \X Loaded
    /\ \A p \in DOMAIN packages : packages[p].imports \subseteq DOMAIN packages

PackagesInit ==
    /\ disk = [p \in Pkgs |-> 0]
    /\ uses \in [Pkgs -> SUBSET Pkgs] /\ \A p \in Pkgs : uses[p] \subseteq Imported(p)
    /\ packages = <<>> /\ names = {} /\ checked = {}

\* What is reached from p: the least set of packages that has p in it, and with each
\* package those that are next to it.
Closed(set, next) == \A q \in set : next[q] \subseteq set
Reached(p, next) ==
    LET around == {set \in SUBSET Pkgs : p \in set /\ Closed(set, next)}
    IN  {q \in Pkgs : \A set \in around : q \in set}

\* External: packages.Load reads the sources of p and of all below it.
FromDisk(p, typed) ==
    LET below == Reached(p, uses)
    IN  [saw |-> [q \in Pkgs |-> IF q \in below THEN disk[q] ELSE 0],
         imports |-> uses[p], typed |-> typed]

\* addToCache: p replaces what was there, the packages under it only fill gaps, and
\* the recursion stops at one that is cached.
Added(p) ==
    LET new == Reached(p, [q \in Pkgs |-> uses[q] \ DOMAIN packages])
    IN  [q \in DOMAIN packages \cup new |->
            IF q \in new THEN FromDisk(q, q = p) ELSE packages[q]]

\* LoadAll, Load
Load(p) ==
    /\ p \notin DOMAIN packages
    /\ packages' = Added(p)
    /\ UNCHANGED <<disk, uses, names, checked>>

\* Mutation: what is cached without types is good enough.
UsableAlways(p) == p \in DOMAIN packages

Usable(p) == p \in DOMAIN packages /\ packages[p].typed

\* A package that came along with another has no types of its own and is loaded
\* again.
LoadWithTypes(p) ==
    /\ packages' = IF Usable(p) THEN packages ELSE Added(p)
    /\ checked' = {<<p, packages'[p]>>}
    /\ UNCHANGED <<disk, uses, names>>

\* NameForPackage: a name stays when its package is evicted.
NameForPackage(p) ==
    /\ names' = names \cup {p}
    /\ UNCHANGED <<disk, uses, packages, checked>>

\* Mutation: only the package itself is evicted.
EvictedAlone(p) == [q \in DOMAIN packages \ {p} |-> packages[q]]

\* Evict: p, and recursively the cached packages that import what is evicted, as
\* they were loaded.
Evicted(p) ==
    LET importers == [r \in Pkgs |-> {q \in DOMAIN packages : r \in packages[q].imports}]
    IN  [q \in DOMAIN packages \ Reached(p, importers) |-> packages[q]]

\* Render: the file is written, with other imports perhaps, and evicted.
Render(p) ==
    /\ p \in Written /\ FoldFunction(+, 0, disk) < MaxWrites
    /\ disk' = [disk EXCEPT ![p] = @ + 1]
    /\ \E u \in SUBSET Imported(p) : uses' = [uses EXCEPT ![p] = u]
    /\ packages' = Evicted(p)
    /\ names' \in {names, names \cup uses'[p]}
    /\ checked' = {}

PackagesNext ==
    \E p \in Pkgs : Load(p) \/ LoadWithTypes(p) \/ NameForPackage(p) \/ Render(p)

PackagesSpec == PackagesInit /\ [][PackagesNext]_packageVars
---------------------------------------------------------------------------
(* Properties *)

\* Everything cached is as on the disk, and so is all that its types are made of,
\* through any number of imports, whatever was loaded on its own or along with
\* another, in whatever order packages were written; and the binder gets types,
\* also of packages that came along with others (packages.go:63-71, 82-97, 140-150).
CacheCurrent ==
    /\ \A p \in DOMAIN packages : packages[p] = FromDisk(p, packages[p].typed)
    /\ \A c \in checked : c[2] = FromDisk(c[1], TRUE)
=============================================================================
