------------------------- MODULE Generator_proofs -------------------------
(***************************************************************************)
(* Theorems about four parts of the generator, each for any packages,      *)
(* names, types and files: the import table of a rendered file (Imports),  *)
(* the cache of loaded packages (PackageCache), the binding of types over  *)
(* the runs (Generate) and the resolver files (Resolvers).                 *)
(***************************************************************************)
EXTENDS Generation, FiniteSetTheorems, WellFoundedInduction, TLAPS

LEMMA Least ==
  ASSUME NEW T, T \subseteq Nat, T # {}
  PROVE  \E x \in T : \A y \in T : x <= y
<1>1. PICK x \in T : \A y \in T : ~ (<<y, x>> \in OpToRel(<, Nat))
  BY WFMin, NatLessThanWellFounded
<1>2. \A y \in T : ~ (y < x)
  BY <1>1 DEF OpToRel
<1>3. QED BY <1>2

---------------------------------------------------------------------------
(* The import table *)

Unlike(i, j) == imports[i].path # imports[j].path /\ imports[i].alias # imports[j].alias

\* NamesStand, with the reason why an answer stays one: its import is in the table,
\* to which imports are only added.
TableInv ==
    /\ ImportsTypeOK
    /\ \A i, j \in DOMAIN imports : i # j => Unlike(i, j)
    /\ \A a \in answers :
          \E i \in DOMAIN imports : imports[i].path = a[1] /\ imports[i].alias = a[2]

\* An import that is in no place of the table, by its path or by its alias, may be
\* appended.
LEMMA Appended ==
  ASSUME TableInv, NEW path \in Paths, path # Own, NEW alias \in Names,
         ~Present(path), ~Taken(alias), imports' = With(path, alias),
         NEW more \in {{}, {<<path, alias>>}}, answers' = answers \cup more,
         stage' \in Stages, asked' \subseteq Paths \X Names, panicked' \in BOOLEAN
  PROVE  TableInv'
<1> DEFINE new == [path |-> path, name |-> NameOf[path], alias |-> alias]
           last == Len(imports) + 1
<1>1. imports \in Seq(Import) /\ answers \subseteq Paths \X Names
  BY DEF TableInv, ImportsTypeOK
<1> DEFINE Fine(i) == imports[i].path # Own /\ imports[i].name = NameOf[imports[i].path]
           Answers(a) == \E i \in DOMAIN imports : imports[i].path = a[1] /\ imports[i].alias = a[2]
<1>2. /\ \A i \in DOMAIN imports : Fine(i)
      /\ \A i, j \in DOMAIN imports : i # j => Unlike(i, j)
      /\ \A a \in answers : Answers(a)
  BY DEF TableInv, ImportsTypeOK
<1>3. NameOf[path] \in Names
  BY ImportsAssumption
<1>4. new \in Import /\ new.path = path /\ new.alias = alias /\ new.name = NameOf[path]
  BY <1>3 DEF Import
<1>5. imports' = Append(imports, new)
  BY DEF With
<1> HIDE DEF new
<1>6. /\ imports' \in Seq(Import) /\ DOMAIN imports' = 1..last /\ DOMAIN imports = 1..Len(imports)
      /\ Len(imports) \in Nat /\ imports'[last] = new
      /\ \A i \in DOMAIN imports : imports'[i] = imports[i]
  <2>1. imports \in Seq(Import) /\ new \in Import
    BY <1>1, <1>4
  <2>2. QED BY ONLY <1>5, <2>1
<1>7. DOMAIN imports' = DOMAIN imports \cup {last} /\ last \notin DOMAIN imports
  BY <1>6
<1> HIDE DEF last
<1>8. ImportsTypeOK'
  <2>1. ASSUME NEW i \in DOMAIN imports' PROVE Fine(i)'
    <3>1. CASE i = last
      BY <1>4, <1>6, <3>1
    <3>2. CASE i # last
      BY <1>2, <1>6, <1>7, <3>2
    <3>3. QED BY <3>1, <3>2
  <2>2. answers' \subseteq Paths \X Names
    BY <1>1
  <2>3. QED BY <1>6, <2>1, <2>2 DEF ImportsTypeOK
<1>9. ASSUME NEW i \in DOMAIN imports', NEW j \in DOMAIN imports', i # j
      PROVE  Unlike(i, j)'
  <2>1. \A k \in DOMAIN imports : imports[k].path # path /\ imports[k].alias # alias
    BY DEF Present, Taken
  <2>2. CASE i = last
    BY <1>4, <1>6, <1>7, <1>9, <2>1, <2>2 DEF Unlike
  <2>3. CASE j = last
    BY <1>4, <1>6, <1>7, <1>9, <2>1, <2>3 DEF Unlike
  <2>4. CASE i # last /\ j # last
    <3>1. Unlike(i, j) /\ imports'[i] = imports[i] /\ imports'[j] = imports[j]
      BY <1>2, <1>6, <1>7, <1>9, <2>4
    <3>2. QED BY <3>1 DEF Unlike
  <2>5. QED BY <2>2, <2>3, <2>4
<1>10. ASSUME NEW a \in answers'
      PROVE  \E i \in DOMAIN imports' : imports'[i].path = a[1] /\ imports'[i].alias = a[2]
  <2>1. CASE a \in answers
    <3>1. PICK i \in DOMAIN imports : imports[i].path = a[1] /\ imports[i].alias = a[2]
      BY <1>2, <2>1
    <3>2. i \in DOMAIN imports' /\ imports'[i] = imports[i]
      BY <1>6, <1>7
    <3>3. QED BY <3>1, <3>2
  <2>2. CASE a \notin answers
    <3>1. a = <<path, alias>>
      BY <1>10, <2>2
    <3>2. QED BY <1>4, <1>6, <1>7, <3>1
  <2>3. QED BY <2>1, <2>2
<1>11. QED BY <1>8, <1>9, <1>10 DEF TableInv

\* A name that Lookup finds is free: the first number that is.
LEMMA AliasIsFree ==
  ASSUME NEW name \in Range(NameOf), Free(name) # {}
  PROVE  Alias(name) \in Names /\ ~Taken(Alias(name))
<1> DEFINE first == CHOOSE i \in Free(name) : \A j \in Free(name) : i <= j
<1>1. Free(name) \subseteq Nat
  BY ImportsAssumption DEF Free
<1>2. \E i \in Free(name) : \A j \in Free(name) : i <= j
  BY <1>1, Least
<1>3. first \in Free(name)
  BY <1>2
<1> HIDE DEF first
<1>4. first \in 0..MaxSuffix /\ ~Taken(Numbered[<<name, first>>])
  BY <1>3 DEF Free
<1>5. Numbered[<<name, first>>] \in Names
  BY <1>4, ImportsAssumption
<1>6. QED BY <1>4, <1>5 DEF Alias, first

LEMMA TableInit == ImportsInit => TableInv
<1>1. <<>> \in Seq(Import)
  OBVIOUS
<1>2. ASSUME ImportsInit PROVE TableInv
  <2>1. imports \in Seq(Import) /\ DOMAIN imports = {}
    BY <1>1, <1>2 DEF ImportsInit
  <2>2. QED BY <1>2, <2>1 DEF ImportsInit, TableInv, ImportsTypeOK, Stages
<1>3. QED BY <1>2

LEMMA ReserveKeeps ==
  ASSUME TableInv, NEW path \in Paths, NEW alias \in Names, Reserve(path, alias)
  PROVE  TableInv'
<1>1. /\ stage' \in Stages /\ panicked' \in BOOLEAN /\ answers' = answers
      /\ asked' \subseteq Paths \X Names
  BY DEF Reserve, TableInv, ImportsTypeOK
<1>2. CASE Reservable(path, alias)
  <2>1. imports' = With(path, alias)
    BY <1>2 DEF Reserve
  <2>2. path # Own /\ ~Present(path) /\ ~Taken(alias)
    BY <1>2 DEF Reservable
  <2>3. answers' = answers \cup {}
    BY <1>1
  <2>4. QED BY <1>1, <2>1, <2>2, <2>3, Appended
<1>3. CASE ~Reservable(path, alias)
  <2>1. imports' = imports
    BY <1>3 DEF Reserve
  <2>2. QED BY <1>1, <2>1 DEF TableInv, ImportsTypeOK, Unlike
<1>4. QED BY <1>2, <1>3

LEMMA LookupKeeps ==
  ASSUME TableInv, NEW q \in Paths, Lookup(q)
  PROVE  TableInv'
<1> DEFINE path == Normalize[q]
           at == CHOOSE i \in DOMAIN imports : imports[i].path = path
<1>1. /\ stage' \in Stages /\ asked' \subseteq Paths \X Names
      /\ imports \in Seq(Import) /\ panicked \in BOOLEAN /\ answers \subseteq Paths \X Names
  BY DEF Lookup, TableInv, ImportsTypeOK
<1>2. path \in Paths /\ path # Own /\ NameOf[path] \in Range(NameOf)
  BY ImportsAssumption DEF Lookup, Range
<1>3. CASE Present(path)
  <2>1. at \in DOMAIN imports /\ imports[at].path = path
    BY <1>3 DEF Present
  <2>2. answers' = answers \cup {<<path, imports[at].alias>>} /\ imports' = imports /\ panicked' = panicked
    BY <1>3 DEF Lookup
  <2> HIDE DEF at
  <2>3. imports[at] \in Import
    BY <1>1, <2>1
  <2>4. imports[at].alias \in Names
    BY <2>3 DEF Import
  <2>5. ImportsTypeOK'
    BY <1>1, <1>2, <2>2, <2>4 DEF TableInv, ImportsTypeOK
  <2>6. ASSUME NEW a \in answers'
        PROVE  \E i \in DOMAIN imports' : imports'[i].path = a[1] /\ imports'[i].alias = a[2]
    BY <2>1, <2>2, <2>6 DEF TableInv
  <2>7. QED BY <2>2, <2>5, <2>6 DEF TableInv, Unlike
<1>4. CASE ~Present(path) /\ Free(NameOf[path]) = {}
  BY <1>1, <1>4 DEF Lookup, TableInv, ImportsTypeOK, Unlike
<1>5. CASE ~Present(path) /\ Free(NameOf[path]) # {}
  <2> DEFINE alias == Alias(NameOf[path])
  <2>1. /\ imports' = With(path, alias) /\ panicked' = panicked
        /\ answers' = answers \cup {<<path, alias>>}
    BY <1>5 DEF Lookup
  <2>2. alias \in Names /\ ~Taken(alias)
    BY <1>2, <1>5, AliasIsFree
  <2> HIDE DEF alias, path
  <2>3. QED BY <1>1, <1>2, <1>5, <2>1, <2>2, Appended
<1>6. QED BY <1>3, <1>4, <1>5

LEMMA TableNext == TableInv /\ [ImportsNext]_importVars => TableInv'
<1> SUFFICES ASSUME TableInv, [ImportsNext]_importVars PROVE TableInv'
  OBVIOUS
<1>1. CASE ReserveTemplate
  <2>1. PICK p \in Reserved : Reserve(p, NameOf[p])
    BY <1>1 DEF ReserveTemplate
  <2>2. p \in Paths /\ NameOf[p] \in Names
    BY ImportsAssumption
  <2>3. QED BY <2>1, <2>2, ReserveKeeps
<1>2. CASE ReserveUser
  <2>1. PICK u \in UserImports : Reserve(u[1], u[2])
    BY <1>2 DEF ReserveUser
  <2>2. u[1] \in Paths /\ u[2] \in Names
    BY ImportsAssumption
  <2>3. QED BY <2>1, <2>2, ReserveKeeps
<1>3. CASE NextStage
  BY <1>3 DEF NextStage, TableInv, ImportsTypeOK, Stages, Unlike
<1>4. ASSUME NEW q \in Paths, Lookup(q) PROVE TableInv'
  BY <1>4, LookupKeeps
<1>5. CASE UNCHANGED importVars
  BY <1>5 DEF importVars, TableInv, ImportsTypeOK, Unlike
<1>6. QED BY <1>1, <1>2, <1>3, <1>4, <1>5 DEF ImportsNext

LEMMA TableHolds == ImportsSpec => []TableInv
<1>1. QED BY TableInit, TableNext, PTL DEF ImportsSpec

\* The table and the answers keep their types, the package that is rendered is never
\* imported, and every import has its package's name (import.go:45-115).
THEOREM ImportsTypeCorrect == ImportsSpec => []ImportsTypeOK
<1>1. TableInv => ImportsTypeOK
  BY DEF TableInv
<1>2. QED BY <1>1, TableHolds, PTL

\* For any packages, names and numbered names, also ones that coincide, and for
\* whatever is reserved: paths and aliases stay unique, and what Lookup answered once
\* stays the name of that package and of no other (import.go:61-70, 93-114).
THEOREM NamesAlwaysStand == ImportsSpec => []NamesStand
<1>1. ASSUME TableInv PROVE NamesStand
  <2>1. \A i, j \in DOMAIN imports :
          i # j => imports[i].path # imports[j].path /\ imports[i].alias # imports[j].alias
    BY <1>1 DEF TableInv, Unlike
  <2>2. ASSUME NEW a \in answers, NEW i \in DOMAIN imports
        PROVE  imports[i].alias = a[2] <=> imports[i].path = a[1]
    <3>1. PICK j \in DOMAIN imports : imports[j].path = a[1] /\ imports[j].alias = a[2]
      BY <1>1, <2>2 DEF TableInv
    <3>2. QED BY <2>1, <2>2, <3>1
  <2>3. QED BY <2>1, <2>2 DEF NamesStand
<1>2. QED BY <1>1, TableHolds, PTL

---------------------------------------------------------------------------
(* The cache of packages *)

LEMMA ReachedIsClosed ==
  ASSUME NEW p \in Pkgs, NEW next \in [Pkgs -> SUBSET Pkgs]
  PROVE  /\ p \in Reached(p, next) /\ Reached(p, next) \subseteq Pkgs
         /\ \A q \in Reached(p, next) : next[q] \subseteq Reached(p, next)
<1>1. p \in Reached(p, next) /\ Reached(p, next) \subseteq Pkgs
  BY DEF Reached
<1>2. ASSUME NEW q \in Reached(p, next), NEW r \in next[q]
      PROVE  r \in Reached(p, next)
  <2>1. q \in Pkgs /\ r \in Pkgs
    BY <1>1, <1>2
  <2>2. ASSUME NEW set \in SUBSET Pkgs, p \in set, Closed(set, next) PROVE r \in set
    <3>1. q \in set
      BY <1>2, <2>2 DEF Reached
    <3>2. QED BY <1>2, <2>2, <3>1 DEF Closed
  <2>3. QED BY <2>1, <2>2 DEF Reached
<1>3. QED BY <1>1, <1>2

LEMMA ReachedIsLeast ==
  ASSUME NEW p, NEW next, NEW set \in SUBSET Pkgs, p \in set, Closed(set, next)
  PROVE  Reached(p, next) \subseteq set
<1>1. QED BY DEF Reached

\* What is reached depends only on a closed set around it.
LEMMA ReachedAgree ==
  ASSUME NEW next \in [Pkgs -> SUBSET Pkgs], NEW other \in [Pkgs -> SUBSET Pkgs],
         NEW set \in SUBSET Pkgs, Closed(set, next), \A q \in set : other[q] = next[q],
         NEW p \in set
  PROVE  Reached(p, other) = Reached(p, next) /\ Reached(p, next) \subseteq set
<1>1. Closed(set, other)
  BY DEF Closed
<1>2. Reached(p, other) \subseteq set /\ Reached(p, next) \subseteq set
  BY <1>1, ReachedIsLeast
<1>3. p \in Pkgs
  OBVIOUS
<1>4. /\ p \in Reached(p, next) /\ Reached(p, next) \in SUBSET Pkgs
      /\ \A q \in Reached(p, next) : next[q] \subseteq Reached(p, next)
  BY <1>3, ReachedIsClosed
<1>5. /\ p \in Reached(p, other) /\ Reached(p, other) \in SUBSET Pkgs
      /\ \A q \in Reached(p, other) : other[q] \subseteq Reached(p, other)
  BY <1>3, ReachedIsClosed
<1>6. Closed(Reached(p, next), other)
  BY <1>2, <1>4 DEF Closed
<1>7. Closed(Reached(p, other), next)
  BY <1>2, <1>5 DEF Closed
<1>8. Reached(p, other) \subseteq Reached(p, next)
  BY <1>4, <1>6, ReachedIsLeast
<1>9. Reached(p, next) \subseteq Reached(p, other)
  BY <1>5, <1>7, ReachedIsLeast
<1>10. QED BY <1>2, <1>8, <1>9

\* The cache has, with a package, what that imports, and has it as it is on the disk:
\* so the imports of a cached package are those that a write cannot change without
\* evicting it.
CacheInv == PackagesTypeOK /\ CacheCurrent

LEMMA ReadsLoaded ==
  ASSUME PackagesTypeOK, NEW q \in Pkgs, NEW typed \in BOOLEAN
  PROVE  /\ FromDisk(q, typed) \in Loaded
         /\ FromDisk(q, typed).imports = uses[q] /\ FromDisk(q, typed).typed = typed
<1>1. disk \in [Pkgs -> Nat] /\ uses[q] \in SUBSET Pkgs
  BY DEF PackagesTypeOK
<1>2. [r \in Pkgs |-> IF r \in Reached(q, uses) THEN disk[r] ELSE 0] \in [Pkgs -> Nat]
  BY <1>1
<1>3. QED BY <1>1, <1>2 DEF FromDisk, Loaded

\* addToCache, when p is not there or without types.
LEMMA AddedKeeps ==
  ASSUME CacheInv, NEW p \in Pkgs, packages' = Added(p), UNCHANGED <<disk, uses, names>>
  PROVE  /\ p \in DOMAIN packages' /\ packages'[p] = FromDisk(p, TRUE)
         /\ DOMAIN packages' \subseteq Pkgs /\ Range(packages') \subseteq Loaded
         /\ \A q \in DOMAIN packages' : /\ packages'[q].imports \subseteq DOMAIN packages'
                                        /\ packages'[q] = FromDisk(q, packages'[q].typed)
<1> DEFINE next == [q \in Pkgs |-> uses[q] \ DOMAIN packages]
           new == Reached(p, next)
<1>1. /\ uses \in [Pkgs -> SUBSET Pkgs] /\ DOMAIN packages \subseteq Pkgs /\ PackagesTypeOK
      /\ \A q \in DOMAIN packages : packages[q] \in Loaded
      /\ \A q \in DOMAIN packages : packages[q].imports \subseteq DOMAIN packages
      /\ \A q \in DOMAIN packages : packages[q] = FromDisk(q, packages[q].typed)
  BY DEF CacheInv, PackagesTypeOK, CacheCurrent, Range
<1>2. next \in [Pkgs -> SUBSET Pkgs] /\ \A q \in Pkgs : next[q] = uses[q] \ DOMAIN packages
  BY <1>1
<1> HIDE DEF next
<1>3. /\ p \in new /\ new \subseteq Pkgs
      /\ \A q \in new : uses[q] \ DOMAIN packages \subseteq new
  BY <1>2, ReachedIsClosed
<1>4. /\ DOMAIN packages' = DOMAIN packages \cup new
      /\ \A q \in DOMAIN packages' :
            packages'[q] = IF q \in new THEN FromDisk(q, q = p) ELSE packages[q]
  BY DEF Added, next
<1> HIDE DEF new
<1>5. ASSUME NEW q \in new
      PROVE  /\ packages'[q] = FromDisk(q, q = p) /\ packages'[q] \in Loaded
             /\ packages'[q].imports = uses[q] /\ packages'[q].typed = (q = p)
  <2>1. q \in Pkgs /\ (q = p) \in BOOLEAN /\ packages'[q] = FromDisk(q, q = p)
    BY <1>3, <1>4
  <2>2. QED BY <1>1, <2>1, ReadsLoaded
<1>6. ASSUME NEW q \in DOMAIN packages'
      PROVE  /\ q \in Pkgs /\ packages'[q] \in Loaded
             /\ packages'[q].imports \subseteq DOMAIN packages'
             /\ packages'[q] = FromDisk(q, packages'[q].typed)
  <2>1. CASE q \in new
    <3>1. uses[q] \subseteq DOMAIN packages'
      BY <1>3, <1>4, <2>1
    <3>2. QED BY <1>3, <1>5, <2>1, <3>1
  <2>2. CASE q \notin new
    <3>1. q \in DOMAIN packages /\ packages'[q] = packages[q]
      BY <1>4, <1>6, <2>2
    <3>2. QED BY <1>1, <1>4, <3>1
  <2>3. QED BY <2>1, <2>2
<1>7. packages'[p] = FromDisk(p, TRUE)
  <2>1. (p = p) = TRUE
    OBVIOUS
  <2>2. QED BY <1>3, <1>5, <2>1
<1>8. QED BY <1>3, <1>4, <1>6, <1>7 DEF Range

\* Evict and the write: what stays in the cache reaches only what stays, and so
\* nothing that was written.
LEMMA EvictedKeeps ==
  ASSUME CacheInv, NEW p \in Pkgs, packages' = Evicted(p),
         disk' = [disk EXCEPT ![p] = @ + 1],
         NEW u \in SUBSET Imported(p), uses' = [uses EXCEPT ![p] = u]
  PROVE  /\ DOMAIN packages' \subseteq Pkgs /\ Range(packages') \subseteq Loaded
         /\ \A q \in DOMAIN packages' :
               /\ packages'[q].imports \subseteq DOMAIN packages'
               /\ packages'[q] = FromDisk(q, packages[q].typed)'
<1> DEFINE importers == [r \in Pkgs |-> {q \in DOMAIN packages : r \in packages[q].imports}]
           gone == Reached(p, importers)
           kept == DOMAIN packages'
<1>1. /\ disk \in [Pkgs -> Nat] /\ uses \in [Pkgs -> SUBSET Pkgs]
      /\ DOMAIN packages \subseteq Pkgs /\ PackagesTypeOK
      /\ \A q \in DOMAIN packages : packages[q] \in Loaded
      /\ \A q \in DOMAIN packages : packages[q].imports \subseteq DOMAIN packages
      /\ \A q \in DOMAIN packages : packages[q] = FromDisk(q, packages[q].typed)
  BY DEF CacheInv, PackagesTypeOK, CacheCurrent, Range
<1>2. importers \in [Pkgs -> SUBSET Pkgs]
  BY <1>1
<1>3. /\ p \in gone
      /\ \A r \in gone : r \in Pkgs /\ importers[r] \subseteq gone
  BY <1>2, ReachedIsClosed
<1>4. kept = DOMAIN packages \ gone /\ \A q \in kept : packages'[q] = packages[q]
  BY DEF Evicted
<1>5. \A r \in gone, q \in DOMAIN packages : r \in packages[q].imports => q \in gone
  BY <1>3
<1> HIDE DEF importers, gone, kept
<1>6. ASSUME NEW q \in kept
      PROVE  q \in DOMAIN packages /\ packages[q].imports = uses[q] /\ packages[q].typed \in BOOLEAN
  <2>1. q \in DOMAIN packages /\ q \in Pkgs
    BY <1>1, <1>4, <1>6
  <2>2. packages[q].typed \in BOOLEAN
    BY <1>1, <2>1 DEF Loaded
  <2>3. FromDisk(q, packages[q].typed).imports = uses[q]
    BY <1>1, <2>1, <2>2, ReadsLoaded
  <2>4. QED BY <1>1, <2>1, <2>2, <2>3
<1>7. kept \in SUBSET Pkgs /\ p \notin kept
  BY <1>1, <1>3, <1>4
<1>8. \A q \in kept : uses[q] \subseteq kept
  <2>1. \A q \in kept : packages[q].imports \subseteq kept
    BY <1>1, <1>4, <1>5
  <2>2. QED BY <1>6, <2>1
<1>9. Closed(kept, uses)
  BY <1>8 DEF Closed
<1>10. uses' \in [Pkgs -> SUBSET Pkgs] /\ \A q \in kept : uses'[q] = uses[q]
  BY <1>1, <1>7 DEF Imported
<1>11. \A q \in kept : disk'[q] = disk[q]
  BY <1>1, <1>7
<1>12. ASSUME NEW q \in kept
       PROVE  packages'[q] = FromDisk(q, packages[q].typed)'
  <2>1. Reached(q, uses') = Reached(q, uses) /\ Reached(q, uses) \subseteq kept
    <3>1. uses \in [Pkgs -> SUBSET Pkgs]
      BY <1>1
    <3>2. /\ kept \in SUBSET Pkgs /\ q \in kept
          /\ uses' \in [Pkgs -> SUBSET Pkgs] /\ \A r \in kept : uses'[r] = uses[r]
      BY <1>7, <1>10, <1>12
    <3>3. QED BY ONLY <1>9, <3>1, <3>2, ReachedAgree
  <2>2. uses'[q] = uses[q]
    BY <1>10
  <2>3. [r \in Pkgs |-> IF r \in Reached(q, uses') THEN disk'[r] ELSE 0]
            = [r \in Pkgs |-> IF r \in Reached(q, uses) THEN disk[r] ELSE 0]
    BY <1>11, <2>1
  <2>4. \A typed : FromDisk(q, typed)' = FromDisk(q, typed)
    BY <2>2, <2>3 DEF FromDisk
  <2>5. packages'[q] = packages[q] /\ packages[q] = FromDisk(q, packages[q].typed)
    BY <1>1, <1>4, <1>6
  <2>6. packages'[q] = FromDisk(q, packages[q].typed)'
    BY <2>4, <2>5
  <2>7. QED BY <2>6
<1>13. \A q \in kept : packages'[q] \in Loaded /\ packages'[q].imports \subseteq kept
  BY <1>1, <1>4, <1>6, <1>8
<1>14. QED BY <1>7, <1>12, <1>13 DEF Range, kept

LEMMA CacheInit == PackagesInit => CacheInv
<1>1. ASSUME PackagesInit PROVE CacheInv
  <2>1. DOMAIN packages = {}
    BY <1>1 DEF PackagesInit
  <2>2. QED BY <1>1, <2>1 DEF PackagesInit, CacheInv, PackagesTypeOK, CacheCurrent, Range
<1>2. QED BY <1>1

LEMMA CacheNext == CacheInv /\ [PackagesNext]_packageVars => CacheInv'
<1> SUFFICES ASSUME CacheInv, [PackagesNext]_packageVars PROVE CacheInv'
  OBVIOUS
<1>0. /\ disk \in [Pkgs -> Nat] /\ uses \in [Pkgs -> SUBSET Pkgs] /\ PackagesTypeOK
      /\ names \subseteq Pkgs /\ checked \subseteq Pkgs \X Loaded
      /\ \A c \in checked : c[2] = FromDisk(c[1], TRUE)
      /\ \A q \in DOMAIN packages : packages[q] \in Loaded
      /\ \A q \in DOMAIN packages : packages[q] = FromDisk(q, packages[q].typed)
  BY DEF CacheInv, PackagesTypeOK, CacheCurrent, Range
<1>1. ASSUME NEW p \in Pkgs, Load(p) PROVE CacheInv'
  <2>1. packages' = Added(p) /\ UNCHANGED <<disk, uses, names, checked>>
    BY <1>1 DEF Load
  <2>2. /\ DOMAIN packages' \subseteq Pkgs /\ Range(packages') \subseteq Loaded
        /\ \A q \in DOMAIN packages' : /\ packages'[q].imports \subseteq DOMAIN packages'
                                       /\ packages'[q] = FromDisk(q, packages'[q].typed)
    BY <1>1, <2>1, AddedKeeps
  <2>3. \A q, typed : FromDisk(q, typed)' = FromDisk(q, typed)
    BY <2>1 DEF FromDisk
  <2>4. PackagesTypeOK'
    BY <1>0, <2>1, <2>2 DEF PackagesTypeOK
  <2>5. CacheCurrent'
    BY <1>0, <2>1, <2>2, <2>3 DEF CacheCurrent
  <2>6. QED BY <2>4, <2>5 DEF CacheInv
<1>2. ASSUME NEW p \in Pkgs, LoadWithTypes(p) PROVE CacheInv'
  <2>1. UNCHANGED <<disk, uses, names>> /\ checked' = {<<p, packages'[p]>>}
    BY <1>2 DEF LoadWithTypes
  <2>2. \A q, typed : FromDisk(q, typed)' = FromDisk(q, typed)
    BY <2>1 DEF FromDisk
  <2>3. /\ p \in DOMAIN packages' /\ packages'[p] = FromDisk(p, TRUE)
        /\ DOMAIN packages' \subseteq Pkgs /\ Range(packages') \subseteq Loaded
        /\ \A q \in DOMAIN packages' : /\ packages'[q].imports \subseteq DOMAIN packages'
                                       /\ packages'[q] = FromDisk(q, packages'[q].typed)
    <3>1. CASE Usable(p)
      <4>1. packages' = packages /\ p \in DOMAIN packages /\ packages[p].typed
        BY <1>2, <3>1 DEF LoadWithTypes, Usable
      <4>2. packages[p].typed \in BOOLEAN
        BY <1>0, <4>1 DEF Loaded
      <4>3. packages[p].typed = TRUE
        BY <4>1, <4>2
      <4>4. packages'[p] = FromDisk(p, TRUE)
        BY <1>0, <4>1, <4>3
      <4>5. QED BY <1>0, <4>1, <4>4 DEF PackagesTypeOK
    <3>2. CASE ~Usable(p)
      <4>1. packages' = Added(p)
        BY <1>2, <3>2 DEF LoadWithTypes
      <4>2. QED BY <1>2, <2>1, <4>1, AddedKeeps
    <3>3. QED BY <3>1, <3>2
  <2>4. FromDisk(p, TRUE) \in Loaded
    BY <1>0, <1>2, ReadsLoaded
  <2>5. PackagesTypeOK'
    <3> DEFINE got == FromDisk(p, TRUE)
    <3>0. checked' = {<<p, got>>} /\ got \in Loaded
      BY <2>1, <2>3, <2>4
    <3> HIDE DEF got
    <3>1. checked' \subseteq Pkgs \X Loaded
      BY <3>0
    <3>2. \A q \in DOMAIN packages' : packages'[q].imports \subseteq DOMAIN packages'
      BY <2>3
    <3>3. DOMAIN packages' \subseteq Pkgs /\ Range(packages') \subseteq Loaded
      BY <2>3
    <3>4. /\ disk' \in [Pkgs -> Nat] /\ uses' \in [Pkgs -> SUBSET Pkgs]
          /\ names' \subseteq Pkgs
      BY <1>0, <2>1
    <3>5. QED BY ONLY <3>1, <3>2, <3>3, <3>4 DEF PackagesTypeOK
  <2>6. CacheCurrent'
    <3>1. \A c \in checked' : c[2] = FromDisk(c[1], TRUE)'
      <4>1. FromDisk(p, TRUE)' = FromDisk(p, TRUE)
        BY <2>2
      <4> DEFINE got == FromDisk(p, TRUE)
      <4>2. checked' = {<<p, got>>}
        BY <2>1, <2>3
      <4> HIDE DEF got
      <4>3. \A c \in checked' : c[1] = p /\ c[2] = got
        BY <4>2
      <4>4. QED BY <4>1, <4>3 DEF got
    <3>2. \A q \in DOMAIN packages' : packages'[q] = FromDisk(q, packages[q].typed)'
      BY <2>2, <2>3
    <3>3. QED BY <3>1, <3>2 DEF CacheCurrent
  <2>7. QED BY <2>5, <2>6 DEF CacheInv
<1>3. ASSUME NEW p \in Pkgs, NameForPackage(p) PROVE CacheInv'
  <2>1. names' = names \cup {p} /\ UNCHANGED <<disk, uses, packages, checked>>
    BY <1>3 DEF NameForPackage
  <2>2. \A q, typed : FromDisk(q, typed)' = FromDisk(q, typed)
    BY <2>1 DEF FromDisk
  <2>3. PackagesTypeOK'
    BY <1>0, <2>1 DEF PackagesTypeOK
  <2>4. QED BY <1>0, <2>1, <2>2, <2>3 DEF CacheCurrent, CacheInv
<1>4. ASSUME NEW p \in Pkgs, Render(p) PROVE CacheInv'
  <2>1. /\ disk' = [disk EXCEPT ![p] = @ + 1] /\ packages' = Evicted(p) /\ checked' = {}
        /\ names' \in {names, names \cup uses'[p]}
    BY <1>4 DEF Render
  <2>2. PICK u \in SUBSET Imported(p) : uses' = [uses EXCEPT ![p] = u]
    BY <1>4 DEF Render
  <2>3. /\ DOMAIN packages' \subseteq Pkgs /\ Range(packages') \subseteq Loaded
        /\ \A q \in DOMAIN packages' :
               /\ packages'[q].imports \subseteq DOMAIN packages'
               /\ packages'[q] = FromDisk(q, packages[q].typed)'
    BY <1>4, <2>1, <2>2, EvictedKeeps
  <2>4. disk' \in [Pkgs -> Nat] /\ uses' \in [Pkgs -> SUBSET Pkgs] /\ uses'[p] \subseteq Pkgs
    BY <1>0, <2>1, <2>2 DEF Imported
  <2>5. names' \subseteq Pkgs
    BY <1>0, <2>1, <2>4
  <2>6. PackagesTypeOK'
    <3>1. \A q \in DOMAIN packages' : packages'[q].imports \subseteq DOMAIN packages'
      BY <2>3
    <3>2. DOMAIN packages' \subseteq Pkgs /\ Range(packages') \subseteq Loaded
      BY <2>3
    <3>3. checked' \subseteq Pkgs \X Loaded
      BY <2>1
    <3>4. QED BY <2>4, <2>5, <3>1, <3>2, <3>3 DEF PackagesTypeOK
  <2>7. QED BY <2>1, <2>3, <2>6 DEF CacheCurrent, CacheInv
<1>5. CASE UNCHANGED packageVars
  <2>1. UNCHANGED <<disk, uses, packages, names, checked>>
    BY <1>5 DEF packageVars
  <2>2. \A q, typed : FromDisk(q, typed)' = FromDisk(q, typed)
    BY <2>1 DEF FromDisk
  <2>3. PackagesTypeOK'
    BY <1>0, <2>1 DEF PackagesTypeOK
  <2>4. QED BY <1>0, <2>1, <2>2, <2>3 DEF CacheCurrent, CacheInv
<1>6. QED BY <1>1, <1>2, <1>3, <1>4, <1>5 DEF PackagesNext

LEMMA CacheHolds == PackagesSpec => []CacheInv
<1>1. QED BY CacheInit, CacheNext, PTL DEF PackagesSpec

\* The cache keeps its types, and with a package always what that imports: a gap in it
\* would be a package that no eviction finds (packages.go:63-71, 140-150).
THEOREM PackagesTypeCorrect == PackagesSpec => []PackagesTypeOK
<1>1. CacheInv => PackagesTypeOK
  BY DEF CacheInv
<1>2. QED BY <1>1, CacheHolds, PTL

\* For any packages and any imports among them, which each write may change, everything
\* cached is as on the disk with all that it is made of, and the binder always gets types
\* (packages.go:63-71, 82-97, 140-150).
THEOREM CacheStaysCurrent == PackagesSpec => []CacheCurrent
<1>1. CacheInv => CacheCurrent
  BY DEF CacheInv
<1>2. QED BY <1>1, CacheHolds, PTL

---------------------------------------------------------------------------
(* The runs *)

\* What a type of the schema is bound to when the models are written.
Settled(t) ==
    IF OwnType(t) # None THEN OwnType(t)
    ELSE IF Kind[t] = "model" THEN <<ModelPkg, t>>
    ELSE IF Kind[t] = "root" THEN None
    ELSE <<Library, t>>

Unowned == {t \in schema : Kind[t] = "model" /\ OwnType(t) = None}

\* What RunsAreFresh allows a run to be refused for.
Mistake(t) ==
    \/ mapped[t] # None /\ mapped[t] \notin declared
    \/ OwnType(t) = None /\ Kind[t] = "model" /\ <<ModelPkg, t>> \in declared
    \/ OwnType(t) = None /\ Kind[t] = "root" /\ \E u \in schema : t \in Refers[u]

WithModels == {"build", "write", "validate", "done"}
WithTypes == {"write", "validate", "done"}

\* Root types are never mapped.  A run begins without the file of models, so that what
\* it finds is the user's; from then on each step of it knows what the next relies on.
RunInv ==
    /\ GenerateTypeOK
    /\ \A t \in Types : mapped[t] # None => mapped[t] \in GoTypes /\ Kind[t] # "root"
    /\ step \in {"init", "mutate"} => modelFile = {}
    /\ step = "mutate" => \A t \in schema :
          models[t] = IF OwnType(t) # None THEN OwnType(t)
                      ELSE IF Kind[t] = "builtin" THEN <<Library, t>> ELSE None
    /\ step \in WithModels => modelFile = Unowned /\ \A t \in schema : models[t] = Settled(t)
    /\ step \in WithTypes => \A t \in Needed : UserDefined(t) /\ Found(models[t])
    /\ step \in {"validate", "done"} => \A t \in Needed : execFile[t] = models[t]
    /\ step = "done" => \A t \in modelFile : <<ModelPkg, t>> \notin declared
    /\ step = "refused" => \E t \in schema : Mistake(t)

\* A Go type of a package is not None, which has no package.
LEMMA SomePackage ==
  ASSUME NEW t
  PROVE  /\ <<Library, t>> # None /\ \A p \in GoPkgs : <<p, t>> # None /\ p # Library
<1>1. "" # Library /\ Library \notin GoPkgs /\ "" \notin GoPkgs
  BY GenerateAssumption
<1>2. QED BY <1>1 DEF None

\* The first place is one of them.
LEMMA FirstOfThem ==
  ASSUME GenerateTypeOK, NEW pkgs, NEW t, FirstOf(pkgs, t) # None
  PROVE  \E p \in pkgs : p \in GoPkgs /\ FirstOf(pkgs, t) = <<p, t>>
<1> DEFINE places == {i \in DOMAIN autoBind : autoBind[i] \in pkgs}
           first == CHOOSE i \in places : \A j \in places : i <= j
<1>1. autoBind \in Seq(GoPkgs)
  BY DEF GenerateTypeOK
<1>2. DOMAIN autoBind \subseteq Nat /\ \A i \in DOMAIN autoBind : autoBind[i] \in GoPkgs
  BY <1>1
<1>3. places # {} /\ FirstOf(pkgs, t) = <<autoBind[first], t>>
  BY DEF FirstOf
<1>4. \E i \in places : \A j \in places : i <= j
  <2>1. places \subseteq Nat
    BY <1>2
  <2> HIDE DEF places
  <2>2. QED BY <1>3, <2>1, Least
<1>5. first \in places
  BY <1>4
<1> HIDE DEF first
<1>6. QED BY <1>2, <1>3, <1>5

\* What the user has for a type is a Go type, and one that is declared unless the user
\* maps the type to it; a root type has none.
LEMMA OwnTypes ==
  ASSUME RunInv, NEW t \in Types, OwnType(t) # None
  PROVE  /\ OwnType(t) \in GoTypes /\ Kind[t] # "root"
         /\ OwnType(t) \notin declared => mapped[t] = OwnType(t)
<1>1. CASE mapped[t] # None
  BY <1>1 DEF OwnType, RunInv
<1>2. CASE mapped[t] = None
  <2> DEFINE pkgs == {p \in GoPkgs : <<p, t>> \in declared}
  <2>1. OwnType(t) = FirstOf(pkgs, t) /\ GenerateTypeOK
    BY <1>2 DEF OwnType, RunInv
  <2> HIDE DEF pkgs
  <2>2. PICK p \in pkgs : OwnType(t) = <<p, t>>
    BY <2>1, FirstOfThem
  <2>3. OwnType(t) \in declared /\ declared \subseteq GoTypes
    BY <2>1, <2>2 DEF GenerateTypeOK, pkgs
  <2>4. Kind[t] \in {"model", "scalar"}
    BY <2>2, <2>3 DEF GoTypes
  <2>5. QED BY <2>3, <2>4
<1>3. QED BY <1>1, <1>2

\* What a run does not change; the files it writes do not make a type the user's own.
LEMMA SameOwn ==
  ASSUME UNCHANGED <<mapped, declared, autoBind>>
  PROVE  \A t : OwnType(t)' = OwnType(t)
<1>1. \A pkgs, t : FirstOf(pkgs, t)' = FirstOf(pkgs, t)
  BY DEF FirstOf
<1>2. QED BY <1>1 DEF OwnType

LEMMA SameRun ==
  ASSUME UNCHANGED <<schema, mapped, declared, autoBind>>
  PROVE  /\ \A t : Settled(t)' = Settled(t) /\ Mistake(t)' = Mistake(t)
         /\ Unowned' = Unowned /\ Needed' = Needed
<1>1. \A t : OwnType(t)' = OwnType(t)
  BY SameOwn
<1>2. \A t : Settled(t)' = Settled(t)
  BY <1>1 DEF Settled
<1>3. \A t : Mistake(t)' = Mistake(t)
  BY <1>1 DEF Mistake
<1>4. QED BY <1>1, <1>2, <1>3 DEF Unowned, Needed

LEMMA UnboundTypes == Unbound \in Bindings
<1>1. QED BY DEF Unbound, Bindings

LEMMA RunInit == GenerateInit => RunInv
<1> SUFFICES ASSUME GenerateInit PROVE RunInv
  OBVIOUS
<1>1. autoBind \in Seq(GoPkgs)
  <2>1. PICK m \in 0..MaxBinds : autoBind \in [1..m -> GoPkgs]
    BY DEF GenerateInit, SeqOf
  <2>2. QED BY <2>1
<1>2. mapped = Unbound /\ execFile = Unbound /\ models = Unbound
  BY DEF GenerateInit
<1>3. GenerateTypeOK
  <2>1. changes \in 0..MaxChanges
    <3>1. MaxChanges \in Nat /\ changes = 0
      BY GenerateAssumption DEF GenerateInit
    <3>2. QED BY <3>1
  <2>2. /\ schema \subseteq Types /\ declared \subseteq GoTypes /\ modelFile \subseteq Types
        /\ step = "idle"
    BY DEF GenerateInit
  <2>3. {mapped, execFile, models} \subseteq Bindings
    BY <1>2, UnboundTypes
  <2>4. QED BY <1>1, <2>1, <2>2, <2>3 DEF GenerateTypeOK
<1>4. \A t \in Types : mapped[t] = None
  BY <1>2 DEF Unbound
<1>5. step = "idle"
  BY DEF GenerateInit
<1>6. QED BY <1>3, <1>4, <1>5 DEF RunInv, WithModels, WithTypes

LEMMA UnlinkKeeps == RunInv /\ Unlink => RunInv'
<1> SUFFICES ASSUME RunInv, Unlink PROVE RunInv'
  OBVIOUS
<1>1. /\ step' = "init" /\ modelFile' = {} /\ execFile' = Unbound /\ models' = Unbound
      /\ UNCHANGED <<schema, mapped, declared, autoBind, changes>>
  BY DEF Unlink, Unlinked
<1>2. GenerateTypeOK'
  BY <1>1, UnboundTypes DEF RunInv, GenerateTypeOK, Running
<1>3. QED BY <1>1, <1>2 DEF RunInv, WithModels, WithTypes

LEMMA BindKeeps == RunInv /\ Bind => RunInv'
<1> SUFFICES ASSUME RunInv, Bind PROVE RunInv'
  OBVIOUS
<1> DEFINE bound(t) ==
        CASE mapped[t] # None -> mapped[t]
          [] mapped[t] = None /\ t \in schema /\ Autobound(t) # None -> Autobound(t)
          [] OTHER -> IF Kind[t] = "builtin" THEN <<Library, t>> ELSE None
<1>1. /\ step = "init" /\ step' = "mutate" /\ modelFile = {}
      /\ UNCHANGED <<schema, mapped, declared, autoBind, modelFile, execFile, changes>>
      /\ models' = [t \in Types |-> bound(t)]
  BY DEF Bind, RunInv
<1>2. ASSUME NEW t \in Types
      PROVE  Autobound(t) = FirstOf({p \in GoPkgs : <<p, t>> \in declared}, t)
  <2>1. \A p \in GoPkgs : Found(<<p, t>>) <=> <<p, t>> \in declared
    BY <1>1, SomePackage DEF Found
  <2>2. {p \in GoPkgs : Found(<<p, t>>)} = {p \in GoPkgs : <<p, t>> \in declared}
    BY <2>1
  <2>3. QED BY <2>2 DEF Autobound
<1>3. schema \subseteq Types
  BY DEF RunInv, GenerateTypeOK
<1>4. ASSUME NEW t \in schema
      PROVE  bound(t) = IF OwnType(t) # None THEN OwnType(t)
                        ELSE IF Kind[t] = "builtin" THEN <<Library, t>> ELSE None
  BY <1>2, <1>3 DEF OwnType
<1>5. ASSUME NEW t \in Types
      PROVE  bound(t) \in GoTypes \cup ({Library} \X Types) \cup {None}
  <2>1. CASE mapped[t] # None
    BY <2>1 DEF RunInv
  <2>2. CASE mapped[t] = None /\ t \in schema /\ Autobound(t) # None
    <3>1. OwnType(t) = Autobound(t)
      BY <1>2, <2>2 DEF OwnType
    <3>2. OwnType(t) \in GoTypes
      BY <2>2, <3>1, OwnTypes
    <3>3. QED BY <2>2, <3>1, <3>2
  <2>3. CASE mapped[t] = None /\ ~(t \in schema /\ Autobound(t) # None)
    BY <2>3
  <2>4. QED BY <2>1, <2>2, <2>3
<1> HIDE DEF bound
<1>6. models' \in Bindings
  BY <1>1, <1>5 DEF Bindings
<1>7. GenerateTypeOK'
  BY <1>1, <1>6 DEF RunInv, GenerateTypeOK, Running
<1>8. \A t : OwnType(t)' = OwnType(t)
  BY <1>1, SameOwn
<1>9. \A t \in schema' :
         models'[t] = IF OwnType(t)' # None THEN OwnType(t)'
                      ELSE IF Kind[t] = "builtin" THEN <<Library, t>> ELSE None
  BY <1>1, <1>3, <1>4, <1>8
<1>10. QED BY <1>1, <1>7, <1>9 DEF RunInv, WithModels, WithTypes

LEMMA MutateKeeps == RunInv /\ MutateConfig => RunInv'
<1> SUFFICES ASSUME RunInv, MutateConfig PROVE RunInv'
  OBVIOUS
<1> DEFINE new == {t \in schema : ~UserDefined(t) /\ Kind[t] \in {"model", "scalar"}}
           objects == {t \in new : Kind[t] = "model"}
           needs == {f \in UNION {Refers[t] : t \in objects} : f \in schema /\ UserDefined(f)}
           bound(t) == CASE t \in objects -> <<ModelPkg, t>>
                         [] t \in new \ objects -> <<Library, t>>
                         [] OTHER -> models[t]
<1>1. /\ step = "mutate" /\ modelFile = {} /\ schema \subseteq Types /\ declared \subseteq GoTypes
      /\ \A t \in schema :
            models[t] = IF OwnType(t) # None THEN OwnType(t)
                        ELSE IF Kind[t] = "builtin" THEN <<Library, t>> ELSE None
      /\ UNCHANGED <<schema, mapped, declared, autoBind, execFile, changes>>
  BY DEF MutateConfig, RunInv, GenerateTypeOK
<1>2. \A t : OwnType(t)' = OwnType(t) /\ Settled(t)' = Settled(t) /\ Mistake(t)' = Mistake(t)
  BY <1>1, SameOwn, SameRun
<1>3. CASE \E f \in needs : ~Found(models[f])
  <2>1. step' = "refused" /\ UNCHANGED <<modelFile, models>>
    BY <1>3 DEF MutateConfig
  <2>2. PICK f \in needs : ~Found(models[f])
    BY <1>3
  <2>3. f \in schema /\ models[f] # None /\ models[f] \notin declared /\ models[f][1] # Library
    BY <2>2 DEF UserDefined, Found
  <2>4. OwnType(f) # None /\ models[f] = OwnType(f)
    <3>1. models[f] = IF OwnType(f) # None THEN OwnType(f)
                      ELSE IF Kind[f] = "builtin" THEN <<Library, f>> ELSE None
      BY <1>1, <2>3
    <3>2. models[f] # <<Library, f>>
      BY <2>3
    <3>3. QED BY <2>3, <3>1, <3>2
  <2>5. mapped[f] # None /\ mapped[f] \notin declared
    BY <1>1, <2>3, <2>4, OwnTypes
  <2>6. \E t \in schema' : Mistake(t)'
    BY <1>1, <1>2, <2>3, <2>5 DEF Mistake
  <2>7. GenerateTypeOK'
    BY <1>1, <2>1 DEF RunInv, GenerateTypeOK
  <2>8. QED BY <1>1, <2>1, <2>6, <2>7 DEF RunInv, WithModels, WithTypes
<1>4. CASE ~ \E f \in needs : ~Found(models[f])
  <2>1. /\ step' = "build" /\ modelFile' = (IF new = {} THEN modelFile ELSE objects)
        /\ models' = [t \in Types |-> bound(t)]
    BY <1>4 DEF MutateConfig
  <2>2. ASSUME NEW t \in schema
        PROVE  /\ t \in new <=> OwnType(t) = None /\ Kind[t] \in {"model", "scalar"}
               /\ t \in objects <=> OwnType(t) = None /\ Kind[t] = "model"
    BY <1>1, SomePackage DEF UserDefined
  <2>3. objects = Unowned /\ (new = {} => objects = {})
    BY <2>2 DEF Unowned
  <2>4. modelFile' = Unowned /\ modelFile' \subseteq Types
    BY <1>1, <2>1, <2>3
  <2>5. ASSUME NEW t \in schema PROVE bound(t) = Settled(t)
    <3>1. Kind[t] \in {"root", "builtin", "scalar", "model"}
      BY <1>1, GenerateAssumption
    <3>2. CASE OwnType(t) # None
      BY <1>1, <2>2, <3>2 DEF Settled
    <3>3. CASE OwnType(t) = None /\ Kind[t] = "model"
      BY <2>2, <3>3 DEF Settled
    <3>4. CASE OwnType(t) = None /\ Kind[t] = "scalar"
      BY <2>2, <3>4 DEF Settled
    <3>5. CASE OwnType(t) = None /\ Kind[t] \in {"root", "builtin"}
      <4>1. bound(t) = models[t]
        BY <2>2, <3>5
      <4>2. QED BY <1>1, <3>5, <4>1 DEF Settled
    <3>6. QED BY <3>1, <3>2, <3>3, <3>4, <3>5
  <2>6. ASSUME NEW t \in Types
        PROVE  bound(t) \in GoTypes \cup ({Library} \X Types) \cup {None}
    <3>1. CASE t \in objects
      <4>1. <<ModelPkg, t>> \in GoTypes /\ bound(t) = <<ModelPkg, t>>
        BY <3>1, GenerateAssumption DEF GoTypes
      <4>2. QED BY <4>1
    <3>2. CASE t \in new \ objects
      BY <3>2
    <3>3. CASE t \notin new
      <4>1. bound(t) = models[t]
        BY <3>3
      <4>2. models \in Bindings
        BY DEF RunInv, GenerateTypeOK
      <4>3. QED BY <4>1, <4>2 DEF Bindings
    <3>4. QED BY <3>1, <3>2, <3>3
  <2> HIDE DEF bound, new, objects, needs
  <2>7. models' \in Bindings
    BY <2>1, <2>6 DEF Bindings
  <2>8. GenerateTypeOK'
    BY <1>1, <2>1, <2>4, <2>7 DEF RunInv, GenerateTypeOK, Running
  <2>9. modelFile' = Unowned' /\ \A t \in schema' : models'[t] = Settled(t)'
    BY <1>1, <1>2, <2>1, <2>4, <2>5, SameRun
  <2>10. QED BY <1>1, <2>1, <2>8, <2>9 DEF RunInv, WithModels, WithTypes
<1>5. QED BY <1>3, <1>4

LEMMA BuildKeeps == RunInv /\ BuildData => RunInv'
<1> SUFFICES ASSUME RunInv, BuildData PROVE RunInv'
  OBVIOUS
<1> DEFINE allFound == \A t \in Needed : UserDefined(t) /\ Found(models[t])
<1>1. /\ step = "build" /\ step' = (IF allFound THEN "write" ELSE "refused")
      /\ UNCHANGED <<schema, mapped, declared, autoBind, modelFile, execFile, models, changes>>
      /\ modelFile = Unowned /\ \A t \in schema : models[t] = Settled(t)
      /\ schema \subseteq Types
  BY DEF BuildData, RunInv, GenerateTypeOK, WithModels
<1>2. /\ \A t : Settled(t)' = Settled(t) /\ Mistake(t)' = Mistake(t)
      /\ Unowned' = Unowned /\ Needed' = Needed
  BY <1>1, SameRun
<1>3. \A t : UserDefined(t)' = UserDefined(t) /\ Found(models[t])' = Found(models[t])
  BY <1>1 DEF UserDefined, Found
<1>4. modelFile' = Unowned' /\ \A t \in schema' : models'[t] = Settled(t)'
  BY <1>1, <1>2
<1>5. CASE allFound
  <2>1. step' = "write"
    BY <1>1, <1>5
  <2>2. GenerateTypeOK'
    BY <1>1, <2>1 DEF RunInv, GenerateTypeOK, Running
  <2>3. allFound'
    BY <1>2, <1>3, <1>5
  <2>4. QED BY <1>1, <1>4, <2>1, <2>2, <2>3 DEF RunInv, WithModels, WithTypes
<1>6. CASE ~allFound
  <2>1. step' = "refused"
    BY <1>1, <1>6
  <2>2. PICK t \in Needed : models[t] = None \/ ~Found(models[t])
    BY <1>6 DEF UserDefined
  <2>3. /\ t \in schema /\ t \in Types /\ models[t] = Settled(t)
        /\ Kind[t] # "model" => \E u \in schema : t \in Refers[u]
    BY <1>1, <2>2 DEF Needed
  <2>4. Mistake(t)
    <3>1. Kind[t] \in {"root", "builtin", "scalar", "model"}
      BY <2>3, GenerateAssumption
    <3>2. CASE OwnType(t) # None
      <4>1. OwnType(t) \notin declared
        BY <2>2, <2>3, <3>2 DEF Settled, Found
      <4>2. QED BY <2>3, <3>2, <4>1, OwnTypes DEF Mistake
    <3>3. CASE OwnType(t) = None /\ Kind[t] = "model"
      <4>1. t \in modelFile /\ models[t] = <<ModelPkg, t>>
        BY <1>1, <2>3, <3>3 DEF Settled, Unowned
      <4>2. ModelPkg \in GoPkgs
        BY GenerateAssumption
      <4>3. Found(<<ModelPkg, t>>)
        BY <4>1 DEF Found
      <4>4. QED BY <2>2, <4>1, <4>2, <4>3, SomePackage
    <3>4. CASE OwnType(t) = None /\ Kind[t] = "root"
      BY <2>3, <3>4 DEF Mistake
    <3>5. CASE OwnType(t) = None /\ Kind[t] \in {"builtin", "scalar"}
      <4>1. models[t] = <<Library, t>>
        BY <2>3, <3>5 DEF Settled
      <4>2. QED BY <2>2, <4>1, SomePackage DEF Found
    <3>6. QED BY <3>1, <3>2, <3>3, <3>4, <3>5
  <2>5. \E u \in schema' : Mistake(u)'
    BY <1>1, <1>2, <2>3, <2>4
  <2>6. GenerateTypeOK'
    BY <1>1, <2>1 DEF RunInv, GenerateTypeOK
  <2>7. QED BY <1>1, <2>1, <2>5, <2>6 DEF RunInv, WithModels, WithTypes
<1>7. QED BY <1>5, <1>6

LEMMA CodeKeeps == RunInv /\ GenerateCode => RunInv'
<1> SUFFICES ASSUME RunInv, GenerateCode PROVE RunInv'
  OBVIOUS
<1>1. /\ step = "write" /\ step' = "validate" /\ models \in Bindings
      /\ execFile' = [t \in Types |-> IF t \in Needed THEN models[t] ELSE None]
      /\ UNCHANGED <<schema, mapped, declared, autoBind, modelFile, models, changes>>
      /\ modelFile = Unowned /\ \A t \in schema : models[t] = Settled(t)
      /\ \A t \in Needed : UserDefined(t) /\ Found(models[t])
      /\ schema \subseteq Types
  BY DEF GenerateCode, RunInv, GenerateTypeOK, WithModels, WithTypes
<1>2. /\ \A t : Settled(t)' = Settled(t)
      /\ Unowned' = Unowned /\ Needed' = Needed
  BY <1>1, SameRun
<1>3. \A t : UserDefined(t)' = UserDefined(t) /\ Found(models[t])' = Found(models[t])
  BY <1>1 DEF UserDefined, Found
<1>4. modelFile' = Unowned' /\ \A t \in schema' : models'[t] = Settled(t)'
  BY <1>1, <1>2
<1>5. \A t \in Needed' : UserDefined(t)' /\ Found(models[t])'
  BY <1>1, <1>2, <1>3
<1>6. execFile' \in Bindings
  BY <1>1 DEF Bindings
<1>7. \A t \in Needed' : execFile'[t] = models'[t]
  BY <1>1, <1>2 DEF Needed
<1>8. GenerateTypeOK'
  BY <1>1, <1>6 DEF RunInv, GenerateTypeOK, Running
<1>9. QED BY <1>1, <1>4, <1>5, <1>7, <1>8 DEF RunInv, WithModels, WithTypes

LEMMA ValidateKeeps == RunInv /\ Validate => RunInv'
<1> SUFFICES ASSUME RunInv, Validate PROVE RunInv'
  OBVIOUS
<1> DEFINE clash == \E t \in modelFile : <<ModelPkg, t>> \in declared
<1>1. /\ step = "validate" /\ step' = (IF clash THEN "refused" ELSE "done")
      /\ UNCHANGED <<schema, mapped, declared, autoBind, modelFile, execFile, models, changes>>
      /\ modelFile = Unowned /\ \A t \in schema : models[t] = Settled(t)
      /\ \A t \in Needed : UserDefined(t) /\ Found(models[t])
      /\ \A t \in Needed : execFile[t] = models[t]
  BY DEF Validate, RunInv, WithModels, WithTypes
<1>2. /\ \A t : Settled(t)' = Settled(t) /\ Mistake(t)' = Mistake(t)
      /\ Unowned' = Unowned /\ Needed' = Needed
  BY <1>1, SameRun
<1>3. \A t : UserDefined(t)' = UserDefined(t) /\ Found(models[t])' = Found(models[t])
  BY <1>1 DEF UserDefined, Found
<1>4. CASE clash
  <2>1. step' = "refused"
    BY <1>1, <1>4
  <2>2. PICK t \in modelFile : <<ModelPkg, t>> \in declared
    BY <1>4
  <2>3. t \in schema /\ Mistake(t)
    BY <1>1, <2>2 DEF Unowned, Mistake
  <2>4. \E u \in schema' : Mistake(u)'
    BY <1>1, <1>2, <2>3
  <2>5. GenerateTypeOK'
    BY <1>1, <2>1 DEF RunInv, GenerateTypeOK
  <2>6. QED BY <1>1, <2>1, <2>4, <2>5 DEF RunInv, WithModels, WithTypes
<1>5. CASE ~clash
  <2>1. step' = "done"
    BY <1>1, <1>5
  <2>2. GenerateTypeOK'
    BY <1>1, <2>1 DEF RunInv, GenerateTypeOK
  <2>3. modelFile' = Unowned' /\ \A t \in schema' : models'[t] = Settled(t)'
    BY <1>1, <1>2
  <2>4. \A t \in Needed' : UserDefined(t)' /\ Found(models[t])'
    BY <1>1, <1>2, <1>3
  <2>5. \A t \in Needed' : execFile'[t] = models'[t]
    BY <1>1, <1>2
  <2>6. \A t \in modelFile' : <<ModelPkg, t>> \notin declared'
    BY <1>1, <1>5
  <2>7. QED BY <1>1, <2>1, <2>2, <2>3, <2>4, <2>5, <2>6 DEF RunInv, WithModels, WithTypes
<1>6. QED BY <1>4, <1>5

LEMMA AbortKeeps == RunInv /\ AbortRun => RunInv'
<1> SUFFICES ASSUME RunInv, AbortRun PROVE RunInv'
  OBVIOUS
<1>1. /\ step' = "aborted"
      /\ UNCHANGED <<schema, mapped, declared, autoBind, modelFile, execFile, models, changes>>
  BY DEF AbortRun
<1>2. GenerateTypeOK'
  BY <1>1 DEF RunInv, GenerateTypeOK
<1>3. QED BY <1>1, <1>2 DEF RunInv, WithModels, WithTypes

LEMMA ChangeKeeps == RunInv /\ Change => RunInv'
<1> SUFFICES ASSUME RunInv, Change PROVE RunInv'
  OBVIOUS
<1> DEFINE Mapping(t) == mapped[t] # None => mapped[t] \in GoTypes /\ Kind[t] # "root"
<1>1. /\ step' = "idle" /\ changes < MaxChanges /\ changes' = changes + 1
      /\ UNCHANGED <<autoBind, modelFile, execFile, models>>
  BY DEF Change
<1>2. /\ schema \subseteq Types /\ declared \subseteq GoTypes /\ mapped \in Bindings
      /\ autoBind \in Seq(GoPkgs) /\ modelFile \subseteq Types
      /\ execFile \in Bindings /\ models \in Bindings /\ changes \in 0..MaxChanges
      /\ \A t \in Types : Mapping(t)
  BY DEF RunInv, GenerateTypeOK
<1>3. changes' \in 0..MaxChanges
  <2>1. MaxChanges \in Nat
    BY GenerateAssumption
  <2>2. changes < MaxChanges /\ changes' = changes + 1 /\ changes \in 0..MaxChanges
    BY <1>1, <1>2
  <2>3. QED BY ONLY <2>1, <2>2
<1>4. schema' \subseteq Types /\ declared' \subseteq GoTypes /\ mapped' \in Bindings /\ \A t \in Types : Mapping(t)'
  <2>1. CASE /\ \E go \in GoTypes : declared' = IF go \in declared THEN declared \ {go} ELSE declared \cup {go}
             /\ UNCHANGED <<schema, mapped>>
    BY <1>2, <2>1
  <2>2. CASE /\ \E t \in {t \in Types : Kind[t] \in {"model", "scalar"}} :
                   schema' = IF t \in schema THEN schema \ {t} ELSE schema \cup {t}
             /\ UNCHANGED <<declared, mapped>>
    BY <1>2, <2>2
  <2>3. CASE /\ \E t \in {t \in Types : Kind[t] # "root"}, go \in GoTypes \cup {None} :
                   mapped' = [mapped EXCEPT ![t] = go]
             /\ UNCHANGED <<declared, schema>>
    <3>1. PICK t \in {t \in Types : Kind[t] # "root"}, go \in GoTypes \cup {None} :
                  mapped' = [mapped EXCEPT ![t] = go]
      BY <2>3
    <3>2. mapped' \in Bindings /\ mapped'[t] = go /\ \A u \in Types : u # t => mapped'[u] = mapped[u]
      BY <1>2, <3>1 DEF Bindings
    <3>3. QED BY <1>2, <2>3, <3>1, <3>2
  <2>4. QED BY <2>1, <2>2, <2>3 DEF Change
<1>5. GenerateTypeOK'
  BY <1>1, <1>2, <1>3, <1>4 DEF GenerateTypeOK
<1>6. QED BY <1>1, <1>4, <1>5 DEF RunInv, WithModels, WithTypes

LEMMA RunNext == RunInv /\ [GenerateNext]_generateVars => RunInv'
<1> SUFFICES ASSUME RunInv, [GenerateNext]_generateVars PROVE RunInv'
  OBVIOUS
<1>1. CASE UNCHANGED generateVars
  <2>1. UNCHANGED <<schema, mapped, declared, autoBind, modelFile, execFile, step, models, changes>>
    BY <1>1 DEF generateVars
  <2>2. /\ \A t : OwnType(t)' = OwnType(t) /\ Settled(t)' = Settled(t) /\ Mistake(t)' = Mistake(t)
        /\ Unowned' = Unowned /\ Needed' = Needed
    BY <2>1, SameOwn, SameRun
  <2>3. \A t : UserDefined(t)' = UserDefined(t) /\ Found(models[t])' = Found(models[t])
    BY <2>1 DEF UserDefined, Found
  <2>4. GenerateTypeOK'
    BY <2>1 DEF RunInv, GenerateTypeOK
  <2>5. QED BY <2>1, <2>2, <2>3, <2>4 DEF RunInv
<1>2. QED BY <1>1, UnlinkKeeps, BindKeeps, MutateKeeps, BuildKeeps, CodeKeeps, ValidateKeeps,
            AbortKeeps, ChangeKeeps DEF GenerateNext

LEMMA RunHolds == GenerateSpec => []RunInv
<1>1. QED BY RunInit, RunNext, PTL DEF GenerateSpec

\* Every model that a run binds is a Go type of the user, one of the library or none,
\* wherever the run stops (config.go:175-243, models.go:74-224).
THEOREM GenerateTypeCorrect == GenerateSpec => []GenerateTypeOK
<1>1. RunInv => GenerateTypeOK
  BY DEF RunInv
<1>2. QED BY <1>1, RunHolds, PTL

\* For any schema, packages and number of changes, a run that succeeds has generated
\* and bound what it would from nothing, and one that is refused has found a mistake of
\* the user's (api/generate.go:15-101, config.go:500-545, models.go:74-224).
THEOREM RunsAreAlwaysFresh == GenerateSpec => []RunsAreFresh
<1>1. ASSUME RunInv PROVE RunsAreFresh
  <2>1. CASE step = "done"
    <3>1. /\ modelFile = Unowned /\ schema \subseteq Types
          /\ \A t \in schema : models[t] = Settled(t)
          /\ \A t \in Needed : models[t] # None /\ Found(models[t]) /\ execFile[t] = models[t]
          /\ \A t \in modelFile : <<ModelPkg, t>> \notin declared
      BY <1>1, <2>1 DEF RunInv, GenerateTypeOK, WithModels, WithTypes, UserDefined
    <3>2. ASSUME NEW t \in Needed
          PROVE  /\ execFile[t] = IF OwnType(t) # None THEN OwnType(t)
                                  ELSE IF Kind[t] = "model" THEN <<ModelPkg, t>> ELSE <<Library, t>>
                 /\ execFile[t][1] # Library =>
                       (execFile[t] \in declared)
                          # (execFile[t][1] = ModelPkg /\ execFile[t][2] \in modelFile)
      <4> DEFINE go == execFile[t]
      <4>1. t \in schema /\ t \in Types /\ go = Settled(t) /\ go # None /\ Found(go)
        BY <3>1 DEF Needed
      <4>2. go = IF OwnType(t) # None THEN OwnType(t)
                 ELSE IF Kind[t] = "model" THEN <<ModelPkg, t>> ELSE <<Library, t>>
        BY <4>1 DEF Settled
      <4>3. go \in GoTypes \/ go[1] = Library \/ go = <<ModelPkg, t>>
        BY <1>1, <4>1, <4>2, OwnTypes
      <4> HIDE DEF go
      <4>4. ASSUME go[1] # Library
            PROVE  (go \in declared) # (go[1] = ModelPkg /\ go[2] \in modelFile)
        <5>1. go = <<go[1], go[2]>>
          BY <4>3, <4>4 DEF GoTypes
        <5>2. go \in declared \/ (go[1] = ModelPkg /\ go[2] \in modelFile)
          BY <4>1, <4>4 DEF Found
        <5>3. ~(go \in declared /\ go[1] = ModelPkg /\ go[2] \in modelFile)
          BY <3>1, <5>1
        <5>4. QED BY <5>2, <5>3
      <4>5. QED BY <4>2, <4>4 DEF go
    <3>3. QED BY <2>1, <3>1, <3>2 DEF RunsAreFresh, Unowned
  <2>2. CASE step = "refused"
    BY <1>1, <2>2 DEF RunInv, RunsAreFresh, Mistake
  <2>3. CASE step \notin {"done", "refused"}
    BY <2>3 DEF RunsAreFresh
  <2>4. QED BY <2>1, <2>2, <2>3
<1>2. QED BY <1>1, RunHolds, PTL

---------------------------------------------------------------------------
(* Lemmas about parts of sequences *)

LEMMA Ranks ==
  ASSUME NEW n \in Nat, NEW places, places \subseteq 1..n
  PROVE  /\ IsFiniteSet(places) /\ Cardinality(places) \in Nat
         /\ \A i \in places : Rank(places, i) \in 1..Cardinality(places)
<1>1. IsFiniteSet(places) /\ Cardinality(places) \in Nat
  <2>1. IsFiniteSet(1..n)
    BY FS_Interval
  <2>2. QED BY <2>1, FS_Subset, FS_CardinalityType
<1>2. ASSUME NEW i \in places PROVE Rank(places, i) \in 1..Cardinality(places)
  <2> DEFINE low == {j \in places : j <= i}
  <2>1. low \subseteq places /\ i \in low
    OBVIOUS
  <2>2. IsFiniteSet(low) /\ Cardinality(low) \in Nat /\ Cardinality(low) <= Cardinality(places)
    BY <1>1, <2>1, FS_Subset, FS_CardinalityType
  <2>3. Cardinality(low) # 0
    BY <2>1, <2>2, FS_EmptySet
  <2>4. QED BY <1>1, <2>2, <2>3 DEF Rank
<1>3. QED BY <1>1, <1>2

\* Each place has a rank of its own, and each rank a place: what is counted is finite.
LEMMA RanksAreAll ==
  ASSUME NEW n \in Nat, NEW places, places \subseteq 1..n
  PROVE  /\ \A i, j \in places : Rank(places, i) = Rank(places, j) => i = j
         /\ \A m \in 1..Cardinality(places) : \E i \in places : Rank(places, i) = m
<1> DEFINE low(i) == {j \in places : j <= i}
           ranks == [i \in places |-> Rank(places, i)]
           size == Cardinality(places)
<1>1. /\ IsFiniteSet(places) /\ size \in Nat /\ places \subseteq Nat
      /\ \A i \in places : Rank(places, i) \in 1..size
  <2>1. places \subseteq Nat
    OBVIOUS
  <2>2. QED BY <2>1, Ranks
<1>2. ASSUME NEW i \in places, NEW j \in places, Rank(places, i) = Rank(places, j), i <= j
      PROVE  i = j
  <2>1. low(i) \subseteq low(j) /\ low(j) \subseteq places /\ j \in low(j)
    <3>1. \A x \in places : (x <= i => x <= j) /\ x <= x
      BY <1>1, <1>2
    <3>2. QED BY <3>1
  <2>2. IsFiniteSet(low(j)) /\ Cardinality(low(i)) = Cardinality(low(j))
    BY <1>1, <1>2, <2>1, FS_Subset DEF Rank
  <2>3. low(i) = low(j)
    <3> HIDE DEF low
    <3>1. QED BY <2>1, <2>2, FS_Subset
  <2>4. j <= i
    BY <2>1, <2>3
  <2>5. QED BY <1>1, <1>2, <2>4
<1>3. ASSUME NEW i \in places, NEW j \in places, Rank(places, i) = Rank(places, j)
      PROVE  i = j
  <2>1. i <= j \/ j <= i
    BY <1>1
  <2>2. QED BY <1>2, <1>3, <2>1
<1>4. ranks \in [places -> 1..size] /\ \A i \in places : ranks[i] = Rank(places, i)
  BY <1>1
<1>5. ranks \in Injection(places, 1..size)
  BY <1>3, <1>4 DEF Injection, IsInjective
<1>6. IsFiniteSet(1..size) /\ Cardinality(1..size) = size
  BY <1>1, FS_Interval
<1> HIDE DEF ranks, size
<1>7. ranks \in Surjection(places, 1..size)
  BY <1>5, <1>6, FS_Injection DEF size
<1>8. \A m \in 1..size : \E i \in places : ranks[i] = m
  BY <1>7 DEF Surjection
<1>9. QED BY <1>3, <1>4, <1>8 DEF size

LEMMA SublistIs ==
  ASSUME NEW S, NEW whole \in Seq(S), NEW places, places \subseteq DOMAIN whole
  PROVE  /\ Sublist(whole, places) \in Seq(S)
         /\ \A i \in places : /\ Rank(places, i) \in DOMAIN Sublist(whole, places)
                              /\ Sublist(whole, places)[Rank(places, i)] = whole[i]
         /\ \A m \in DOMAIN Sublist(whole, places) :
               \E i \in places : m = Rank(places, i) /\ Sublist(whole, places)[m] = whole[i]
         /\ \A i, j \in places : Rank(places, i) = Rank(places, j) => i = j
<1> DEFINE part == Sublist(whole, places)
           size == Cardinality(places)
           at(m) == CHOOSE i \in places : Rank(places, i) = m
<1>1. /\ Len(whole) \in Nat /\ places \subseteq 1..Len(whole)
      /\ \A i \in places : whole[i] \in S
  OBVIOUS
<1>2. /\ size \in Nat /\ \A i \in places : Rank(places, i) \in 1..size
      /\ \A i, j \in places : Rank(places, i) = Rank(places, j) => i = j
      /\ \A m \in 1..size : \E i \in places : Rank(places, i) = m
  BY <1>1, Ranks, RanksAreAll
<1>3. DOMAIN part = 1..size /\ \A m \in 1..size : part[m] = whole[at(m)]
  BY DEF Sublist
<1>4. ASSUME NEW m \in 1..size PROVE at(m) \in places /\ Rank(places, at(m)) = m
  BY <1>2
<1> HIDE DEF at, size
<1>5. \A m \in 1..size : part[m] \in S
  BY <1>1, <1>3, <1>4
<1>6. part \in [1..size -> S]
  <2>1. part = [m \in 1..size |-> part[m]]
    BY DEF Sublist, size
  <2> HIDE DEF part
  <2>2. QED BY <1>5, <2>1
<1> HIDE DEF part
<1>7. part \in Seq(S)
  BY <1>2, <1>6
<1>8. \A i \in places : part[Rank(places, i)] = whole[i]
  BY <1>2, <1>3, <1>4
<1>9. \A m \in DOMAIN part : \E i \in places : m = Rank(places, i) /\ part[m] = whole[i]
  BY <1>3, <1>4
<1>10. QED BY <1>2, <1>3, <1>7, <1>8, <1>9 DEF part

\* All that comes after the front is the rest.
LEMMA SublistOfRest ==
  ASSUME NEW S, NEW whole \in Seq(S), NEW k \in 0..Len(whole)
  PROVE  Sublist(whole, k + 1..Len(whole)) = SubSeq(whole, k + 1, Len(whole))
<1> DEFINE n == Len(whole)
           places == k + 1..n
           part == Sublist(whole, places)
           rest == SubSeq(whole, k + 1, n)
<1>1. n \in Nat /\ k \in Nat /\ k <= n /\ places \subseteq 1..n /\ DOMAIN whole = 1..n
  OBVIOUS
<1>2. Cardinality(places) = n - k
  <2>1. k + 1 \in Int /\ n \in Int
    BY <1>1
  <2>2. Cardinality(k + 1..n) = IF k + 1 > n THEN 0 ELSE n - (k + 1) + 1
    BY <2>1, FS_Interval
  <2> HIDE DEF n
  <2>3. QED BY <1>1, <2>2
<1>3. ASSUME NEW m \in 1..n - k PROVE k + m \in places /\ Rank(places, k + m) = m
  <2>1. k + m \in places /\ {j \in places : j <= k + m} = k + 1..k + m
    BY <1>1
  <2>2. Cardinality(k + 1..k + m) = m
    BY <1>1, FS_Interval
  <2>3. QED BY <2>1, <2>2 DEF Rank
<1>4. DOMAIN rest = 1..n - k /\ \A m \in 1..n - k : rest[m] = whole[k + m]
  BY <1>1
<1>5. DOMAIN part = 1..n - k
  BY <1>2 DEF Sublist
<1>6. \A i \in places : part[Rank(places, i)] = whole[i]
  BY <1>1, SublistIs
<1>7. part \in Seq(S) /\ rest \in Seq(S)
  BY <1>1, SublistIs
<1> HIDE DEF places, part, rest, n
<1>8. ASSUME NEW m \in 1..n - k PROVE part[m] = rest[m]
  <2>1. k + m \in places /\ Rank(places, k + m) = m
    BY <1>3
  <2>2. part[Rank(places, k + m)] = whole[k + m]
    BY <1>6, <2>1
  <2>3. QED BY <1>4, <2>1, <2>2
<1>9. DOMAIN part = DOMAIN rest
  BY <1>4, <1>5
<1>10. part = rest
  <2>1. /\ part = [m \in DOMAIN part |-> part[m]]
        /\ rest = [m \in DOMAIN rest |-> rest[m]]
    BY <1>7
  <2>2. QED BY <1>4, <1>5, <1>8, <2>1
<1>11. QED BY <1>10 DEF part, rest, places, n

LEMMA Joined ==
  ASSUME NEW S, NEW front \in Seq(S), NEW rest \in Seq(S)
  PROVE  /\ front \o rest \in Seq(S)
         /\ \A i \in DOMAIN front : i \in DOMAIN (front \o rest) /\ (front \o rest)[i] = front[i]
         /\ \A i \in DOMAIN rest : /\ Len(front) + i \in DOMAIN (front \o rest)
                                   /\ (front \o rest)[Len(front) + i] = rest[i]
         /\ \A i \in DOMAIN (front \o rest) :
               \/ i \in DOMAIN front
               \/ i > Len(front) /\ i - Len(front) \in DOMAIN rest
<1>1. QED OBVIOUS

---------------------------------------------------------------------------
(* The resolver files *)

FieldsOf(file) == Sublist(Fields, {i \in DOMAIN Fields : home[Fields[i]] = file})

ObjectOf(file) ==
    IF file = base THEN <<[name |-> "accessor", body |-> 0], [name |-> "type", body |-> 0]>> ELSE <<>>

\* What the template makes of a file when its fields have these bodies.
Listed(file, bodies) ==
    [n \in DOMAIN FieldsOf(file) |-> [name |-> FieldsOf(file)[n], body |-> bodies[FieldsOf(file)[n]]]]
        \o ObjectOf(file)

LEMMA FieldsOfAre ==
  ASSUME ResolversTypeOK, NEW file
  PROVE  /\ FieldsOf(file) \in Seq(FieldSet)
         /\ \A n \in DOMAIN FieldsOf(file) : home[FieldsOf(file)[n]] = file
         /\ \A f \in FieldSet : home[f] = file => \E n \in DOMAIN FieldsOf(file) : FieldsOf(file)[n] = f
         /\ \A m, n \in DOMAIN FieldsOf(file) : FieldsOf(file)[m] = FieldsOf(file)[n] => m = n
<1> DEFINE places == {i \in DOMAIN Fields : home[Fields[i]] = file}
           part == Sublist(Fields, places)
<1>1. /\ Fields \in Seq(FieldSet) /\ \A i, j \in DOMAIN Fields : Fields[i] = Fields[j] => i = j
      /\ \A f \in FieldSet : \E i \in DOMAIN Fields : Fields[i] = f
  BY ResolversAssumption DEF IsInjective, FieldSet, Range
<1>2. places \subseteq DOMAIN Fields /\ \A i \in places : home[Fields[i]] = file
  OBVIOUS
<1>3. \A f \in FieldSet : home[f] = file => \E i \in places : Fields[i] = f
  BY <1>1
<1> HIDE DEF places
<1>4. /\ part \in Seq(FieldSet)
      /\ \A i \in places : Rank(places, i) \in DOMAIN part /\ part[Rank(places, i)] = Fields[i]
      /\ \A m \in DOMAIN part : \E i \in places : m = Rank(places, i) /\ part[m] = Fields[i]
  BY <1>1, <1>2, SublistIs
<1> HIDE DEF part
<1>5. \A n \in DOMAIN part : home[part[n]] = file
  BY <1>2, <1>4
<1>6. \A f \in FieldSet : home[f] = file => \E n \in DOMAIN part : part[n] = f
  BY <1>3, <1>4
<1>7. ASSUME NEW m \in DOMAIN part, NEW n \in DOMAIN part, part[m] = part[n] PROVE m = n
  <2>1. PICK i \in places : m = Rank(places, i) /\ part[m] = Fields[i]
    BY <1>4
  <2>2. PICK j \in places : n = Rank(places, j) /\ part[n] = Fields[j]
    BY <1>4
  <2>3. i = j
    BY <1>1, <1>2, <1>7, <2>1, <2>2
  <2>4. QED BY <2>1, <2>2, <2>3
<1>8. QED BY <1>4, <1>5, <1>6, <1>7 DEF FieldsOf, part, places

\* A file has the fields whose home it is, with their bodies, and in that of the object
\* also the accessor and the type; each of them once.
LEMMA ListedIs ==
  ASSUME ResolversTypeOK, NEW file \in FileSet, NEW bodies \in [FieldSet -> 0..MaxEdits],
         NEW list, list = Listed(file, bodies)
  PROVE  /\ list \in Seq(Decl)
         /\ \A k \in DOMAIN list :
               \/ list[k].name \in InSchema /\ home[list[k].name] = file /\ list[k].body = bodies[list[k].name]
               \/ file = base /\ list[k].name \in Object /\ list[k].body = 0
         /\ \A f \in FieldSet : home[f] = file => \E k \in DOMAIN list : list[k].name = f /\ list[k].body = bodies[f]
         /\ file = base => \A n \in Object : \E k \in DOMAIN list : list[k].name = n
         /\ \A k, m \in DOMAIN list : list[k].name = list[m].name => k = m
<1> DEFINE fields == FieldsOf(file)
           front == [n \in DOMAIN fields |-> [name |-> fields[n], body |-> bodies[fields[n]]]]
           rest == ObjectOf(file)
<1>1. /\ fields \in Seq(FieldSet)
      /\ \A n \in DOMAIN fields : fields[n] \in FieldSet /\ home[fields[n]] = file
      /\ \A f \in FieldSet : home[f] = file => \E n \in DOMAIN fields : fields[n] = f
      /\ \A m, n \in DOMAIN fields : fields[m] = fields[n] => m = n
  BY FieldsOfAre
<1>2. 0 \in 0..MaxEdits /\ FieldSet \cap (Object \cup {"helper"}) = {} /\ file # Absent
  BY ResolversAssumption DEF FieldSet, Object, FileSet
<1> HIDE DEF fields
<1>3. /\ DOMAIN front = DOMAIN fields
      /\ \A n \in DOMAIN fields : /\ front[n].name = fields[n] /\ front[n].body = bodies[fields[n]]
                                  /\ front[n] \in Decl
  BY <1>1 DEF Decl
<1>4. front \in Seq(Decl)
  <2>1. DOMAIN fields = 1..Len(fields) /\ Len(fields) \in Nat
    BY <1>1
  <2>2. front \in [1..Len(fields) -> Decl]
    BY <1>3, <2>1
  <2>3. QED BY <2>1, <2>2
<1> HIDE DEF front
<1>5. /\ rest \in Seq(Decl)
      /\ \A k \in DOMAIN rest : file = base /\ rest[k].name \in Object /\ rest[k].body = 0
      /\ file = base => \A n \in Object : \E k \in DOMAIN rest : rest[k].name = n
      /\ \A k, m \in DOMAIN rest : rest[k].name = rest[m].name => k = m
  <2>1. CASE file = base
    <3>1. /\ [name |-> "accessor", body |-> 0] \in Decl /\ [name |-> "type", body |-> 0] \in Decl
          /\ "accessor" \in Object /\ "type" \in Object /\ \A n \in Object : n = "accessor" \/ n = "type"
      BY <1>2 DEF Decl, Object
    <3>2. rest = <<[name |-> "accessor", body |-> 0], [name |-> "type", body |-> 0]>>
      BY <2>1 DEF ObjectOf
    <3>3. /\ rest \in Seq(Decl) /\ DOMAIN rest = {1, 2}
          /\ rest[1].name = "accessor" /\ rest[2].name = "type" /\ rest[1].body = 0 /\ rest[2].body = 0
      BY <3>1, <3>2
    <3> HIDE DEF rest
    <3>4. QED BY <2>1, <3>1, <3>3
  <2>2. CASE file # base
    <3>1. rest = <<>>
      BY <2>2 DEF ObjectOf
    <3>2. <<>> \in Seq(Decl) /\ DOMAIN <<>> = {}
      OBVIOUS
    <3> HIDE DEF rest
    <3>3. rest \in Seq(Decl) /\ DOMAIN rest = {}
      BY <3>1, <3>2
    <3>4. QED BY <2>2, <3>3
  <2>3. QED BY <2>1, <2>2
<1>6. list = front \o rest
  BY DEF Listed, front, rest, fields
<1> HIDE DEF rest
<1>7. /\ list \in Seq(Decl)
      /\ \A i \in DOMAIN front : i \in DOMAIN list /\ list[i] = front[i]
      /\ \A i \in DOMAIN rest : Len(front) + i \in DOMAIN list /\ list[Len(front) + i] = rest[i]
      /\ \A i \in DOMAIN list : i \in DOMAIN front \/ (i > Len(front) /\ i - Len(front) \in DOMAIN rest)
  BY <1>4, <1>5, <1>6, Joined
<1>8. ASSUME NEW k \in DOMAIN list, k \notin DOMAIN front
      PROVE  /\ k - Len(front) \in DOMAIN rest /\ list[k] = rest[k - Len(front)]
             /\ list[k].name \in Object
  <2>1. k \in Nat /\ Len(front) \in Nat
    BY <1>4, <1>7
  <2>2. k - Len(front) \in DOMAIN rest
    BY <1>7, <1>8
  <2>3. Len(front) + (k - Len(front)) = k
    BY <2>1
  <2>4. list[Len(front) + (k - Len(front))] = rest[k - Len(front)]
    BY <1>7, <2>2
  <2>5. QED BY <1>5, <2>2, <2>3, <2>4
<1>9. ASSUME NEW k \in DOMAIN front
      PROVE  /\ list[k] = front[k] /\ list[k].name = fields[k] /\ list[k].name \in FieldSet
             /\ list[k].name \in InSchema /\ home[list[k].name] = file
             /\ list[k].body = bodies[list[k].name]
  BY <1>1, <1>2, <1>3, <1>7 DEF InSchema
<1>10. ASSUME NEW k \in DOMAIN list
       PROVE  \/ list[k].name \in InSchema /\ home[list[k].name] = file /\ list[k].body = bodies[list[k].name]
              \/ file = base /\ list[k].name \in Object /\ list[k].body = 0
  <2>1. CASE k \in DOMAIN front
    BY <1>9, <2>1
  <2>2. CASE k \notin DOMAIN front
    BY <1>5, <1>8, <2>2
  <2>3. QED BY <2>1, <2>2
<1>11. ASSUME NEW f \in FieldSet, home[f] = file
       PROVE  \E k \in DOMAIN list : list[k].name = f /\ list[k].body = bodies[f]
  <2>1. PICK n \in DOMAIN fields : fields[n] = f
    BY <1>1, <1>11
  <2>2. n \in DOMAIN front /\ n \in DOMAIN list
    BY <1>3, <1>7
  <2>3. QED BY <1>9, <2>1, <2>2
<1>12. ASSUME file = base, NEW n \in Object PROVE \E k \in DOMAIN list : list[k].name = n
  BY <1>5, <1>7, <1>12
<1>13. ASSUME NEW k \in DOMAIN list, NEW m \in DOMAIN list, list[k].name = list[m].name
       PROVE  k = m
  <2>1. CASE k \in DOMAIN front /\ m \in DOMAIN front
    BY <1>1, <1>3, <1>9, <1>13, <2>1
  <2>2. CASE k \in DOMAIN front /\ m \notin DOMAIN front
    BY <1>2, <1>8, <1>9, <1>13, <2>2
  <2>3. CASE k \notin DOMAIN front /\ m \in DOMAIN front
    BY <1>2, <1>8, <1>9, <1>13, <2>3
  <2>4. CASE k \notin DOMAIN front /\ m \notin DOMAIN front
    <3>1. k - Len(front) = m - Len(front)
      BY <1>5, <1>8, <1>13, <2>4
    <3>2. k \in Nat /\ m \in Nat /\ Len(front) \in Nat
      BY <1>4, <1>7
    <3>3. QED BY <3>1, <3>2
  <2>5. QED BY <2>1, <2>2, <2>3, <2>4
<1>14. QED BY <1>7, <1>10, <1>11, <1>12, <1>13

LEMMA PlacesAre ==
  ASSUME NEW name
  PROVE  /\ \A p \in Places(name) : /\ p = <<p[1], p[2]>> /\ p[1] \in DOMAIN Files
                                    /\ p[2] \in DOMAIN code[Files[p[1]]]
                                    /\ code[Files[p[1]]][p[2]].name = name
         /\ \A i \in DOMAIN Files : \A k \in DOMAIN code[Files[i]] :
               code[Files[i]][k].name = name => <<i, k>> \in Places(name)
<1> DEFINE at(i) == {k \in DOMAIN code[Files[i]] : code[Files[i]][k].name = name}
<1>1. Places(name) = UNION {{i} \X at(i) : i \in DOMAIN Files}
  BY DEF Places
<1> HIDE DEF at
<1>2. ASSUME NEW p \in Places(name)
      PROVE  p = <<p[1], p[2]>> /\ p[1] \in DOMAIN Files /\ p[2] \in at(p[1])
  <2>1. PICK i \in DOMAIN Files : p \in {i} \X at(i)
    BY <1>1
  <2>2. QED BY <2>1
<1>3. ASSUME NEW i \in DOMAIN Files, NEW k \in at(i) PROVE <<i, k>> \in Places(name)
  <2>1. <<i, k>> \in {i} \X at(i)
    OBVIOUS
  <2>2. QED BY <1>1, <2>1
<1>4. QED BY <1>2, <1>3 DEF at

\* Of several places one is the first.
LEMMA FirstIs ==
  ASSUME ResolversTypeOK, NEW name, Places(name) # {}
  PROVE  FirstPlace(name) \in Places(name)
<1> DEFINE rows == {p[1] : p \in Places(name)}
<1>1. ASSUME NEW p \in Places(name) PROVE p = <<p[1], p[2]>> /\ p[1] \in Nat /\ p[2] \in Nat
  <2>1. p = <<p[1], p[2]>> /\ p[1] \in DOMAIN Files /\ p[2] \in DOMAIN code[Files[p[1]]]
    BY PlacesAre
  <2>2. Files[p[1]] \in FileSet
    BY <2>1 DEF FileSet, Range
  <2>3. code[Files[p[1]]] \in Seq(Decl) /\ Files \in Seq(Range(Files))
    BY <2>2, ResolversAssumption DEF ResolversTypeOK
  <2>4. QED BY <2>1, <2>3
<1>2. PICK i \in rows : \A j \in rows : i <= j
  <2>1. rows \subseteq Nat /\ rows # {}
    BY <1>1
  <2> HIDE DEF rows
  <2>2. QED BY <2>1, Least
<1> DEFINE columns == {p[2] : p \in {p \in Places(name) : p[1] = i}}
<1>3. PICK k \in columns : \A m \in columns : k <= m
  <2>1. columns \subseteq Nat /\ columns # {}
    BY <1>1, <1>2
  <2> HIDE DEF columns
  <2>2. QED BY <2>1, Least
<1>4. PICK p \in Places(name) : p[1] = i /\ p[2] = k
  BY <1>3
<1>5. ASSUME NEW q \in Places(name) PROVE p[1] < q[1] \/ (p[1] = q[1] /\ p[2] <= q[2])
  <2>1. q[1] \in rows /\ p[1] <= q[1] /\ (q[1] = i => q[2] \in columns)
    BY <1>2, <1>4
  <2>2. p[1] \in Nat /\ q[1] \in Nat
    BY <1>1
  <2> HIDE DEF rows, columns
  <2>3. QED BY <1>3, <1>4, <2>1, <2>2
<1>6. \E first \in Places(name) : \A q \in Places(name) :
         first[1] < q[1] \/ (first[1] = q[1] /\ first[2] <= q[2])
  BY <1>5
<1>7. QED BY <1>6 DEF FirstPlace

LEMMA ImplementationIs ==
  ASSUME ResolversTypeOK
  PROVE  \A f : Implementation(f) \in 0..MaxEdits
<1> SUFFICES ASSUME NEW f PROVE Implementation(f) \in 0..MaxEdits
  OBVIOUS
<1>1. CASE Places(f) = {}
  <2>1. MaxEdits \in Nat
    BY ResolversAssumption
  <2>2. QED BY <1>1, <2>1 DEF Implementation, NotImplemented
<1>2. CASE Places(f) # {}
  <2> DEFINE p == FirstPlace(f)
  <2>1. p[1] \in DOMAIN Files /\ p[2] \in DOMAIN code[Files[p[1]]]
    BY <1>2, FirstIs, PlacesAre
  <2>2. Implementation(f) = code[Files[p[1]]][p[2]].body
    BY <1>2 DEF Implementation
  <2> HIDE DEF p
  <2>3. Files[p[1]] \in FileSet
    BY <2>1 DEF FileSet, Range
  <2>4. code[Files[p[1]]][p[2]] \in Decl
    BY <2>1, <2>3 DEF ResolversTypeOK
  <2>5. QED BY <2>2, <2>4 DEF Decl
<1>3. QED BY <1>1, <1>2

Implementations == [f \in FieldSet |-> Implementation(f)]

Keeps(file) == {k \in DOMAIN code[file] : \A p \in Copied : Files[p[1]] = file => p[2] # k}

LEMMA PlannedIs ==
  ASSUME ResolversTypeOK, NEW file \in FileSet
  PROVE  /\ Implementations \in [FieldSet -> 0..MaxEdits]
         /\ Generated(file) = Listed(file, Implementations) /\ Generated(file) \in Seq(Decl)
         /\ RemainingSource(file) \in Seq(Decl) /\ Keeps(file) \subseteq DOMAIN code[file]
         /\ RemainingSource(file) = Sublist(code[file], Keeps(file))
         /\ Planned(file) = Generated(file) \o RemainingSource(file)
<1>1. Implementations \in [FieldSet -> 0..MaxEdits]
  BY ImplementationIs DEF Implementations
<1>2. FieldsOf(file) \in Seq(FieldSet)
  BY FieldsOfAre
<1>3. \A n \in DOMAIN FieldsOf(file) :
         [name |-> FieldsOf(file)[n], body |-> Implementations[FieldsOf(file)[n]]]
            = Resolver(FieldsOf(file)[n])
  <2>1. \A n \in DOMAIN FieldsOf(file) : FieldsOf(file)[n] \in FieldSet
    BY <1>2
  <2>2. QED BY <2>1 DEF Implementations, Resolver
<1>4. [n \in DOMAIN FieldsOf(file) |->
          [name |-> FieldsOf(file)[n], body |-> Implementations[FieldsOf(file)[n]]]]
       = [n \in DOMAIN FieldsOf(file) |-> Resolver(FieldsOf(file)[n])]
  BY <1>3
<1>5. Generated(file) = [n \in DOMAIN FieldsOf(file) |-> Resolver(FieldsOf(file)[n])] \o ObjectOf(file)
  BY DEF Generated, FieldsOf, ObjectOf
<1>6. Generated(file) = Listed(file, Implementations)
  BY <1>4, <1>5 DEF Listed
<1>7. Generated(file) \in Seq(Decl)
  BY <1>1, <1>6, ListedIs
<1>8. Keeps(file) \subseteq DOMAIN code[file] /\ code[file] \in Seq(Decl)
  BY DEF Keeps, ResolversTypeOK
<1>9. RemainingSource(file) = Sublist(code[file], Keeps(file))
  BY DEF RemainingSource, Keeps
<1>10. RemainingSource(file) \in Seq(Decl)
  BY <1>8, <1>9, SublistIs
<1>11. QED BY <1>1, <1>6, <1>7, <1>8, <1>9, <1>10 DEF Planned

\* What is in a planned file: methods with the bodies that were found, the object, and
\* what remains.
LEMMA PlannedHas ==
  ASSUME ResolversTypeOK, NEW file \in FileSet
  PROVE  /\ Planned(file) \in Seq(Decl)
         /\ \A d \in Range(Planned(file)) :
               \/ d.name \in InSchema /\ home[d.name] = file /\ d.body = Implementation(d.name)
               \/ d.name \in Object /\ d.body = 0
               \/ \E k \in Keeps(file) : d = code[file][k]
         /\ \A f \in FieldSet : home[f] = file => \E d \in Range(Planned(file)) : d.body = Implementation(f)
         /\ \A k \in Keeps(file) : code[file][k] \in Range(Planned(file))
<1> DEFINE front == Generated(file)
           rest == RemainingSource(file)
           whole == Planned(file)
<1>1. /\ Implementations \in [FieldSet -> 0..MaxEdits] /\ front = Listed(file, Implementations)
      /\ front \in Seq(Decl) /\ rest \in Seq(Decl) /\ whole = front \o rest
      /\ rest = Sublist(code[file], Keeps(file))
      /\ Keeps(file) \subseteq DOMAIN code[file] /\ code[file] \in Seq(Decl)
  BY PlannedIs DEF ResolversTypeOK
<1>2. \A f \in FieldSet : Implementations[f] = Implementation(f)
  BY DEF Implementations
<1> HIDE DEF front, rest, whole
<1>3. /\ \A k \in DOMAIN front :
            \/ front[k].name \in InSchema /\ home[front[k].name] = file
               /\ front[k].body = Implementations[front[k].name]
            \/ file = base /\ front[k].name \in Object /\ front[k].body = 0
      /\ \A f \in FieldSet : home[f] = file =>
            \E k \in DOMAIN front : front[k].name = f /\ front[k].body = Implementations[f]
  <2>1. Implementations \in [FieldSet -> 0..MaxEdits] /\ front = Listed(file, Implementations)
    BY <1>1
  <2> HIDE DEF Implementations
  <2>2. QED BY <2>1, ListedIs
<1>4. /\ \A k \in Keeps(file) : \E m \in DOMAIN rest : rest[m] = code[file][k]
      /\ \A m \in DOMAIN rest : \E k \in Keeps(file) : rest[m] = code[file][k]
  <2> DEFINE here == code[file]  places == Keeps(file)
  <2>1. rest = Sublist(here, places) /\ places \subseteq DOMAIN here /\ here \in Seq(Decl)
    BY <1>1
  <2> HIDE DEF here, places
  <2>2. /\ \A k \in places : Rank(places, k) \in DOMAIN rest /\ rest[Rank(places, k)] = here[k]
        /\ \A m \in DOMAIN rest : \E k \in places : rest[m] = here[k]
    BY <2>1, SublistIs
  <2>3. /\ \A k \in places : \E m \in DOMAIN rest : rest[m] = here[k]
        /\ \A m \in DOMAIN rest : \E k \in places : rest[m] = here[k]
    BY <2>2
  <2>4. QED BY <2>3 DEF here, places
<1>5. /\ whole \in Seq(Decl)
      /\ \A i \in DOMAIN front : i \in DOMAIN whole /\ whole[i] = front[i]
      /\ \A i \in DOMAIN rest : Len(front) + i \in DOMAIN whole /\ whole[Len(front) + i] = rest[i]
      /\ \A i \in DOMAIN whole : i \in DOMAIN front \/ (i > Len(front) /\ i - Len(front) \in DOMAIN rest)
  BY <1>1, Joined
<1>6. ASSUME NEW d \in Range(whole)
      PROVE  \/ d.name \in InSchema /\ home[d.name] = file /\ d.body = Implementation(d.name)
             \/ d.name \in Object /\ d.body = 0
             \/ \E k \in Keeps(file) : d = code[file][k]
  <2>1. PICK i \in DOMAIN whole : d = whole[i]
    BY <1>6 DEF Range
  <2>2. CASE i \in DOMAIN front
    <3>1. d = front[i]
      BY <1>5, <2>1, <2>2
    <3>2. CASE d.name \in InSchema /\ home[d.name] = file /\ d.body = Implementations[d.name]
      BY <1>2, <3>2 DEF InSchema
    <3>3. QED BY <1>3, <2>2, <3>1, <3>2
  <2>3. CASE i \notin DOMAIN front
    <3>1. i - Len(front) \in DOMAIN rest
      BY <1>5, <2>3
    <3>2. i \in Nat /\ Len(front) \in Nat
      BY <1>1, <1>5
    <3>3. Len(front) + (i - Len(front)) = i
      BY <3>2
    <3>4. whole[Len(front) + (i - Len(front))] = rest[i - Len(front)]
      BY <1>5, <3>1
    <3>5. d = rest[i - Len(front)]
      BY <2>1, <3>3, <3>4
    <3>6. QED BY <1>4, <3>1, <3>5
  <2>4. QED BY <2>2, <2>3
<1>7. ASSUME NEW f \in FieldSet, home[f] = file
      PROVE  \E d \in Range(whole) : d.body = Implementation(f)
  <2>1. PICK k \in DOMAIN front : front[k].body = Implementations[f]
    BY <1>3, <1>7
  <2>2. QED BY <1>2, <1>5, <2>1 DEF Range
<1>8. ASSUME NEW k \in Keeps(file) PROVE code[file][k] \in Range(whole)
  <2>1. PICK m \in DOMAIN rest : rest[m] = code[file][k]
    BY <1>4
  <2>2. QED BY <1>5, <2>1 DEF Range
<1>9. QED BY <1>5, <1>6, <1>7, <1>8 DEF whole

---------------------------------------------------------------------------
(* What users wrote *)

ObjectsEmpty(decls) == \A d \in Range(decls) : d.name \in Object => d.body = 0

Kept(b) ==
    \/ \E file \in FileSet \ DOMAIN pending : b \in Bodies(code[file])
    \/ \E file \in DOMAIN pending : b \in Bodies(pending[file])

\* A file that is going to be written over does not count as a place where a body is.
\* And what is planned for a file and not in it comes from the fields that belong there:
\* it is what an aborted run can lose.
KeepInv ==
    /\ ResolversTypeOK
    /\ \A file \in FileSet : ObjectsEmpty(code[file])
    /\ \A file \in DOMAIN pending :
          /\ file \in Regenerated /\ ObjectsEmpty(pending[file])
          /\ Bodies(pending[file]) \subseteq
                Bodies(code[file]) \cup {0} \cup {found[f] : f \in {f \in InSchema : home[f] = file}}
    /\ \A b \in alive : Kept(b)

LEMMA BodiesAre ==
  ASSUME NEW decls, NEW b
  PROVE  b \in Bodies(decls) <=> \E d \in Range(decls) : d.body = b
BY DEF Bodies

\* An edit, after which every body that is still wanted is in some file.
LEMMA Edited ==
  ASSUME KeepInv, Edit, UNCHANGED <<pending, found, clean>>,
         code' \in [FileSet -> Seq(Decl)], home' \in [FieldSet -> FileSet \cup {Absent}],
         base' \in FileSet, alive' \subseteq 1..edits',
         \A file \in FileSet : ObjectsEmpty(code'[file]),
         \A b \in alive' : \E file \in FileSet : b \in Bodies(code'[file])
  PROVE  KeepInv'
<1>1. /\ phase # "writing" /\ phase' = "idle" /\ edits < MaxEdits /\ edits' = edits + 1
      /\ DOMAIN pending = {} /\ edits \in 0..MaxEdits /\ MaxEdits \in Nat
      /\ found \in [FieldSet -> 0..MaxEdits] /\ clean \in BOOLEAN
  BY ResolversAssumption DEF Edit, KeepInv, ResolversTypeOK
<1>2. edits' \in 0..MaxEdits
  BY <1>1
<1>3. ResolversTypeOK'
  <2>1. DOMAIN pending' = {} /\ Range(pending') = {}
    BY <1>1 DEF Range
  <2>2. QED BY <1>1, <1>2, <2>1 DEF ResolversTypeOK
<1>4. \A file \in FileSet : ObjectsEmpty(code[file])'
  BY DEF ObjectsEmpty
<1>5. \A b \in alive' : Kept(b)'
  <2>1. \A file \in FileSet : Bodies(code[file])' = Bodies(code'[file])
    BY DEF Bodies
  <2>2. QED BY <1>1, <2>1 DEF Kept
<1>6. DOMAIN pending' = {}
  BY <1>1
<1>7. QED BY <1>3, <1>4, <1>5, <1>6 DEF KeepInv

LEMMA CopiedAre ==
  ASSUME ResolversTypeOK
  PROVE  /\ \A p \in Copied : \E n \in InSchema \cup Object :
               p \in Places(n) /\ (n # "type" => p = FirstPlace(n))
         /\ \A n \in InSchema \cup {"accessor"} : Places(n) # {} => FirstPlace(n) \in Copied
         /\ Places("type") \subseteq Copied
<1> DEFINE methods == UNION {Method(n) : n \in InSchema \cup {"accessor"}}
<1>0. Copied = methods \cup Places("type")
  BY DEF Copied
<1>1. ASSUME NEW p \in Copied
      PROVE  \E n \in InSchema \cup Object : p \in Places(n) /\ (n # "type" => p = FirstPlace(n))
  <2>1. CASE p \in Places("type")
    <3>1. "type" \in Object
      BY DEF Object
    <3>2. QED BY <2>1, <3>1
  <2>2. CASE \E n \in InSchema \cup {"accessor"} : p \in Method(n)
    <3>1. PICK n \in InSchema \cup {"accessor"} : p \in Method(n)
      BY <2>2
    <3>2. Places(n) # {} /\ p = FirstPlace(n)
      BY <3>1 DEF Method
    <3>3. p \in Places(n) /\ n \in InSchema \cup Object
      BY <3>1, <3>2, FirstIs DEF Object
    <3>4. QED BY <3>2, <3>3
  <2>3. p \in methods => \E n \in InSchema \cup {"accessor"} : p \in Method(n)
    OBVIOUS
  <2> HIDE DEF methods
  <2>4. QED BY <1>0, <1>1, <2>1, <2>2, <2>3
<1>2. ASSUME NEW n \in InSchema \cup {"accessor"}, Places(n) # {} PROVE FirstPlace(n) \in Copied
  <2>1. FirstPlace(n) \in Method(n)
    BY <1>2 DEF Method
  <2>2. FirstPlace(n) \in methods
    BY <1>2, <2>1
  <2>3. QED BY <1>0, <2>2
<1>3. Places("type") \subseteq Copied
  <2> HIDE DEF methods
  <2>1. QED BY <1>0
<1>4. QED BY <1>1, <1>2, <1>3

LEMMA KeepInit == ResolversInit => KeepInv
<1> SUFFICES ASSUME ResolversInit PROVE KeepInv
  OBVIOUS
<1>1. DOMAIN pending = {} /\ Range(pending) = {} /\ <<>> \in Seq(Decl) /\ DOMAIN <<>> = {}
  BY DEF ResolversInit, Range
<1>2. MaxEdits \in Nat /\ 0 \in 0..MaxEdits
  BY ResolversAssumption
<1>3. code \in [FileSet -> Seq(Decl)] /\ found \in [FieldSet -> 0..MaxEdits]
  BY <1>1, <1>2 DEF ResolversInit, NotImplemented
<1>4. ResolversTypeOK
  BY <1>1, <1>2, <1>3 DEF ResolversInit, ResolversTypeOK
<1>5. \A file \in FileSet : ObjectsEmpty(code[file])
  BY <1>1 DEF ResolversInit, ObjectsEmpty, Range
<1>6. alive = {}
  BY DEF ResolversInit
<1>7. QED BY <1>1, <1>4, <1>5, <1>6 DEF KeepInv

LEMMA RegeneratedAre ==
  ASSUME ResolversTypeOK
  PROVE  /\ Regenerated \subseteq FileSet /\ (Regenerated # {} => InSchema # {})
         /\ \A f \in InSchema : f \in FieldSet /\ home[f] \in Regenerated
         /\ \A f \in FieldSet : home[f] \in FileSet => f \in InSchema
BY ResolversAssumption DEF Regenerated, InSchema, ResolversTypeOK, FileSet

LEMMA ScanKeeps == KeepInv /\ Scan => KeepInv'
<1> SUFFICES ASSUME KeepInv, Scan PROVE KeepInv'
  OBVIOUS
<1>1. /\ phase # "writing" /\ clean' = Tidy
      /\ phase' = IF Regenerated = {} THEN "done" ELSE "writing"
      /\ pending' = [file \in Regenerated |-> Planned(file)]
      /\ found' = [f \in FieldSet |-> Implementation(f)]
      /\ UNCHANGED <<code, home, base, edits, alive>>
  BY DEF Scan
<1>2. /\ ResolversTypeOK /\ DOMAIN pending = {} /\ alive \subseteq 1..edits /\ edits \in 0..MaxEdits
      /\ \A file \in FileSet : ObjectsEmpty(code[file])
      /\ \A b \in alive : \E file \in FileSet : b \in Bodies(code[file])
  BY <1>1 DEF KeepInv, ResolversTypeOK, Kept
<1>3. /\ Regenerated \subseteq FileSet
      /\ \A f \in InSchema : f \in FieldSet /\ home[f] \in Regenerated
  BY <1>2, RegeneratedAre
<1>4. /\ DOMAIN pending' = Regenerated /\ \A file \in Regenerated : pending'[file] = Planned(file)
      /\ \A f \in FieldSet : found'[f] = Implementation(f)
      /\ Regenerated' = Regenerated /\ InSchema' = InSchema
      /\ \A file : Bodies(code[file])' = Bodies(code[file])
  BY <1>1 DEF Regenerated, InSchema, Bodies
<1>5. ASSUME NEW file \in Regenerated
      PROVE  /\ Planned(file) \in Seq(Decl)
             /\ \A d \in Range(Planned(file)) :
                   \/ d.name \in InSchema /\ home[d.name] = file /\ d.body = Implementation(d.name)
                   \/ d.name \in Object /\ d.body = 0
                   \/ \E k \in Keeps(file) : d = code[file][k]
             /\ \A f \in FieldSet : home[f] = file => \E d \in Range(Planned(file)) : d.body = Implementation(f)
             /\ \A k \in Keeps(file) : code[file][k] \in Range(Planned(file))
  BY <1>2, <1>3, PlannedHas
<1>6. ResolversTypeOK'
  <2>1. clean' \in BOOLEAN
    BY <1>1 DEF Tidy
  <2>2. found' \in [FieldSet -> 0..MaxEdits]
    BY <1>1, <1>2, ImplementationIs
  <2>3. /\ Range(pending') \subseteq Seq(Decl) /\ DOMAIN pending' \subseteq FileSet
        /\ DOMAIN pending' # {} <=> phase' = "writing"
    BY <1>1, <1>3, <1>4, <1>5 DEF Range
  <2>4. /\ code' \in [FileSet -> Seq(Decl)] /\ home' \in [FieldSet -> FileSet \cup {Absent}]
        /\ base' \in FileSet /\ edits' \in 0..MaxEdits /\ alive' \subseteq 1..edits'
    BY <1>1, <1>2 DEF ResolversTypeOK
  <2>5. phase' \in {"idle", "writing", "done"}
    BY <1>1
  <2>6. QED BY <2>1, <2>2, <2>3, <2>4, <2>5 DEF ResolversTypeOK
<1>7. ASSUME NEW file \in Regenerated
      PROVE  /\ ObjectsEmpty(Planned(file))
             /\ Bodies(Planned(file)) \subseteq
                   Bodies(code[file]) \cup {0} \cup {Implementation(f) : f \in {f \in InSchema : home[f] = file}}
  <2>1. Keeps(file) \subseteq DOMAIN code[file] /\ ObjectsEmpty(code[file])
    BY <1>2, <1>3 DEF Keeps
  <2>2. \A k \in Keeps(file) : code[file][k] \in Range(code[file])
    BY <2>1 DEF Range
  <2>3. \A n \in InSchema : n \notin Object
    BY ResolversAssumption DEF InSchema, FieldSet, Object
  <2>4. ASSUME NEW d \in Range(Planned(file))
        PROVE  /\ d.name \in Object => d.body = 0
               /\ d.body \in Bodies(code[file]) \cup {0} \cup {Implementation(f) : f \in {f \in InSchema : home[f] = file}}
    <3>1. CASE d.name \in InSchema /\ home[d.name] = file /\ d.body = Implementation(d.name)
      BY <2>3, <3>1
    <3>2. CASE d.name \in Object /\ d.body = 0
      BY <3>2
    <3>3. CASE \E k \in Keeps(file) : d = code[file][k]
      <4>1. d \in Range(code[file])
        BY <2>2, <3>3
      <4>2. QED BY <2>1, <4>1 DEF ObjectsEmpty, Bodies
    <3>4. QED BY <1>5, <3>1, <3>2, <3>3
  <2>5. QED BY <2>4 DEF ObjectsEmpty, Bodies
<1>8. ASSUME NEW b \in alive
      PROVE  \/ \E file \in FileSet \ Regenerated : b \in Bodies(code[file])
             \/ \E file \in Regenerated : b \in Bodies(Planned(file))
  <2>1. PICK file \in FileSet : b \in Bodies(code[file])
    BY <1>2
  <2>2. CASE file \notin Regenerated
    BY <2>1, <2>2
  <2>3. CASE file \in Regenerated
    <3>1. PICK k \in DOMAIN code[file] : code[file][k].body = b
      BY <2>1 DEF Bodies, Range
    <3>2. CASE k \in Keeps(file)
      <4>1. code[file][k] \in Range(Planned(file))
        BY <1>5, <2>3, <3>2
      <4>2. b \in Bodies(Planned(file))
        BY <3>1, <4>1 DEF Bodies
      <4>3. QED BY <2>3, <4>2
    <3>3. CASE k \notin Keeps(file)
      <4>1. PICK p \in Copied : Files[p[1]] = file /\ p[2] = k
        BY <3>1, <3>3 DEF Keeps
      <4>2. PICK n \in InSchema \cup Object : p \in Places(n) /\ (n # "type" => p = FirstPlace(n))
        BY <1>2, CopiedAre
      <4>3. code[file][k].name = n
        BY <4>1, <4>2, PlacesAre
      <4>4. b # 0
        BY <1>2
      <4>5. n \notin Object
        BY <1>2, <3>1, <4>3, <4>4 DEF ObjectsEmpty, Range
      <4>6. n \in InSchema /\ n # "type"
        BY <4>2, <4>5 DEF Object
      <4>7. Implementation(n) = b
        BY <3>1, <4>1, <4>2, <4>6 DEF Implementation
      <4>8. PICK d \in Range(Planned(home[n])) : d.body = b
        BY <1>3, <1>5, <4>6, <4>7
      <4>9. home[n] \in Regenerated /\ b \in Bodies(Planned(home[n]))
        BY <1>3, <4>6, <4>8 DEF Bodies
      <4>10. QED BY <4>9
    <3>4. QED BY <3>2, <3>3
  <2>4. QED BY <2>2, <2>3
<1>9. \A file \in FileSet : ObjectsEmpty(code[file])'
  BY <1>1, <1>2 DEF ObjectsEmpty
<1>10. ASSUME NEW file \in DOMAIN pending'
       PROVE  /\ file \in Regenerated' /\ ObjectsEmpty(pending[file])'
              /\ Bodies(pending[file])' \subseteq
                    Bodies(code[file])' \cup {0} \cup {found'[f] : f \in {f \in InSchema' : home'[f] = file}}
  <2>1. file \in Regenerated /\ pending'[file] = Planned(file)
    BY <1>4, <1>10
  <2>2. ObjectsEmpty(pending[file])' /\ Bodies(pending[file])' = Bodies(Planned(file))
    BY <1>7, <2>1 DEF ObjectsEmpty, Bodies
  <2>3. {found'[f] : f \in {f \in InSchema' : home'[f] = file}}
           = {Implementation(f) : f \in {f \in InSchema : home[f] = file}}
    <3>1. \A f \in {f \in InSchema : home[f] = file} : found'[f] = Implementation(f)
      BY <1>3, <1>4
    <3>2. {f \in InSchema' : home'[f] = file} = {f \in InSchema : home[f] = file}
      BY <1>1, <1>4
    <3>3. QED BY <3>1, <3>2
  <2>4. QED BY <1>4, <1>7, <2>1, <2>2, <2>3
<1>11. ASSUME NEW b \in alive' PROVE Kept(b)'
  <2>1. \/ \E file \in FileSet \ Regenerated : b \in Bodies(code[file])
        \/ \E file \in Regenerated : b \in Bodies(Planned(file))
    BY <1>1, <1>8
  <2>2. \A file \in Regenerated : Bodies(pending[file])' = Bodies(Planned(file))
    BY <1>4 DEF Bodies
  <2>3. QED BY <1>4, <2>1, <2>2 DEF Kept
<1>12. QED BY <1>6, <1>9, <1>10, <1>11 DEF KeepInv

LEMMA WriteKeeps ==
  ASSUME KeepInv, NEW file \in FileSet, WriteFile(file)
  PROVE  KeepInv'
<1>1. /\ file \in DOMAIN pending /\ code' = [code EXCEPT ![file] = pending[file]]
      /\ pending' = [g \in DOMAIN pending \ {file} |-> pending[g]]
      /\ phase' = IF DOMAIN pending = {file} THEN "done" ELSE "writing"
      /\ UNCHANGED <<home, base, found, edits, alive, clean>>
  BY DEF WriteFile, After
<1>2. /\ DOMAIN pending \subseteq FileSet /\ code \in [FileSet -> Seq(Decl)]
      /\ \A g \in DOMAIN pending : pending[g] \in Seq(Decl)
      /\ ResolversTypeOK
  BY DEF KeepInv, ResolversTypeOK, Range
<1>3. /\ DOMAIN pending' = DOMAIN pending \ {file}
      /\ \A g \in DOMAIN pending' : pending'[g] = pending[g]
      /\ code'[file] = pending[file] /\ \A g \in FileSet : g # file => code'[g] = code[g]
      /\ code' \in [FileSet -> Seq(Decl)]
      /\ Regenerated' = Regenerated /\ InSchema' = InSchema
  BY <1>1, <1>2 DEF Regenerated, InSchema
<1>4. /\ \A g \in DOMAIN pending' : Bodies(pending[g])' = Bodies(pending[g])
      /\ Bodies(code[file])' = Bodies(pending[file])
      /\ \A g \in FileSet : g # file => Bodies(code[g])' = Bodies(code[g])
  BY <1>3 DEF Bodies
<1>5. ResolversTypeOK'
  <2>1. Range(pending') \subseteq Seq(Decl) /\ DOMAIN pending' \subseteq FileSet
    BY <1>2, <1>3 DEF Range
  <2>2. /\ phase' \in {"idle", "writing", "done"}
        /\ DOMAIN pending' # {} <=> phase' = "writing"
    BY <1>1, <1>3
  <2>3. /\ home' \in [FieldSet -> FileSet \cup {Absent}] /\ base' \in FileSet
        /\ found' \in [FieldSet -> 0..MaxEdits] /\ edits' \in 0..MaxEdits
        /\ alive' \subseteq 1..edits' /\ clean' \in BOOLEAN
    BY <1>1, <1>2 DEF ResolversTypeOK
  <2>4. QED BY <1>3, <2>1, <2>2, <2>3 DEF ResolversTypeOK
<1>6. ASSUME NEW g \in FileSet PROVE ObjectsEmpty(code[g])'
  <2>1. CASE g = file
    <3>1. ObjectsEmpty(pending[file])
      BY <1>1 DEF KeepInv
    <3>2. QED BY <1>3, <2>1, <3>1 DEF ObjectsEmpty
  <2>2. CASE g # file
    <3>1. ObjectsEmpty(code[g])
      BY DEF KeepInv
    <3>2. QED BY <1>3, <2>2, <3>1 DEF ObjectsEmpty
  <2>3. QED BY <2>1, <2>2
<1>7. ASSUME NEW g \in DOMAIN pending'
      PROVE  /\ g \in Regenerated' /\ ObjectsEmpty(pending[g])'
             /\ Bodies(pending[g])' \subseteq
                   Bodies(code[g])' \cup {0} \cup {found'[f] : f \in {f \in InSchema' : home'[f] = g}}
  <2>1. g \in DOMAIN pending /\ g # file /\ g \in FileSet /\ pending'[g] = pending[g]
    BY <1>2, <1>3, <1>7
  <2>2. /\ g \in Regenerated /\ ObjectsEmpty(pending[g])
        /\ Bodies(pending[g]) \subseteq
              Bodies(code[g]) \cup {0} \cup {found[f] : f \in {f \in InSchema : home[f] = g}}
    BY <2>1 DEF KeepInv
  <2>3. ObjectsEmpty(pending[g])'
    BY <2>1, <2>2 DEF ObjectsEmpty
  <2>4. {found'[f] : f \in {f \in InSchema' : home'[f] = g}} = {found[f] : f \in {f \in InSchema : home[f] = g}}
    BY <1>1, <1>3
  <2>5. QED BY <1>3, <1>4, <1>7, <2>1, <2>2, <2>3, <2>4
<1>8. ASSUME NEW b \in alive' PROVE Kept(b)'
  <2>1. \/ \E g \in FileSet \ DOMAIN pending : b \in Bodies(code[g])
        \/ \E g \in DOMAIN pending : b \in Bodies(pending[g])
    BY <1>1, <1>8 DEF KeepInv, Kept
  <2>2. CASE \E g \in FileSet \ DOMAIN pending : b \in Bodies(code[g])
    BY <1>1, <1>3, <1>4, <2>2 DEF Kept
  <2>3. CASE b \in Bodies(pending[file])
    BY <1>3, <1>4, <2>3 DEF Kept
  <2>4. CASE \E g \in DOMAIN pending \ {file} : b \in Bodies(pending[g])
    BY <1>3, <1>4, <2>4 DEF Kept
  <2>5. QED BY <2>1, <2>2, <2>3, <2>4
<1>9. QED BY <1>5, <1>6, <1>7, <1>8 DEF KeepInv

LEMMA AbortsKeep == KeepInv /\ Abort => KeepInv'
<1> SUFFICES ASSUME KeepInv, Abort PROVE KeepInv'
  OBVIOUS
<1>1. /\ phase = "writing" /\ phase' = "idle" /\ pending' = <<>>
      /\ alive' = alive \ {found[f] : f \in {f \in InSchema : OnItsWay(f)}}
      /\ UNCHANGED <<code, home, base, found, edits, clean>>
  BY DEF Abort
<1>2. DOMAIN pending' = {} /\ Range(pending') = {} /\ alive' \subseteq alive
  BY <1>1 DEF Range
<1>3. ResolversTypeOK /\ ResolversTypeOK'
  BY <1>1, <1>2 DEF KeepInv, ResolversTypeOK
<1>4. \A file \in FileSet : ObjectsEmpty(code[file])'
  BY <1>1 DEF KeepInv, ObjectsEmpty
<1>5. ASSUME NEW b \in alive' PROVE Kept(b)'
  <2>1. b \in alive /\ b # 0
    BY <1>2, <1>3, <1>5 DEF ResolversTypeOK
  <2>2. \E file \in FileSet : b \in Bodies(code[file])
    <3>1. CASE \E file \in FileSet \ DOMAIN pending : b \in Bodies(code[file])
      BY <3>1
    <3>2. CASE \E file \in DOMAIN pending : b \in Bodies(pending[file])
      <4>1. PICK file \in DOMAIN pending : b \in Bodies(pending[file])
        BY <3>2
      <4>2. b \in Bodies(code[file]) \cup {found[f] : f \in {f \in InSchema : home[f] = file}}
        BY <2>1, <4>1 DEF KeepInv
      <4>3. file \in FileSet
        BY <1>3 DEF ResolversTypeOK
      <4>4. CASE b \notin Bodies(code[file])
        <5>1. PICK f \in InSchema : home[f] = file /\ b = found[f]
          BY <4>2, <4>4
        <5>2. OnItsWay(f)
          BY <4>4, <5>1 DEF OnItsWay
        <5>3. QED BY <1>1, <1>5, <5>1, <5>2
      <4>5. QED BY <4>3, <4>4
    <3>3. QED BY <2>1, <3>1, <3>2 DEF KeepInv, Kept
  <2>3. \A file : Bodies(code[file])' = Bodies(code[file])
    BY <1>1 DEF Bodies
  <2>4. QED BY <1>2, <2>2, <2>3 DEF Kept
<1>6. QED BY <1>2, <1>3, <1>4, <1>5 DEF KeepInv

LEMMA AddKeeps ==
  ASSUME KeepInv, NEW file \in FileSet, AddHelper(file)
  PROVE  KeepInv'
<1> DEFINE new == [name |-> "helper", body |-> edits']
<1>1. /\ Edit /\ code' = [code EXCEPT ![file] = Append(@, new)]
      /\ alive' = alive \cup {edits'} /\ UNCHANGED <<home, base, pending, found, clean>>
  BY DEF AddHelper
<1>2. /\ code \in [FileSet -> Seq(Decl)] /\ alive \subseteq 1..edits /\ edits \in 0..MaxEdits
      /\ \A g \in FileSet : ObjectsEmpty(code[g])
      /\ \A b \in alive : \E g \in FileSet : b \in Bodies(code[g])
      /\ home \in [FieldSet -> FileSet \cup {Absent}] /\ base \in FileSet
  BY <1>1 DEF Edit, KeepInv, ResolversTypeOK, Kept
<1>3. edits' = edits + 1 /\ edits' \in 0..MaxEdits /\ edits' \in 1..edits' /\ 1..edits \subseteq 1..edits'
  BY <1>1, <1>2, ResolversAssumption DEF Edit
<1>4. new \in Decl /\ new.name \notin Object /\ new.body = edits'
  BY <1>3 DEF Decl, Object
<1> HIDE DEF new
<1>5. /\ code' \in [FileSet -> Seq(Decl)] /\ code'[file] = Append(code[file], new)
      /\ \A g \in FileSet : g # file => code'[g] = code[g]
  BY <1>1, <1>2, <1>4
<1>6. Range(code'[file]) = Range(code[file]) \cup {new}
  <2>1. code[file] \in Seq(Decl)
    BY <1>2
  <2> DEFINE old == code[file]
  <2> HIDE DEF old
  <2>2. /\ DOMAIN Append(old, new) = DOMAIN old \cup {Len(old) + 1}
        /\ \A i \in DOMAIN old : Append(old, new)[i] = old[i]
        /\ Append(old, new)[Len(old) + 1] = new
    BY <1>4, <2>1 DEF old
  <2>3. Range(Append(old, new)) = Range(old) \cup {new}
    BY <2>2 DEF Range
  <2>4. QED BY <1>5, <2>3 DEF old
<1>7. ASSUME NEW g \in FileSet PROVE ObjectsEmpty(code'[g]) /\ Bodies(code[g]) \subseteq Bodies(code'[g])
  <2>1. CASE g = file
    BY <1>2, <1>4, <1>6, <2>1 DEF ObjectsEmpty, Bodies
  <2>2. CASE g # file
    BY <1>2, <1>5, <2>2
  <2>3. QED BY <2>1, <2>2
<1>8. edits' \in Bodies(code'[file])
  BY <1>4, <1>6 DEF Bodies
<1>9. \A b \in alive' : \E g \in FileSet : b \in Bodies(code'[g])
  BY <1>1, <1>2, <1>7, <1>8
<1>10. alive' \subseteq 1..edits'
  BY <1>1, <1>2, <1>3
<1>11. home' = home /\ base' = base
  BY <1>1
<1>12. QED BY <1>1, <1>2, <1>5, <1>7, <1>9, <1>10, <1>11, Edited

LEMMA ImplementKeeps ==
  ASSUME KeepInv, NEW file \in FileSet, NEW k \in DOMAIN code[file], Implement(file, k)
  PROVE  KeepInv'
<1> DEFINE old == code[file][k]
           new == [old EXCEPT !.body = edits']
<1>1. /\ Edit /\ old.name \notin Object
      /\ code' = [code EXCEPT ![file] = [code[file] EXCEPT ![k] = new]]
      /\ alive' = (alive \ {old.body}) \cup {edits'} /\ UNCHANGED <<home, base, pending, found, clean>>
  BY DEF Implement
<1>2. /\ code \in [FileSet -> Seq(Decl)] /\ alive \subseteq 1..edits /\ edits \in 0..MaxEdits
      /\ \A g \in FileSet : ObjectsEmpty(code[g])
      /\ \A b \in alive : \E g \in FileSet : b \in Bodies(code[g])
      /\ home \in [FieldSet -> FileSet \cup {Absent}] /\ base \in FileSet
  BY <1>1 DEF Edit, KeepInv, ResolversTypeOK, Kept
<1>3. edits' = edits + 1 /\ edits' \in 0..MaxEdits /\ edits' \in 1..edits' /\ 1..edits \subseteq 1..edits'
  BY <1>1, <1>2, ResolversAssumption DEF Edit
<1>4. new \in Decl /\ new.name = old.name /\ new.body = edits'
  <2>1. old \in Decl
    BY <1>2
  <2> HIDE DEF old
  <2>2. QED BY <1>3, <2>1 DEF Decl
<1> HIDE DEF new
<1>5. /\ code' \in [FileSet -> Seq(Decl)] /\ DOMAIN code'[file] = DOMAIN code[file]
      /\ code'[file][k] = new /\ \A m \in DOMAIN code[file] : m # k => code'[file][m] = code[file][m]
      /\ \A g \in FileSet : g # file => code'[g] = code[g]
  <2>1. code[file] \in Seq(Decl)
    BY <1>2
  <2> DEFINE list == [code[file] EXCEPT ![k] = new]
  <2>2. /\ list \in Seq(Decl) /\ DOMAIN list = DOMAIN code[file] /\ list[k] = new
        /\ \A m \in DOMAIN code[file] : m # k => list[m] = code[file][m]
    BY <1>4, <2>1
  <2>3. code' = [code EXCEPT ![file] = list]
    BY <1>1
  <2> HIDE DEF list
  <2>4. QED BY <1>2, <2>2, <2>3
<1>6. ASSUME NEW g \in FileSet PROVE ObjectsEmpty(code'[g])
  <2>1. CASE g = file
    <3>1. ASSUME NEW m \in DOMAIN code'[file], code'[file][m].name \in Object
          PROVE  code'[file][m].body = 0
      <4>1. m # k
        BY <1>1, <1>4, <1>5, <3>1
      <4>2. code'[file][m] = code[file][m] /\ code[file][m] \in Range(code[file])
        BY <1>5, <3>1, <4>1 DEF Range
      <4>3. QED BY <1>2, <3>1, <4>2 DEF ObjectsEmpty
    <3>2. QED BY <2>1, <3>1 DEF ObjectsEmpty, Range
  <2>2. CASE g # file
    BY <1>2, <1>5, <2>2
  <2>3. QED BY <2>1, <2>2
<1>7. ASSUME NEW b \in alive' PROVE \E g \in FileSet : b \in Bodies(code'[g])
  <2>1. CASE b = edits'
    <3>1. new \in Range(code'[file])
      BY <1>5 DEF Range
    <3>2. b \in Bodies(code'[file])
      BY <1>4, <2>1, <3>1 DEF Bodies
    <3>3. QED BY <3>2
  <2>2. CASE b # edits'
    <3>1. b \in alive /\ b # old.body
      BY <1>1, <1>7, <2>2
    <3>2. PICK g \in FileSet : b \in Bodies(code[g])
      BY <1>2, <3>1
    <3>3. PICK m \in DOMAIN code[g] : code[g][m].body = b
      BY <3>2 DEF Bodies, Range
    <3>4. m \in DOMAIN code'[g] /\ code'[g][m] = code[g][m]
      <4>1. CASE g # file
        BY <1>5, <3>3, <4>1
      <4>2. CASE g = file
        <5>1. m # k
          BY <3>1, <3>3, <4>2
        <5>2. QED BY <1>5, <3>3, <4>2, <5>1
      <4>3. QED BY <4>1, <4>2
    <3>5. code'[g][m] \in Range(code'[g])
      BY <3>4 DEF Range
    <3>6. b \in Bodies(code'[g])
      BY <3>3, <3>4, <3>5 DEF Bodies
    <3>7. QED BY <3>6
  <2>3. QED BY <2>1, <2>2
<1>8. alive' \subseteq 1..edits'
  BY <1>1, <1>2, <1>3
<1>9. home' = home /\ base' = base
  BY <1>1
<1>10. QED BY <1>1, <1>2, <1>5, <1>6, <1>7, <1>8, <1>9, Edited

LEMMA Removed ==
  ASSUME NEW S, NEW list \in Seq(S), NEW k \in DOMAIN list
  PROVE  /\ RemoveAt(list, k) \in Seq(S)
         /\ Range(RemoveAt(list, k)) \subseteq Range(list)
         /\ Range(list) \subseteq Range(RemoveAt(list, k)) \cup {list[k]}
<1> DEFINE low == SubSeq(list, 1, k - 1)
           high == SubSeq(list, k + 1, Len(list))
           short == RemoveAt(list, k)
<1>1. k \in 1..Len(list) /\ Len(list) \in Nat /\ DOMAIN list = 1..Len(list)
  OBVIOUS
<1>2. /\ low \in Seq(S) /\ Len(low) = k - 1 /\ \A i \in 1..k - 1 : low[i] = list[i]
      /\ DOMAIN low = 1..k - 1
  BY <1>1
<1>3. /\ high \in Seq(S) /\ Len(high) = Len(list) - k /\ \A i \in 1..Len(list) - k : high[i] = list[k + i]
      /\ DOMAIN high = 1..Len(list) - k
  BY <1>1
<1>4. short = low \o high
  BY DEF RemoveAt
<1> HIDE DEF low, high, short
<1>5. /\ short \in Seq(S)
      /\ \A i \in DOMAIN low : i \in DOMAIN short /\ short[i] = low[i]
      /\ \A i \in DOMAIN high : Len(low) + i \in DOMAIN short /\ short[Len(low) + i] = high[i]
      /\ \A i \in DOMAIN short : i \in DOMAIN low \/ (i > Len(low) /\ i - Len(low) \in DOMAIN high)
  BY SMTT(30), <1>2, <1>3, <1>4, Joined
<1>6. ASSUME NEW i \in DOMAIN short PROVE short[i] \in Range(list)
  <2>1. CASE i \in DOMAIN low
    <3>1. short[i] = list[i] /\ i \in DOMAIN list
      BY <1>1, <1>2, <1>5, <2>1
    <3>2. QED BY <3>1 DEF Range
  <2>2. CASE i - Len(low) \in DOMAIN high /\ i > Len(low)
    <3>1. i \in Nat
      BY <1>5
    <3>2. short[Len(low) + (i - Len(low))] = high[i - Len(low)] /\ Len(low) + (i - Len(low)) = i
      BY <1>1, <1>2, <1>5, <2>2, <3>1
    <3>3. high[i - Len(low)] = list[k + (i - Len(low))] /\ k + (i - Len(low)) \in DOMAIN list
      BY <1>1, <1>2, <1>3, <2>2, <3>1
    <3>4. QED BY <3>2, <3>3 DEF Range
  <2>3. QED BY <1>5, <2>1, <2>2
<1>7. ASSUME NEW i \in DOMAIN list, i # k PROVE list[i] \in Range(short)
  <2>1. CASE i < k
    <3>1. i \in DOMAIN low /\ low[i] = list[i]
      BY <1>1, <1>2, <2>1
    <3>2. i \in DOMAIN short /\ short[i] = list[i]
      BY <1>5, <3>1
    <3>3. QED BY <3>2 DEF Range
  <2>2. CASE i > k
    <3>1. i - k \in DOMAIN high /\ k + (i - k) = i
      BY <1>1, <1>3, <2>2
    <3>2. high[i - k] = list[k + (i - k)]
      BY <1>3, <3>1
    <3>3. Len(low) + (i - k) \in DOMAIN short /\ short[Len(low) + (i - k)] = high[i - k]
      BY <1>5, <3>1
    <3>4. QED BY <3>1, <3>2, <3>3 DEF Range
  <2>3. QED BY <1>1, <1>7, <2>1, <2>2
<1>8. QED BY <1>5, <1>6, <1>7 DEF Range, short

LEMMA MoveKeeps ==
  ASSUME KeepInv, NEW file \in FileSet, NEW k \in DOMAIN code[file], NEW to \in FileSet,
         MoveDecl(file, k, to)
  PROVE  KeepInv'
<1> DEFINE old == code[file][k]
           short == RemoveAt(code[file], k)
           long == Append(code[to], old)
<1>1. /\ Edit /\ to # file
      /\ code' = [code EXCEPT ![file] = RemoveAt(@, k), ![to] = Append(@, old)]
      /\ UNCHANGED <<home, base, pending, found, alive, clean>>
  BY DEF MoveDecl
<1>2. /\ code \in [FileSet -> Seq(Decl)] /\ alive \subseteq 1..edits /\ edits \in 0..MaxEdits
      /\ \A g \in FileSet : ObjectsEmpty(code[g])
      /\ \A b \in alive : \E g \in FileSet : b \in Bodies(code[g])
      /\ home \in [FieldSet -> FileSet \cup {Absent}] /\ base \in FileSet
  BY <1>1 DEF Edit, KeepInv, ResolversTypeOK, Kept
<1>3. edits' = edits + 1 /\ 1..edits \subseteq 1..edits'
  BY <1>1, <1>2, ResolversAssumption DEF Edit
<1>4. /\ code[file] \in Seq(Decl) /\ code[to] \in Seq(Decl) /\ old \in Decl /\ old \in Range(code[file])
  BY <1>2 DEF Range
<1>5. /\ short \in Seq(Decl) /\ Range(short) \subseteq Range(code[file])
      /\ Range(code[file]) \subseteq Range(short) \cup {old}
  <2> DEFINE list == code[file]
  <2>1. list \in Seq(Decl) /\ k \in DOMAIN list
    BY <1>4
  <2> HIDE DEF list
  <2>2. /\ RemoveAt(list, k) \in Seq(Decl) /\ Range(RemoveAt(list, k)) \subseteq Range(list)
        /\ Range(list) \subseteq Range(RemoveAt(list, k)) \cup {list[k]}
    BY <2>1, Removed
  <2>3. QED BY <2>2 DEF list
<1>6. long \in Seq(Decl) /\ Range(long) = Range(code[to]) \cup {old}
  <2> DEFINE list == code[to]  new == old
  <2>1. list \in Seq(Decl) /\ new \in Decl
    BY <1>4
  <2> HIDE DEF list, new
  <2>2. /\ Append(list, new) \in Seq(Decl) /\ DOMAIN Append(list, new) = DOMAIN list \cup {Len(list) + 1}
        /\ \A i \in DOMAIN list : Append(list, new)[i] = list[i]
        /\ Append(list, new)[Len(list) + 1] = new
    BY <2>1
  <2>3. Range(Append(list, new)) = Range(list) \cup {new}
    BY <2>2 DEF Range
  <2>4. QED BY <2>2, <2>3 DEF list, new
<1>7. /\ code'[file] = short /\ code'[to] = long
      /\ \A g \in FileSet \ {file, to} : code'[g] = code[g]
      /\ code' \in [FileSet -> Seq(Decl)]
  <2>1. code' = [code EXCEPT ![file] = short, ![to] = long]
    BY <1>1, <1>2
  <2> HIDE DEF short, long
  <2>2. QED BY <1>1, <1>2, <1>5, <1>6, <2>1
<1> HIDE DEF old, short, long
<1>8. ASSUME NEW g \in FileSet PROVE ObjectsEmpty(code'[g])
  <2>1. CASE g = file
    BY <1>2, <1>5, <1>7, <2>1 DEF ObjectsEmpty
  <2>2. CASE g = to
    BY <1>2, <1>4, <1>6, <1>7, <2>2 DEF ObjectsEmpty
  <2>3. CASE g # file /\ g # to
    BY <1>2, <1>7, <2>3
  <2>4. QED BY <2>1, <2>2, <2>3
<1>9. ASSUME NEW b \in alive' PROVE \E g \in FileSet : b \in Bodies(code'[g])
  <2>1. PICK g \in FileSet : b \in Bodies(code[g])
    BY <1>1, <1>2, <1>9
  <2>2. PICK d \in Range(code[g]) : d.body = b
    BY <2>1 DEF Bodies
  <2>3. \E h \in FileSet : d \in Range(code'[h])
    <3>1. CASE g = file
      BY <1>5, <1>6, <1>7, <2>2, <3>1
    <3>2. CASE g # file
      BY <1>6, <1>7, <2>2, <3>2
    <3>3. QED BY <3>1, <3>2
  <2>4. QED BY <2>2, <2>3 DEF Bodies
<1>10. alive' \subseteq 1..edits' /\ home' = home /\ base' = base
  BY <1>1, <1>2, <1>3
<1>11. QED BY <1>1, <1>2, <1>7, <1>8, <1>9, <1>10, Edited

LEMMA SchemaKeeps == KeepInv /\ ChangeSchema => KeepInv'
<1> SUFFICES ASSUME KeepInv, ChangeSchema PROVE KeepInv'
  OBVIOUS
<1>1. Edit /\ UNCHANGED <<code, pending, found, alive, clean>>
  BY DEF ChangeSchema
<1>2. /\ code \in [FileSet -> Seq(Decl)] /\ alive \subseteq 1..edits /\ edits \in 0..MaxEdits
      /\ \A g \in FileSet : ObjectsEmpty(code[g])
      /\ \A b \in alive : \E g \in FileSet : b \in Bodies(code[g])
      /\ home \in [FieldSet -> FileSet \cup {Absent}] /\ base \in FileSet
  BY <1>1 DEF Edit, KeepInv, ResolversTypeOK, Kept
<1>3. edits' = edits + 1 /\ 1..edits \subseteq 1..edits'
  BY <1>1, <1>2, ResolversAssumption DEF Edit
<1>4. home' \in [FieldSet -> FileSet \cup {Absent}] /\ base' \in FileSet
  BY <1>2 DEF ChangeSchema
<1>5. code' = code /\ alive' = alive
  BY <1>1
<1>6. alive' \subseteq 1..edits'
  BY <1>2, <1>3, <1>5
<1>7. QED BY <1>1, <1>2, <1>4, <1>5, <1>6, Edited

LEMMA KeepNext == KeepInv /\ [ResolversNext]_resolverVars => KeepInv'
<1> SUFFICES ASSUME KeepInv, [ResolversNext]_resolverVars PROVE KeepInv'
  OBVIOUS
<1>1. CASE Scan
  BY <1>1, ScanKeeps
<1>2. CASE Abort
  BY <1>2, AbortsKeep
<1>3. CASE User
  <2>1. CASE ChangeSchema
    BY <2>1, SchemaKeeps
  <2>2. ASSUME NEW file \in FileSet, AddHelper(file) PROVE KeepInv'
    BY <2>2, AddKeeps
  <2>3. ASSUME NEW file \in FileSet, NEW k \in DOMAIN code[file], Implement(file, k) PROVE KeepInv'
    BY <2>3, ImplementKeeps
  <2>4. ASSUME NEW file \in FileSet, NEW k \in DOMAIN code[file], NEW to \in FileSet, MoveDecl(file, k, to)
        PROVE  KeepInv'
    BY <2>4, MoveKeeps
  <2>5. QED BY <1>3, <2>1, <2>2, <2>3, <2>4 DEF User
<1>4. ASSUME NEW file \in FileSet, WriteFile(file) PROVE KeepInv'
  BY <1>4, WriteKeeps
<1>5. CASE UNCHANGED resolverVars
  <2>1. UNCHANGED <<code, home, base, phase, pending, found, edits, alive, clean>>
    BY <1>5 DEF resolverVars
  <2>2. ResolversTypeOK'
    BY <2>1 DEF KeepInv, ResolversTypeOK
  <2>3. /\ Regenerated' = Regenerated /\ InSchema' = InSchema
        /\ \A decls : Bodies(decls)' = Bodies(decls)
    BY <2>1 DEF Regenerated, InSchema
  <2>4. \A b \in alive' : Kept(b)'
    BY <2>1 DEF KeepInv, Kept
  <2>5. QED BY <2>1, <2>2, <2>3, <2>4 DEF KeepInv
<1>6. QED BY <1>1, <1>2, <1>3, <1>4, <1>5 DEF ResolversNext

LEMMA KeepHolds == ResolversSpec => []KeepInv
<1>1. QED BY KeepInit, KeepNext, PTL DEF ResolversSpec

\* Code, plans and bodies keep their types; a run is over when the last planned file is
\* written (resolver.go:117-144).
THEOREM ResolversTypeCorrect == ResolversSpec => []ResolversTypeOK
<1>1. KeepInv => ResolversTypeOK
  BY DEF KeepInv
<1>2. QED BY <1>1, KeepHolds, PTL

\* For any files, fields and number of edits, whatever a user wrote and has not replaced
\* is in a file or about to be written to one (resolver.go:117-148, rewriter.go:72-105).
THEOREM NothingIsLost == ResolversSpec => []NothingLost
<1>1. KeepInv => NothingLost
  BY DEF KeepInv, Kept, NothingLost, Stored
<1>2. QED BY <1>1, KeepHolds, PTL

---------------------------------------------------------------------------
(* Runs settle *)

\* A file is what would be generated for it, with the bodies that the scan found, and
\* after that nothing that is generated anywhere.
Settling(decls, file) ==
    \E rest \in Seq(Decl) :
        /\ decls = Listed(file, found) \o rest
        /\ \A m \in DOMAIN rest : rest[m].name \notin Named

SettleInv ==
    phase \in {"writing", "done"} /\ clean =>
        \A file \in FileSet :
            IF file \in DOMAIN pending THEN Settling(pending[file], file)
            ELSE IF file \in Regenerated THEN Settling(code[file], file)
            ELSE \A k \in DOMAIN code[file] : code[file][k].name \notin Named

\* The only declaration of its name is copied, so it does not remain.
LEMMA OnlyOneIsCopied ==
  ASSUME ResolversTypeOK, NEW file \in FileSet, NEW k \in DOMAIN code[file],
         NEW n \in Named, code[file][k].name = n, \A p, q \in Places(n) : p = q
  PROVE  k \notin Keeps(file)
<1>1. PICK i \in DOMAIN Files : Files[i] = file
  BY DEF FileSet, Range
<1>2. <<i, k>> \in Places(n)
  BY <1>1, PlacesAre
<1>3. <<i, k>> \in Copied
  <2>1. CASE n = "type"
    BY <1>2, <2>1, CopiedAre
  <2>2. CASE n # "type"
    <3>1. n \in InSchema \cup {"accessor"}
      BY <2>2 DEF Named, Object
    <3>2. FirstPlace(n) \in Copied /\ FirstPlace(n) \in Places(n)
      BY <1>2, <3>1, CopiedAre, FirstIs
    <3>3. QED BY <1>2, <3>2
  <2>3. QED BY <2>1, <2>2
<1>4. QED BY <1>1, <1>3 DEF Keeps

LEMMA SameSettling ==
  ASSUME UNCHANGED <<home, base, found>>
  PROVE  /\ Named' = Named /\ Regenerated' = Regenerated
         /\ \A file : Listed(file, found)' = Listed(file, found)
<1>1. Named' = Named /\ Regenerated' = Regenerated
  BY DEF Named, InSchema, Regenerated
<1>2. \A file : Listed(file, found)' = Listed(file, found)
  <2>1. \A file : FieldsOf(file)' = FieldsOf(file) /\ ObjectOf(file)' = ObjectOf(file)
    BY DEF FieldsOf, ObjectOf
  <2>2. QED BY <2>1 DEF Listed
<1>3. QED BY <1>1, <1>2

LEMMA ScanSettles == KeepInv /\ Scan => SettleInv'
<1> SUFFICES ASSUME KeepInv, Scan, clean' PROVE SettleInv'
  BY DEF SettleInv
<1>1. /\ pending' = [file \in Regenerated |-> Planned(file)]
      /\ found' = Implementations /\ Tidy /\ ResolversTypeOK
      /\ UNCHANGED <<code, home, base, edits, alive>>
  BY DEF Scan, KeepInv, Implementations
<1>2. /\ Regenerated' = Regenerated /\ Named' = Named
      /\ \A file : FieldsOf(file)' = FieldsOf(file) /\ ObjectOf(file)' = ObjectOf(file)
  BY <1>1 DEF Regenerated, Named, InSchema, FieldsOf, ObjectOf
<1>3. \A file : Listed(file, found)' = Listed(file, Implementations)
  BY <1>1, <1>2 DEF Listed
<1>4. ASSUME NEW n \in Named PROVE \A p, q \in Places(n) : p = q
  <2>1. n \in FieldSet \cup Object
    BY <1>4 DEF Named, InSchema
  <2>2. QED BY <1>1, <2>1 DEF Tidy
<1>5. ASSUME NEW file \in Regenerated PROVE Settling(pending[file], file)'
  <2> DEFINE rest == RemainingSource(file)  here == code[file]  places == Keeps(file)
  <2>1. file \in FileSet
    BY <1>1, RegeneratedAre
  <2>2. /\ rest \in Seq(Decl) /\ pending'[file] = Listed(file, Implementations) \o rest
        /\ rest = Sublist(here, places) /\ places \subseteq DOMAIN here /\ here \in Seq(Decl)
    BY <1>1, <2>1, PlannedIs DEF ResolversTypeOK
  <2>3. \A k \in places : here[k].name \notin Named
    BY <1>1, <1>4, <2>1, <2>2, OnlyOneIsCopied
  <2> HIDE DEF rest, here, places
  <2>4. \A m \in DOMAIN rest : \E k \in places : rest[m] = here[k]
    BY <2>2, SublistIs
  <2>5. \A m \in DOMAIN rest : rest[m].name \notin Named
    BY <2>3, <2>4
  <2>6. Settling(pending[file], file)' <=>
           \E r \in Seq(Decl) : /\ pending'[file] = Listed(file, Implementations) \o r
                                /\ \A m \in DOMAIN r : r[m].name \notin Named
    BY <1>2, <1>3 DEF Settling
  <2>7. QED BY <2>2, <2>5, <2>6
<1>6. ASSUME NEW file \in FileSet \ Regenerated, NEW k \in DOMAIN code[file]
      PROVE  code[file][k].name \notin Named
  <2> SUFFICES ASSUME code[file][k].name \in Named PROVE FALSE
    OBVIOUS
  <2> DEFINE n == code[file][k].name
  <2>1. PICK i \in DOMAIN Files : Files[i] = file
    BY DEF FileSet, Range
  <2>2. <<i, k>> \in Places(n)
    BY <2>1, PlacesAre
  <2>3. n \in FieldSet \cup Object /\ n \in Named
    BY DEF Named, InSchema
  <2> HIDE DEF n
  <2>4. \A p \in Places(n) : Files[p[1]] \in Regenerated
    BY <1>1, <2>3 DEF Tidy
  <2>5. QED BY <1>6, <2>1, <2>2, <2>4
<1>7. /\ DOMAIN pending' = Regenerated /\ code' = code
      /\ \A file : Regenerated' = Regenerated
  BY <1>1, <1>2
<1>8. ASSUME NEW file \in FileSet
      PROVE  IF file \in DOMAIN pending' THEN Settling(pending[file], file)'
             ELSE IF file \in Regenerated' THEN Settling(code[file], file)'
             ELSE \A k \in DOMAIN code'[file] : code'[file][k].name \notin Named'
  BY <1>2, <1>5, <1>6, <1>7
<1>9. QED BY <1>8 DEF SettleInv

LEMMA WriteSettles ==
  ASSUME KeepInv, SettleInv, NEW file \in FileSet, WriteFile(file)
  PROVE  SettleInv'
<1>1. /\ file \in DOMAIN pending /\ code' = [code EXCEPT ![file] = pending[file]]
      /\ pending' = [g \in DOMAIN pending \ {file} |-> pending[g]]
      /\ UNCHANGED <<home, base, found, clean>> /\ phase = "writing"
      /\ code \in [FileSet -> Seq(Decl)] /\ file \in Regenerated
  BY DEF WriteFile, KeepInv, ResolversTypeOK
<1>2. /\ DOMAIN pending' = DOMAIN pending \ {file}
      /\ \A g \in DOMAIN pending' : pending'[g] = pending[g]
      /\ code'[file] = pending[file] /\ \A g \in FileSet : g # file => code'[g] = code[g]
  BY <1>1
<1>3. /\ Named' = Named /\ Regenerated' = Regenerated
      /\ \A g : Listed(g, found)' = Listed(g, found)
  BY <1>1, SameSettling
<1>4. SUFFICES ASSUME clean PROVE SettleInv'
  BY <1>1 DEF SettleInv
<1>5. \A g \in FileSet :
         IF g \in DOMAIN pending THEN Settling(pending[g], g)
         ELSE IF g \in Regenerated THEN Settling(code[g], g)
         ELSE \A k \in DOMAIN code[g] : code[g][k].name \notin Named
  BY <1>1, <1>4 DEF SettleInv
<1>6. ASSUME NEW g \in FileSet
      PROVE  IF g \in DOMAIN pending' THEN Settling(pending[g], g)'
             ELSE IF g \in Regenerated' THEN Settling(code[g], g)'
             ELSE \A k \in DOMAIN code'[g] : code'[g][k].name \notin Named'
  <2>1. CASE g = file
    <3>1. Settling(pending[file], file)
      BY <1>1, <1>5
    <3>2. Settling(code[file], file)' <=>
            \E rest \in Seq(Decl) : /\ code'[file] = Listed(file, found) \o rest
                                   /\ \A m \in DOMAIN rest : rest[m].name \notin Named
      BY <1>3 DEF Settling
    <3>3. Settling(code[file], file)'
      BY <1>2, <3>1, <3>2 DEF Settling
    <3>4. g \notin DOMAIN pending' /\ g \in Regenerated'
      BY <1>1, <1>2, <1>3, <2>1
    <3>5. QED BY <2>1, <3>3, <3>4
  <2>2. CASE g # file /\ g \in DOMAIN pending
    <3>1. Settling(pending[g], g)
      BY <1>5, <2>2
    <3>2. pending'[g] = pending[g] /\ g \in DOMAIN pending'
      BY <1>2, <2>2
    <3>3. Settling(pending[g], g)' <=>
            \E rest \in Seq(Decl) : /\ pending'[g] = Listed(g, found) \o rest
                                   /\ \A m \in DOMAIN rest : rest[m].name \notin Named
      BY <1>3 DEF Settling
    <3>4. Settling(pending[g], g)'
      BY <3>1, <3>2, <3>3 DEF Settling
    <3>5. QED BY <3>2, <3>4
  <2>3. CASE g # file /\ g \notin DOMAIN pending
    <3>1. code'[g] = code[g] /\ g \notin DOMAIN pending'
      BY <1>2, <2>3
    <3>2. Settling(code[g], g)' <=>
            \E rest \in Seq(Decl) : /\ code'[g] = Listed(g, found) \o rest
                                   /\ \A m \in DOMAIN rest : rest[m].name \notin Named
      BY <1>3 DEF Settling
    <3>3. Settling(code[g], g)' <=> Settling(code[g], g)
      BY <3>1, <3>2 DEF Settling
    <3>4. QED BY <1>3, <1>5, <2>3, <3>1, <3>3
  <2>4. QED BY <2>1, <2>2, <2>3
<1>7. QED BY <1>6 DEF SettleInv

LEMMA SettleNext == KeepInv /\ SettleInv /\ [ResolversNext]_resolverVars => SettleInv'
<1> SUFFICES ASSUME KeepInv, SettleInv, [ResolversNext]_resolverVars PROVE SettleInv'
  OBVIOUS
<1>1. CASE Scan
  BY <1>1, ScanSettles
<1>2. CASE Abort
  BY <1>2 DEF Abort, SettleInv
<1>3. CASE User
  <2>1. Edit
    BY <1>3 DEF User, ChangeSchema, AddHelper, Implement, MoveDecl
  <2>2. QED BY <2>1 DEF Edit, SettleInv
<1>4. ASSUME NEW file \in FileSet, WriteFile(file) PROVE SettleInv'
  BY <1>4, WriteSettles
<1>5. CASE UNCHANGED resolverVars
  <2>1. UNCHANGED <<code, home, base, phase, pending, found, edits, alive, clean>>
    BY <1>5 DEF resolverVars
  <2>2. /\ Named' = Named /\ Regenerated' = Regenerated
        /\ \A file : Listed(file, found)' = Listed(file, found)
    BY <2>1, SameSettling
  <2>3. \A file : Settling(pending[file], file)' <=>
          \E rest \in Seq(Decl) : /\ pending'[file] = Listed(file, found) \o rest
                                 /\ \A m \in DOMAIN rest : rest[m].name \notin Named
    BY <2>2 DEF Settling
  <2>4. \A file : Settling(code[file], file)' <=>
          \E rest \in Seq(Decl) : /\ code'[file] = Listed(file, found) \o rest
                                 /\ \A m \in DOMAIN rest : rest[m].name \notin Named
    BY <2>2 DEF Settling
  <2>5. \A file : Settling(pending[file], file)' <=> Settling(pending[file], file)
    BY <2>1, <2>3 DEF Settling
  <2>6. \A file : Settling(code[file], file)' <=> Settling(code[file], file)
    BY <2>1, <2>4 DEF Settling
  <2>7. QED BY <2>1, <2>2, <2>5, <2>6 DEF SettleInv
<1>6. QED BY <1>1, <1>2, <1>3, <1>4, <1>5 DEF ResolversNext

LEMMA SettleHolds == ResolversSpec => []SettleInv
<1>1. ResolversInit => SettleInv
  BY DEF ResolversInit, SettleInv
<1>2. QED BY <1>1, KeepHolds, SettleNext, PTL DEF ResolversSpec

\* When all is written.
AllSettled ==
    \A file \in FileSet :
        IF file \in Regenerated THEN Settling(code[file], file)
        ELSE \A k \in DOMAIN code[file] : code[file][k].name \notin Named

\* A file has its methods, and those of the object, in front and nothing more of them
\* behind.
LEMMA SettledIs ==
  ASSUME ResolversTypeOK, NEW file \in Regenerated, file \in FileSet, Settling(code[file], file)
  PROVE  \E list, rest \in Seq(Decl) :
            /\ list = Listed(file, found) /\ code[file] = list \o rest
            /\ rest = SubSeq(code[file], Len(list) + 1, Len(code[file]))
            /\ \A k \in DOMAIN code[file] : code[file][k].name \in Named <=> k \in DOMAIN list
            /\ \A k \in DOMAIN list : k \in DOMAIN code[file] /\ code[file][k] = list[k]
<1> DEFINE here == code[file]  list == Listed(file, found)
<1>1. PICK rest \in Seq(Decl) : here = list \o rest /\ \A m \in DOMAIN rest : rest[m].name \notin Named
  BY DEF Settling
<1>2. /\ found \in [FieldSet -> 0..MaxEdits] /\ Object \subseteq Named
      /\ InSchema \subseteq Named
  BY RegeneratedAre DEF ResolversTypeOK, Named
<1>3. list \in Seq(Decl) /\ \A k \in DOMAIN list : list[k].name \in Named
  <2>1. /\ list \in Seq(Decl)
        /\ \A k \in DOMAIN list : list[k].name \in InSchema \/ list[k].name \in Object
    BY <1>2, ListedIs
  <2> HIDE DEF list
  <2>2. QED BY <1>2, <2>1
<1> HIDE DEF here, list
<1>4. /\ here \in Seq(Decl)
      /\ \A i \in DOMAIN list : i \in DOMAIN here /\ here[i] = list[i]
      /\ \A i \in DOMAIN rest : Len(list) + i \in DOMAIN here /\ here[Len(list) + i] = rest[i]
      /\ \A i \in DOMAIN here : i \in DOMAIN list \/ (i > Len(list) /\ i - Len(list) \in DOMAIN rest)
  BY <1>1, <1>3, Joined
<1>5. ASSUME NEW k \in DOMAIN here PROVE here[k].name \in Named <=> k \in DOMAIN list
  <2>1. CASE k \in DOMAIN list
    BY <1>3, <1>4, <2>1
  <2>2. CASE k \notin DOMAIN list
    <3>1. k - Len(list) \in DOMAIN rest /\ k \in Nat /\ Len(list) \in Nat
      BY <1>3, <1>4, <2>2
    <3>2. Len(list) + (k - Len(list)) = k
      BY <3>1
    <3>3. here[Len(list) + (k - Len(list))] = rest[k - Len(list)]
      BY <1>4, <3>1
    <3>4. QED BY <1>1, <2>2, <3>1, <3>2, <3>3
  <2>3. QED BY <2>1, <2>2
<1>6. rest = SubSeq(here, Len(list) + 1, Len(here))
  BY <1>1, <1>3
<1>7. QED BY <1>1, <1>3, <1>4, <1>5, <1>6 DEF here, list

\* What is generated is in one place, in the file where it belongs.
LEMMA EachHasItsPlace ==
  ASSUME ResolversTypeOK, AllSettled
  PROVE  /\ \A n \in Named : \A p, q \in Places(n) : p = q
         /\ \A f \in InSchema : \E p \in Places(f) :
               Files[p[1]] = home[f] /\ code[Files[p[1]]][p[2]].body = found[f]
<1> DEFINE where(n) == IF n \in Object THEN base ELSE home[n]
<1>1. InSchema \cap Object = {} /\ found \in [FieldSet -> 0..MaxEdits]
  BY ResolversAssumption DEF InSchema, Object, FieldSet, ResolversTypeOK
<1>2. \A i \in DOMAIN Files : Files[i] \in FileSet
  BY DEF FileSet, Range
<1>3. ASSUME NEW n \in Named, NEW p \in Places(n)
      PROVE  /\ Files[p[1]] = where(n) /\ Files[p[1]] \in Regenerated
  <2> DEFINE file == Files[p[1]]
  <2>1. p[1] \in DOMAIN Files /\ p[2] \in DOMAIN code[file] /\ code[file][p[2]].name = n
    BY PlacesAre
  <2>2. file \in FileSet
    BY <1>2, <2>1
  <2>3. file \in Regenerated /\ Settling(code[file], file)
    BY <1>3, <2>1, <2>2 DEF AllSettled
  <2> HIDE DEF file
  <2>4. PICK list, rest \in Seq(Decl) :
            /\ list = Listed(file, found)
            /\ \A k \in DOMAIN code[file] : code[file][k].name \in Named <=> k \in DOMAIN list
            /\ \A k \in DOMAIN list : k \in DOMAIN code[file] /\ code[file][k] = list[k]
    BY <2>2, <2>3, SettledIs
  <2>5. p[2] \in DOMAIN list /\ list[p[2]].name = n
    BY <2>1, <2>4
  <2>6. \/ n \in InSchema /\ home[n] = file
        \/ file = base /\ n \in Object
    BY <1>1, <2>2, <2>4, <2>5, ListedIs
  <2>7. file = where(n)
    BY <1>1, <2>6
  <2>8. QED BY <2>3, <2>7 DEF file
<1>4. ASSUME NEW n \in Named, NEW p \in Places(n), NEW q \in Places(n) PROVE p = q
  <2> DEFINE file == Files[p[1]]
  <2>1. /\ p = <<p[1], p[2]>> /\ p[1] \in DOMAIN Files /\ p[2] \in DOMAIN code[file]
        /\ code[file][p[2]].name = n
        /\ q = <<q[1], q[2]>> /\ q[1] \in DOMAIN Files /\ q[2] \in DOMAIN code[Files[q[1]]]
        /\ code[Files[q[1]]][q[2]].name = n
    BY PlacesAre
  <2>2. file = where(n) /\ Files[q[1]] = where(n) /\ file \in Regenerated
    BY <1>3
  <2>3. p[1] = q[1]
    BY <2>1, <2>2, ResolversAssumption DEF IsInjective
  <2>4. file \in FileSet /\ Settling(code[file], file)
    BY <1>2, <2>1, <2>2 DEF AllSettled
  <2>5. q[2] \in DOMAIN code[file] /\ code[file][q[2]].name = n
    BY <2>1, <2>3
  <2> HIDE DEF file
  <2>6. PICK list, rest \in Seq(Decl) :
            /\ list = Listed(file, found)
            /\ \A k \in DOMAIN code[file] : code[file][k].name \in Named <=> k \in DOMAIN list
            /\ \A k \in DOMAIN list : k \in DOMAIN code[file] /\ code[file][k] = list[k]
    BY <2>2, <2>4, SettledIs
  <2>7. /\ p[2] \in DOMAIN list /\ list[p[2]].name = n
        /\ q[2] \in DOMAIN list /\ list[q[2]].name = n
    BY <2>1, <2>5, <2>6
  <2>8. \A k, m \in DOMAIN list : list[k].name = list[m].name => k = m
    BY <1>1, <2>4, <2>6, ListedIs
  <2>9. p[2] = q[2]
    BY <2>7, <2>8
  <2>10. QED BY <2>1, <2>3, <2>9
<1>5. ASSUME NEW f \in InSchema
      PROVE  \E p \in Places(f) : Files[p[1]] = home[f] /\ code[Files[p[1]]][p[2]].body = found[f]
  <2> DEFINE file == home[f]
  <2>1. file \in FileSet /\ file \in Regenerated /\ f \in FieldSet
    BY RegeneratedAre
  <2>2. Settling(code[file], file)
    BY <2>1 DEF AllSettled
  <2>3. PICK list, rest \in Seq(Decl) :
            /\ list = Listed(file, found)
            /\ \A k \in DOMAIN list : k \in DOMAIN code[file] /\ code[file][k] = list[k]
    BY <2>1, <2>2, SettledIs
  <2>4. PICK k \in DOMAIN list : list[k].name = f /\ list[k].body = found[f]
    BY <1>1, <2>1, <2>3, ListedIs
  <2>5. PICK i \in DOMAIN Files : Files[i] = file
    BY <2>1 DEF FileSet, Range
  <2>6. <<i, k>> \in Places(f)
    BY <2>3, <2>4, <2>5, PlacesAre
  <2>7. QED BY <2>3, <2>4, <2>5, <2>6
<1>6. QED BY <1>4, <1>5

LEMMA EachIsFound ==
  ASSUME ResolversTypeOK, AllSettled, NEW f \in InSchema
  PROVE  /\ Cardinality(Places(f)) = 1 /\ Files[FirstPlace(f)[1]] = home[f]
         /\ Implementation(f) = found[f]
<1>1. PICK p \in Places(f) : Files[p[1]] = home[f] /\ code[Files[p[1]]][p[2]].body = found[f]
  BY EachHasItsPlace
<1>2. Places(f) = {p}
  BY <1>1, EachHasItsPlace DEF Named
<1>3. Cardinality(Places(f)) = 1
  BY <1>2, FS_Singleton
<1>4. FirstPlace(f) = p
  BY <1>2, FirstIs
<1>5. QED BY <1>1, <1>2, <1>3, <1>4 DEF Implementation

LEMMA SamePlan ==
  ASSUME ResolversTypeOK, AllSettled, NEW file \in Regenerated
  PROVE  Planned(file) = code[file]
<1> DEFINE here == code[file]
<1>1. file \in FileSet /\ Settling(code[file], file) /\ here \in Seq(Decl)
  BY RegeneratedAre DEF AllSettled, ResolversTypeOK
<1>2. PICK list, rest \in Seq(Decl) :
          /\ list = Listed(file, found) /\ here = list \o rest
          /\ rest = SubSeq(here, Len(list) + 1, Len(here))
          /\ \A k \in DOMAIN here : here[k].name \in Named <=> k \in DOMAIN list
          /\ \A k \in DOMAIN list : k \in DOMAIN here /\ here[k] = list[k]
  BY <1>1, SettledIs
<1>3. Generated(file) = list
  <2>1. \A n \in DOMAIN FieldsOf(file) :
           FieldsOf(file)[n] \in FieldSet /\ home[FieldsOf(file)[n]] = file
    BY FieldsOfAre
  <2>2. \A n \in DOMAIN FieldsOf(file) : FieldsOf(file)[n] \in InSchema
    BY <1>1, <2>1, RegeneratedAre
  <2>3. \A n \in DOMAIN FieldsOf(file) : Implementations[FieldsOf(file)[n]] = found[FieldsOf(file)[n]]
    BY <2>1, <2>2, EachIsFound DEF Implementations
  <2>4. Listed(file, Implementations) = Listed(file, found)
    BY <2>3 DEF Listed
  <2>5. QED BY <1>1, <1>2, <2>4, PlannedIs
<1>4. ASSUME NEW k \in DOMAIN here, k \in DOMAIN list PROVE k \notin Keeps(file)
  <2>1. here[k].name \in Named
    BY <1>2, <1>4
  <2>2. \A p, q \in Places(here[k].name) : p = q
    BY <2>1, EachHasItsPlace
  <2>3. QED BY <1>1, <2>1, <2>2, OnlyOneIsCopied
<1>5. ASSUME NEW k \in DOMAIN here, k \notin DOMAIN list PROVE k \in Keeps(file)
  <2>1. here[k].name \notin Named
    BY <1>2, <1>5
  <2>2. ASSUME NEW p \in Copied, Files[p[1]] = file PROVE p[2] # k
    <3>1. PICK n \in InSchema \cup Object : p \in Places(n)
      BY <2>2, CopiedAre
    <3>2. code[Files[p[1]]][p[2]].name = n
      BY <3>1, PlacesAre
    <3>3. QED BY <2>1, <2>2, <3>1, <3>2, RegeneratedAre DEF Named
  <2>3. QED BY <2>2 DEF Keeps
<1> DEFINE places == Keeps(file)
<1>6. places \subseteq DOMAIN here /\ RemainingSource(file) = Sublist(here, places)
  BY <1>1, PlannedIs
<1>7. places = {k \in DOMAIN here : k \notin DOMAIN list}
  BY <1>4, <1>5, <1>6
<1> HIDE DEF here, places
<1>8. Len(list) \in 0..Len(here) /\ places = Len(list) + 1..Len(here)
  <2>1. /\ DOMAIN here = 1..Len(here) /\ DOMAIN list = 1..Len(list)
        /\ Len(here) \in Nat /\ Len(list) \in Nat /\ Len(list) <= Len(here)
    BY <1>1, <1>2
  <2>2. QED BY <1>7, <2>1
<1>9. Sublist(here, places) = SubSeq(here, Len(list) + 1, Len(here))
  BY <1>1, <1>8, SublistOfRest
<1>10. QED BY <1>1, <1>2, <1>3, <1>6, <1>9 DEF Planned, here

\* For any files, fields and layout of the schema, a run over code without duplicates
\* leaves each field one method, in its file and with the body it had, and the next run
\* would write the same (resolver.go:87-148).
THEOREM RunsAlwaysSettle == ResolversSpec => []RunsSettle
<1>1. ASSUME KeepInv, SettleInv, phase = "done", clean
      PROVE  /\ \A f \in InSchema :
                   /\ Cardinality(Places(f)) = 1 /\ Files[FirstPlace(f)[1]] = home[f]
                   /\ Implementation(f) = found[f]
             /\ \A file \in Regenerated : Planned(file) = code[file]
  <2>1. ResolversTypeOK /\ DOMAIN pending = {}
    BY <1>1 DEF KeepInv, ResolversTypeOK
  <2>2. AllSettled
    BY <1>1, <2>1 DEF SettleInv, AllSettled
  <2>3. QED BY <2>1, <2>2, EachIsFound, SamePlan
<1>2. KeepInv /\ SettleInv => RunsSettle
  BY <1>1 DEF RunsSettle
<1>3. QED BY <1>2, KeepHolds, SettleHolds, PTL

---------------------------------------------------------------------------
(* The parts side by side *)

\* Each part behaves as it does alone, so what is proved of it alone holds.
LEMMA GenerationIsAll ==
  GenerationSpec => ImportsSpec /\ PackagesSpec /\ ResolversSpec /\ GenerateSpec
<1>1. GenerationInit => ImportsInit /\ PackagesInit /\ ResolversInit /\ GenerateInit
  BY DEF GenerationInit
<1>2. [GenerationNext]_generationVars
        => /\ [ImportsNext]_importVars /\ [PackagesNext]_packageVars
           /\ [ResolversNext]_resolverVars /\ [GenerateNext]_generateVars
  BY DEF GenerationNext, generationVars
<1>3. QED BY <1>1, <1>2, PTL
          DEF GenerationSpec, ImportsSpec, PackagesSpec, ResolversSpec, GenerateSpec

\* All invariants of the four, in the behaviours that the run of the generator checks,
\* for any packages, names, files, fields, types and bounds.
THEOREM GenerationIsSafe ==
  GenerationSpec => [](/\ TypesOK /\ NamesStand /\ CacheCurrent /\ NothingLost /\ RunsSettle
                       /\ RunsAreFresh)
<1>1. ImportsTypeOK /\ PackagesTypeOK /\ ResolversTypeOK /\ GenerateTypeOK => TypesOK
  BY DEF TypesOK
<1>2. QED BY <1>1, GenerationIsAll, ImportsTypeCorrect, PackagesTypeCorrect,
             ResolversTypeCorrect, GenerateTypeCorrect, NamesAlwaysStand, CacheStaysCurrent,
             NothingIsLost, RunsAlwaysSettle, RunsAreAlwaysFresh, PTL
=============================================================================
