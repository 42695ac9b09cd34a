----------------------------- MODULE Resolvers -----------------------------
(***************************************************************************)
(* The resolver files of a package, which their users and the generator    *)
(* take turns to write (plugin/resolvergen/resolver.go with the layout     *)
(* follow-schema, internal/rewrite/rewriter.go).  One object; its type,    *)
(* its accessor and its fields may be in different schema files.           *)
(***************************************************************************)
EXTENDS Naturals, FiniteSets, SequencesExt, Sublists

CONSTANTS
    Files,      \* the files of the package, in the order the rewriter sees them
    Fields,     \* the fields with resolvers, in the order of the schema
    Absent,     \* the home of a field that the schema does not have
    MaxEdits,   \* how often the user edits
    MaxDecls    \* declarations in a file

\* A file, or a field, is there once, and no method is named like what the generator
\* declares beside the methods.
ASSUME ResolversAssumption ==
    /\ MaxEdits \in Nat /\ MaxDecls \in Nat /\ Absent \notin Range(Files)
    /\ Files \in Seq(Range(Files)) /\ IsInjective(Files)
    /\ Fields \in Seq(Range(Fields)) /\ IsInjective(Fields)
    /\ Range(Fields) \cap {"accessor", "type", "helper"} = {}

VARIABLES
    code,       \* the declarations of each file
    home,       \* the resolver file of each field, by its position in the schema
    base,       \* that of the object
    phase,      \* of the generator; it is done until the next edit
    pending,    \* files that are planned and not written yet
    found,      \* Resolver.Implementation of each field
    edits,      \* the number of edits so far; each writes a body of its own
    alive,      \* history: the bodies that users wrote and did not replace
    clean       \* history: the code was Tidy when it was scanned

resolverVars == <<code, home, base, phase, pending, found, edits, alive, clean>>

FileSet == Range(Files)
FieldSet == Range(Fields)
Object == {"accessor", "type"}
NotImplemented == 0

\* A method, the type, or code that is the user's alone.
Decl == [name : FieldSet \cup Object \cup {"helper"}, body : 0..MaxEdits]

ResolversTypeOK ==
    /\ code \in [FileSet -> Seq(Decl)] /\ home \in [FieldSet -> FileSet \cup {Absent}]
    /\ base \in FileSet /\ phase \in {"idle", "writing", "done"}
    /\ DOMAIN pending \subseteq FileSet /\ Range(pending) \subseteq Seq(Decl)
    /\ DOMAIN pending # {} <=> phase = "writing"
    /\ found \in [FieldSet -> 0..MaxEdits] /\ edits \in 0..MaxEdits
    /\ alive \subseteq 1..edits /\ clean \in BOOLEAN

ResolversInit ==
    /\ code = [file \in FileSet |-> <<>>]
    /\ home \in [FieldSet -> FileSet \cup {Absent}] /\ base \in FileSet
    /\ phase = "idle" /\ pending = <<>> /\ found = [f \in FieldSet |-> NotImplemented]
    /\ edits = 0 /\ alive = {} /\ clean = FALSE
---------------------------------------------------------------------------
Bodies(decls) == {d.body : d \in Range(decls)}
Stored == UNION {Bodies(code[file]) : file \in FileSet}
InSchema == {f \in FieldSet : home[f] # Absent}

\* The file of the object is among them only if some field of it has a resolver.
Regenerated == {home[f] : f \in InSchema} \cup {base : f \in InSchema}

\* What the generator declares: the object too, if it has resolvers.
Named == InSchema \cup {n \in Object : InSchema # {}}

\* Places are numbered as the rewriter meets them.
Places(name) ==
    UNION {{i} \X {k \in DOMAIN code[Files[i]] : code[Files[i]][k].name = name} : i \in DOMAIN Files}
FirstPlace(name) ==
    CHOOSE p \in Places(name) : \A q \in Places(name) : p[1] < q[1] \/ (p[1] = q[1] /\ p[2] <= q[2])

\* GetMethodBody
Method(name) == IF Places(name) = {} THEN {} ELSE {FirstPlace(name)}

\* Mutation: a method is copied from its own file only.
CopiedAtHome ==
    (UNION {{p \in Method(f) : Files[p[1]] = home[f]} : f \in InSchema})
        \cup Method("accessor") \cup Places("type")

\* Rewriter.copied: one method of each name, and every type of the name.
Copied == (UNION {Method(n) : n \in InSchema \cup {"accessor"}}) \cup Places("type")

Implementation(f) ==
    IF Places(f) = {} THEN NotImplemented
    ELSE LET p == FirstPlace(f) IN code[Files[p[1]]][p[2]].body

RemainingSource(file) ==
    Sublist(code[file], {k \in DOMAIN code[file] : \A p \in Copied : Files[p[1]] = file => p[2] # k})

Resolver(f) == [name |-> f, body |-> Implementation(f)]
Generated(file) ==
    LET fields == Sublist(Fields, {i \in DOMAIN Fields : home[Fields[i]] = file})
    IN  [n \in DOMAIN fields |-> Resolver(fields[n])]
        \o (IF file = base THEN <<[name |-> "accessor", body |-> 0], [name |-> "type", body |-> 0]>> ELSE <<>>)

\* Mutation: what remains is copied to the file of the object.
PlannedAtBase(file) ==
    Generated(file) \o (IF file = base THEN FlattenSeq([i \in DOMAIN Files |->
        IF Files[i] \in Regenerated THEN RemainingSource(Files[i]) ELSE <<>>]) ELSE <<>>)

Planned(file) == Generated(file) \o RemainingSource(file)

\* No name is declared twice, and what is regenerated is in a file that is.
Tidy ==
    \A n \in FieldSet \cup Object :
        /\ \A p, q \in Places(n) : p = q
        /\ n \in Named => \A p \in Places(n) : Files[p[1]] \in Regenerated

\* generatePerSchema up to its second loop: everything is read before anything is
\* written.
Scan ==
    /\ phase # "writing"
    /\ \A file \in Regenerated : Len(Planned(file)) <= MaxDecls
    /\ pending' = [file \in Regenerated |-> Planned(file)]
    /\ found' = [f \in FieldSet |-> Implementation(f)]
    /\ clean' = Tidy /\ phase' = IF Regenerated = {} THEN "done" ELSE "writing"
    /\ UNCHANGED <<code, home, base, edits, alive>>

\* Mutation: the run returns from within the loop.
AfterFirst(file) == "done"

After(file) == IF DOMAIN pending = {file} THEN "done" ELSE "writing"

\* The last loop, over a map, so in any order.
WriteFile(file) ==
    /\ file \in DOMAIN pending
    /\ code' = [code EXCEPT ![file] = pending[file]]
    /\ pending' = [g \in DOMAIN pending \ {file} |-> pending[g]]
    /\ phase' = After(file)
    /\ UNCHANGED <<home, base, found, edits, alive, clean>>

OnItsWay(f) == home[f] \in DOMAIN pending /\ found[f] \notin Bodies(code[home[f]])

\* Render returns an error, and the rest is not written: of what users wrote only
\* methods on their way to another file may be gone.
Abort ==
    /\ phase = "writing" /\ phase' = "idle" /\ pending' = <<>>
    /\ alive' = alive \ {found[f] : f \in {f \in InSchema : OnItsWay(f)}}
    /\ UNCHANGED <<code, home, base, found, edits, clean>>
---------------------------------------------------------------------------
(* External: the user, who edits while no generator runs.  What is added   *)
(* to the type or the accessor is not followed: it is never kept.          *)

Edit == phase # "writing" /\ edits < MaxEdits /\ phase' = "idle" /\ edits' = edits + 1

Implement(file, k) ==
    /\ Edit /\ code[file][k].name \notin Object
    /\ code' = [code EXCEPT ![file][k].body = edits']
    /\ alive' = (alive \ {code[file][k].body}) \cup {edits'}
    /\ UNCHANGED <<home, base, pending, found, clean>>

AddHelper(file) ==
    /\ Edit /\ Len(code[file]) < MaxDecls
    /\ code' = [code EXCEPT ![file] = Append(@, [name |-> "helper", body |-> edits'])]
    /\ alive' = alive \cup {edits'}
    /\ UNCHANGED <<home, base, pending, found, clean>>

MoveDecl(file, k, to) ==
    /\ Edit /\ to # file /\ Len(code[to]) < MaxDecls
    /\ code' = [code EXCEPT ![file] = RemoveAt(@, k), ![to] = Append(@, code[file][k])]
    /\ UNCHANGED <<home, base, pending, found, alive, clean>>

ChangeSchema ==
    /\ Edit
    /\ \/ \E f \in FieldSet, to \in FileSet \cup {Absent} :
             home' = [home EXCEPT ![f] = to] /\ UNCHANGED base
       \/ base' \in FileSet /\ UNCHANGED home
    /\ UNCHANGED <<code, pending, found, alive, clean>>

User ==
    \/ ChangeSchema
    \/ \E file \in FileSet :
        \/ AddHelper(file)
        \/ \E k \in DOMAIN code[file] :
            Implement(file, k) \/ \E to \in FileSet : MoveDecl(file, k, to)

ResolversNext == Scan \/ Abort \/ User \/ \E file \in FileSet : WriteFile(file)

ResolversSpec == ResolversInit /\ [][ResolversNext]_resolverVars
---------------------------------------------------------------------------
(* Properties *)

\* Whatever a user wrote as a resolver or beside one, and has not replaced, is in a
\* file or about to be written to one: through moves between files, fields that
\* leave the schema and come back, methods declared twice, and runs that end half
\* way, but for methods that were moving then (resolver.go:117-148).
NothingLost ==
    \A b \in alive : b \in Stored \/ \E file \in DOMAIN pending : b \in Bodies(pending[file])

\* From code without duplicates, whose methods are in files of the schema, a run
\* leaves each field of the schema exactly one method, in its file and with the
\* body it had, and the next run would write the same (resolver.go:87-148).
RunsSettle ==
    phase = "done" /\ clean =>
        /\ \A f \in InSchema :
              /\ Cardinality(Places(f)) = 1 /\ Files[FirstPlace(f)[1]] = home[f]
              /\ Implementation(f) = found[f]
        /\ \A file \in Regenerated : Planned(file) = code[file]
=============================================================================
