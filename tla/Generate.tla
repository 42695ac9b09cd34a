------------------------------ MODULE Generate ------------------------------
(***************************************************************************)
(* The runs of the generator (api/generate.go) over the Go packages of a   *)
(* user and the files that earlier runs left there: to which Go type each  *)
(* type of the schema is bound, by the configuration, by autobind          *)
(* (codegen/config/config.go) or by the model that is generated for it     *)
(* (plugin/modelgen/models.go).                                            *)
(***************************************************************************)
EXTENDS Naturals, Sequences, SequencesExt

CONSTANTS
    Types,      \* types a schema may have
    Kind,       \* "root", "builtin", "scalar", or "model": an object, input or interface
    Refers,     \* the types of each type's fields
    GoPkgs,     \* packages of the user
    ModelPkg,   \* the one with the generated models; exec is elsewhere
    Library,    \* the packages of this repository
    MaxBinds,   \* how many packages the user lists under autobind
    MaxChanges  \* how often the user changes something

ASSUME GenerateAssumption ==
    /\ Kind \in [Types -> {"root", "builtin", "scalar", "model"}]
    /\ Refers \in [Types -> SUBSET Types]
    /\ ModelPkg \in GoPkgs /\ Library \notin GoPkgs /\ "" \notin GoPkgs \cup {Library}
    /\ MaxBinds \in Nat /\ MaxChanges \in Nat

VARIABLES
    schema,     \* the types of the schema
    mapped,     \* models of the configuration, and @goModel
    declared,   \* Go types in the files of the user
    autoBind,   \* Config.AutoBind
    modelFile,  \* Go types in the file of Config.Model
    execFile,   \* the Go types that the file of Config.Exec refers to
    step,       \* where the run is, or how it ended
    models,     \* Config.Models of the run
    changes     \* the number of changes so far

generateVars == <<schema, mapped, declared, autoBind, modelFile, execFile, step, models, changes>>

None == <<"", "">>   \* no Go type
GoTypes == GoPkgs \X {t \in Types : Kind[t] \in {"model", "scalar"}}
Bindings == [Types -> GoTypes \cup ({Library} \X Types) \cup {None}]
Running == {"init", "mutate", "build", "write", "validate"}

GenerateTypeOK ==
    /\ schema \subseteq Types /\ declared \subseteq GoTypes /\ autoBind \in Seq(GoPkgs)
    /\ modelFile \subseteq Types /\ {mapped, execFile, models} \subseteq Bindings
    /\ step \in Running \cup {"idle", "done", "refused", "aborted"} /\ changes \in 0..MaxChanges

Unbound == [t \in Types |-> None]

GenerateInit ==
    /\ schema = Types /\ mapped = Unbound /\ declared = {}
    /\ autoBind \in {ps \in SeqOf(GoPkgs, MaxBinds) : IsInjective(ps)}
    /\ modelFile = {} /\ execFile = Unbound /\ step = "idle" /\ models = Unbound /\ changes = 0
---------------------------------------------------------------------------
(* A run *)

\* Mutation: the models of the last run stay until they are written again.
UnlinkedNot == modelFile

Unlinked == {}

Unlink ==
    /\ step \notin Running /\ step' = "init"
    /\ modelFile' = Unlinked /\ execFile' = Unbound /\ models' = Unbound
    /\ UNCHANGED <<schema, mapped, declared, autoBind, changes>>

\* FindObject, in packages as they are on the disk (see PackageCache).
Found(go) ==
    \/ go[1] = Library \/ go \in declared
    \/ go[1] = ModelPkg /\ go[2] \in modelFile

\* The Go type of that name in the first package of AutoBind that is one of pkgs.
FirstOf(pkgs, t) ==
    LET places == {i \in DOMAIN autoBind : autoBind[i] \in pkgs}
    IN  IF places = {} THEN None ELSE <<autoBind[CHOOSE i \in places : \A j \in places : i <= j], t>>

Autobound(t) == FirstOf({p \in GoPkgs : Found(<<p, t>>)}, t)

\* Config.Init: autobind looks for all that has no model yet, also for what
\* injectBuiltins would bind.
Bind ==
    /\ step = "init" /\ step' = "mutate"
    /\ models' = [t \in Types |->
            CASE mapped[t] # None -> mapped[t]
              [] mapped[t] = None /\ t \in schema /\ Autobound(t) # None -> Autobound(t)
              [] OTHER -> IF Kind[t] = "builtin" THEN <<Library, t>> ELSE None]
    /\ UNCHANGED <<schema, mapped, declared, autoBind, modelFile, execFile, changes>>

UserDefined(t) == models[t] # None

\* modelgen looks up the user's types that its fields have, adds what it is going
\* to declare, and writes the file if there is anything to add.
MutateConfig ==
    LET new == {t \in schema : ~UserDefined(t) /\ Kind[t] \in {"model", "scalar"}}
        objects == {t \in new : Kind[t] = "model"}
        needs == {f \in UNION {Refers[t] : t \in objects} : f \in schema /\ UserDefined(f)}
    IN  /\ step = "mutate"
        /\ IF \E f \in needs : ~Found(models[f])
           THEN step' = "refused" /\ UNCHANGED <<modelFile, models>>
           ELSE /\ step' = "build"
                /\ modelFile' = IF new = {} THEN modelFile ELSE objects
                /\ models' = [t \in Types |->
                        CASE t \in objects -> <<ModelPkg, t>>
                          [] t \in new \ objects -> <<Library, t>>
                          [] OTHER -> models[t]]
        /\ UNCHANGED <<schema, mapped, declared, autoBind, execFile, changes>>

\* What buildObject and buildField ask the binder for.
Needed == {t \in schema : Kind[t] = "model"} \cup {f \in UNION {Refers[t] : t \in schema} : f \in schema}

\* BuildData: an error, or a panic where a field has no type.
BuildData ==
    /\ step = "build"
    /\ step' = IF \A t \in Needed : UserDefined(t) /\ Found(models[t]) THEN "write" ELSE "refused"
    /\ UNCHANGED <<schema, mapped, declared, autoBind, modelFile, execFile, models, changes>>

\* GenerateCode, before and after the plugins' (see Resolvers).
GenerateCode ==
    /\ step = "write" /\ step' = "validate"
    /\ execFile' = [t \in Types |-> IF t \in Needed THEN models[t] ELSE None]
    /\ UNCHANGED <<schema, mapped, declared, autoBind, modelFile, models, changes>>

\* validate: the packages compile.
Validate ==
    /\ step = "validate"
    /\ step' = IF \E t \in modelFile : <<ModelPkg, t>> \in declared THEN "refused" ELSE "done"
    /\ UNCHANGED <<schema, mapped, declared, autoBind, modelFile, execFile, models, changes>>

\* Any other error: of the schema, of a template, of the user's other code.
AbortRun ==
    /\ step \in Running /\ step' = "aborted"
    /\ UNCHANGED <<schema, mapped, declared, autoBind, modelFile, execFile, models, changes>>
---------------------------------------------------------------------------
\* External: the user declares Go types or removes them, changes the schema and
\* maps types to Go types, generated ones and missing ones included.
Change ==
    /\ step \notin Running /\ changes < MaxChanges
    /\ changes' = changes + 1 /\ step' = "idle"
    /\ \/ /\ \E go \in GoTypes : declared' = IF go \in declared THEN declared \ {go} ELSE declared \cup {go}
          /\ UNCHANGED <<schema, mapped>>
       \/ /\ \E t \in {t \in Types : Kind[t] \in {"model", "scalar"}} :
                schema' = IF t \in schema THEN schema \ {t} ELSE schema \cup {t}
          /\ UNCHANGED <<declared, mapped>>
       \/ /\ \E t \in {t \in Types : Kind[t] # "root"}, go \in GoTypes \cup {None} :
                mapped' = [mapped EXCEPT ![t] = go]
          /\ UNCHANGED <<declared, schema>>
    /\ UNCHANGED <<autoBind, modelFile, execFile, models>>

GenerateNext ==
    \/ Unlink \/ Bind \/ MutateConfig \/ BuildData \/ GenerateCode \/ Validate \/ AbortRun
    \/ Change

GenerateSpec == GenerateInit /\ [][GenerateNext]_generateVars
---------------------------------------------------------------------------
(* Properties *)

\* The Go type that the user has for t, whatever was ever generated.
OwnType(t) ==
    IF mapped[t] # None THEN mapped[t] ELSE FirstOf({p \in GoPkgs : <<p, t>> \in declared}, t)

\* A run that succeeds has a model for exactly the types for which the user has
\* none, and binds each type to the user's Go type or else to that, which is
\* declared once; a run that is refused has found a Go type that the user maps to and has
\* not declared, or one that is declared beside a model without being bound, or a field
\* of a root type, which is bound to none.  So no run depends on what runs before it
\* generated or left half done
\* (api/generate.go:15-101, config.go:500-545, models.go:74-224, binder.go:309-311).
RunsAreFresh ==
    /\ step = "done" =>
        /\ modelFile = {t \in schema : Kind[t] = "model" /\ OwnType(t) = None}
        /\ \A t \in Needed : LET go == execFile[t] IN
            /\ go = IF OwnType(t) # None THEN OwnType(t)
                    ELSE IF Kind[t] = "model" THEN <<ModelPkg, t>> ELSE <<Library, t>>
            /\ go[1] # Library => (go \in declared) # (go[1] = ModelPkg /\ go[2] \in modelFile)
    /\ step = "refused" =>
        \E t \in schema :
            \/ mapped[t] # None /\ mapped[t] \notin declared
            \/ OwnType(t) = None /\ Kind[t] = "model" /\ <<ModelPkg, t>> \in declared
            \/ OwnType(t) = None /\ Kind[t] = "root" /\ \E u \in schema : t \in Refers[u]
=============================================================================
