SPECIFICATION MCSpec
CONSTANTS
    Paths = {"own", "fmt", "x/m", "y/m", "m1", "vendor/y/m"}
    Own = "own"
    Names <- MCNames
    NameOf <- MCNameOf
    Numbered <- MCNumbered
    MaxSuffix = 2
    Normalize <- MCNormalize
    Reserved = {"fmt"}
    UserImports <- MCUserImports
    Pkgs = {1, 2, 3, 4}
    Written = {1, 2}
    MaxWrites = 2
    Files <- MCFiles
    Fields <- MCFields
    Absent = "absent"
    MaxEdits = 3
    MaxDecls = 4
    Types = {"Query", "Int", "S", "A", "B"}
    Kind <- MCKind
    Refers <- MCRefers
    GoPkgs = {"p", "q"}
    ModelPkg = "p"
    Library = "graphql"
    MaxBinds = 2
    MaxChanges = 3
INVARIANTS TypesOK NamesStand CacheCurrent NothingLost RunsSettle RunsAreFresh
CHECK_DEADLOCK FALSE
