SPECIFICATION Spec
CONSTANTS
    Nodes <- MCNodes
    Root = "data"
    Parent <- MCParent
    Kind <- MCKind
    NonNull <- MCNonNull
    Outcomes <- PanicOutcomes
    Pos <- MCPos
    Resolved <- MCResolved
    Serial = {}
INVARIANTS PanicsAreReported
CHECK_DEADLOCK FALSE
