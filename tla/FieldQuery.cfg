SPECIFICATION Spec
CONSTANTS
    Nodes <- MCNodes
    Root = "data"
    Parent <- MCParent
    Kind <- MCKind
    NonNull <- MCNonNull
    Outcomes <- SomeOutcomes
    Pos <- MCPos
    Resolved <- MCResolved
    Serial = {}
INVARIANTS Nested NullsPropagate
PROPERTIES ImplementsSelection
CHECK_DEADLOCK FALSE
