SPECIFICATION FairSpec
CONSTANTS
    Nodes <- MCNodes
    Root = "data"
    Parent <- MCParent
    Kind <- MCKind
    NonNull <- MCNonNull
    Outcomes <- PanicOutcomes
    Pos <- MCPos
    Resolved <- MCResolved
    Serial = {"data"}
INVARIANTS SerialFields
PROPERTIES Answered
CHECK_DEADLOCK FALSE
