SPECIFICATION Spec
CONSTANTS
    query = query
    mutation = mutation
    invalid = invalid
    broken = broken
    r1 = r1
    r2 = r2
    r3 = r3
    Texts = {query, mutation, invalid, broken}
    Parsed = {query, mutation, invalid}
    Valid = {query, mutation}
    ReadOnly = {query}
    Reqs = {r1, r2, r3}
    Shapes <- AllShapes
    QuerySize = 1
    ApqSize = 2
    Graceful = TRUE
SYMMETRY Symmetry
INVARIANTS OnlyValidatedRuns SameRequestSameAnswer
CHECK_DEADLOCK FALSE
