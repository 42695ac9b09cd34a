SPECIFICATION Spec
CONSTANTS
    query = query
    mutation = mutation
    invalid = invalid
    broken = broken
    r1 = r1
    r2 = r2
    r3 = r3
    Texts = {query, mutation, invalid, broken}
    Parsed = {query, mutation, invalid}
    Valid = {query, mutation}
    ReadOnly = {query}
    Reqs = {r1}
    Shapes <- PersistedShapes
    QuerySize = 1
    ApqSize = 1
    Graceful = FALSE
SYMMETRY Symmetry
INVARIANTS PanicsAreGraceful
CHECK_DEADLOCK FALSE
