SPECIFICATION Spec
CONSTANTS
    o1 = o1
    o2 = o2
    id = id
    Ops = {o1, o2}
    Ids = {o1, o2}
    IdOf <- OwnIds
    ConnMsgs = {"init", "terminate", "goingAway"}
    Pings = TRUE
    Shutdowns = TRUE
    MaxData = 1
    MaxKa = 1
    OutCap = 1
    InCap = 1
SYMMETRY Symmetry
INVARIANTS ActiveTracksRunning EntriesAreLive
CHECK_DEADLOCK FALSE
