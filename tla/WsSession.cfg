SPECIFICATION Spec
CONSTANTS
    o1 = o1
    o2 = o2
    id = id
    Ops = {o1, o2}
    Ids = {id}
    IdOf <- SharedId
    ConnMsgs = {"init", "badInit", "terminate", "garbage", "other", "close", "goingAway"}
    Pings = FALSE
    Shutdowns = FALSE
    MaxData = 1
    MaxKa = 1
    OutCap = 1
    InCap = 1
INVARIANTS CloseCodeFaithful CancelledOnlyIfStopped
PROPERTIES ImplementsSession
CHECK_DEADLOCK FALSE
