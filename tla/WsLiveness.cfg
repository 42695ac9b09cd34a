SPECIFICATION FairSpec
CONSTANTS
    o1 = o1
    o2 = o2
    id = id
    Ops = {o1}
    Ids = {id}
    IdOf <- OneOp
    ConnMsgs = {"init", "terminate","garbage"}
    Pings = TRUE
    Shutdowns = FALSE
    MaxData = 2
    MaxKa = 1
    OutCap = 1
    InCap = 1
PROPERTIES StopIsServed KeepAliveStops ReaderLeaves
CHECK_DEADLOCK FALSE
