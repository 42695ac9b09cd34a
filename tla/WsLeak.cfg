SPECIFICATION FairSpec
CONSTANTS
    o1 = o1
    o2 = o2
    id = id
    Ops = {o1}
    Ids = {id}
    IdOf <- OneOp
    ConnMsgs = {"init", "terminate"}
    Pings = FALSE
    Shutdowns = FALSE
    MaxData = 1
    MaxKa = 2
    OutCap = 1
    InCap = 1
PROPERTIES OpsEndWithConnection
CHECK_DEADLOCK FALSE
