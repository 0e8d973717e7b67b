SPECIFICATION FairSpec
CONSTANTS
    i1 = i1
    v1 = v1
    Metas = {m1}
    Vals = {v1}
    Places = {2}
    Unset = Unset
    Unread = Unread
    Keep = 4
    Clients = {c1, c2}
    NoClient = NoClient
    Items = {i1}
    Seed <- OneStored
    FirstId = 2
    Ops = {"create", "patch", "rename", "remove"}
    Skips = {FALSE}
    IdSets = {{}}
    MaxAdds = 1
    AuditFaults = TRUE
    MaxTx = 4
INVARIANT HistoryComplete
PROPERTY Serializable
PROPERTY Answered
CHECK_DEADLOCK FALSE
