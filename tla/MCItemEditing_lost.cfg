SPECIFICATION Spec
CONSTANTS
    i1 = i1
    v1 = v1
    Metas = {m1}
    Vals = {v1}
    Places = {}
    Unset = Unset
    Unread = Unread
    Keep = 2
    Clients = {c1, c2}
    NoClient = NoClient
    Items = {i1}
    Seed <- OneStored
    FirstId = 2
    Ops = {"get", "add", "delete", "bulk"}
    Skips = {FALSE, TRUE}
    IdSets = {{}}
    MaxAdds = 0
    AuditFaults = FALSE
    MaxTx = 3
INVARIANT BulkSeesLatest
SYMMETRY Symmetry
CHECK_DEADLOCK FALSE
