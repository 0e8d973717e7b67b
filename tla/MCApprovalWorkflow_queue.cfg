SPECIFICATION FairSpec
CONSTANTS
    i1 = i1
    m1 = m1
    v1 = v1
    Metas = {m1}
    Vals = {v1}
    Places = {1}
    Unset = Unset
    NoRow = NoRow
    Keep = 2
    Clients = {c1, c2}
    NoClient = NoClient
    Items = {i1}
    Seed <- OneStored
    FirstId = 2
    MaxApprovals = 2
    MaxAdds = 0
    LineGone = TRUE
    LogFaults = TRUE
    MaxTx = 3
INVARIANT AppliedOnce
PROPERTY DeletedIsGone
PROPERTY ResolvedForGood
 
PROPERTY DecidedAtOnce
PROPERTY Answered
CHECK_DEADLOCK FALSE
