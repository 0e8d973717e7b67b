SPECIFICATION Spec
CONSTANTS
    i1 = i1
    v1 = v1
    Metas = {m1}
    Vals = {v1}
    Places = {2}
    Unset = Unset
    Unread = Unread
    Keep = 2
    Clients = {c1, c2}
    NoClient = NoClient
    Items = {i1}
    Seed <- OneStored
    FirstId = 2
    Ops = {"get", "add", "update", "delete", "patch", "bulk", "rename", "remove", "create"}
    Skips = {FALSE, TRUE}
    IdSets = {{}, {1}}
    MaxAdds = 0
    AuditFaults = FALSE
    MaxTx = 3
INVARIANT HolderIsCurrent
INVARIANT ArchiveBounded
INVARIANT EditsAudited
INVARIANT BulkSeesCounted
PROPERTY AddedIsLast
PROPERTY RevisionCountsChanges
PROPERTY SnapshotsShowOneState
PROPERTY Serializable
SYMMETRY Symmetry
CHECK_DEADLOCK FALSE
