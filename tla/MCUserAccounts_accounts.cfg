SPECIFICATION FairSpec
CONSTANTS
    n1 = n1
    n2 = n2
    p1 = p1
    p2 = p2
    Clients = {c1, c2}
    NoClient = NoClient
    Names = {n1, n2}
    Passwords = {p1, p2}
    Roles = {"user", "admin"}
    BadRole = BadRole
    Unset = Unset
    NoAccount = NoAccount
    Seed <- OneAdmin
    FirstId = 2
    MaxId = 3
    NewUsers <- SecondAdmin
    Changes <- SomeChanges
    AuditFaults = TRUE
INVARIANT NamesUnique
INVARIANT UpdateKeepsRow
PROPERTY ChangesAudited
PROPERTY RevokedEnds
PROPERTY Answered
