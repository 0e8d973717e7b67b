SPECIFICATION Spec
CONSTANTS
    l1 = l1
    l2 = l2
    n1 = n1
    p1 = p1
    p2 = p2
    Clients = {c1, c2}
    NoClient = NoClient
    Lines = {l1}
    NoLine = NoLine
    Names = {n1}
    NoName = NoName
    Items = {p1}
    SeedLines <- OneLine
    SeedItems <- NoProduct
    Ops = {"add", "remove", "update", "replace", "drop", "open", "create", "rename", "patch"}
    Orders = {2}
    MaxActs = 4
PROPERTY RemovedStaysRemoved
INVARIANT LineOrdersDistinct
INVARIANT DeletedLineIsEmpty
SYMMETRY Symmetry
