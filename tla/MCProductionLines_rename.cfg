SPECIFICATION FairSpec
CONSTANTS
    l1 = l1
    l2 = l2
    n1 = n1
    p1 = p1
    p2 = p2
    Clients = {c1, c2, c3}
    NoClient = NoClient
    Lines = {l1, l2}
    NoLine = NoLine
    Names = {n1, n2}
    NoName = NoName
    Items = {p1, p2}
    SeedLines <- TwoLines
    SeedItems <- Crossed
    Ops = {"rename"}
    Orders = {}
    MaxActs = 0
INVARIANT NamesAgree
PROPERTY Answered
