SPECIFICATION Spec
CONSTANTS
    Editors = {e1, e2}
    Keep = 3
    PerPage = 1
    Nobody = Nobody
    Skips = {FALSE, TRUE}
    MaxTx = 5
    MaxReads = 2
INVARIANT KeepsTheNewest
PROPERTY BrowsingMissesNothing
PROPERTY LookupIsExact
SYMMETRY Symmetry
CHECK_DEADLOCK FALSE
