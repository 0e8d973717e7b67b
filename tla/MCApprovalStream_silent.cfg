SPECIFICATION FairSpec
CONSTANTS
    Handlers = {h1}
    Streams = {s1}
    QueueSize = 2
    MaxPending = 1
    NoCount = NoCount
    CountFaults = FALSE
PROPERTY BadgesFollow
