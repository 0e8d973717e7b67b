SPECIFICATION FairSpec
CONSTANTS
    Handlers = {h1, h2}
    Streams = {s1, s2}
    QueueSize = 2
    MaxPending = 1
    NoCount = NoCount
    CountFaults = TRUE
PROPERTY BadgesSettle
PROPERTY LeakEnds
