SPECIFICATION FairSpec
CONSTANTS
    Threads = {t1, t2, t3}
    Cleaner = Cleaner
    Capacities <- Sizes
    Dashboards = 2
INVARIANT NothingLeaks
INVARIANT RoomForAll
INVARIANT NoGridlock
PROPERTY WorkersComeFree
