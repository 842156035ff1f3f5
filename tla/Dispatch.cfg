SPECIFICATION LoopSpec
CONSTANTS
    c1 = c1
    c2 = c2
    c3 = c3
    t1 = t1
    t2 = t2
    None = None
    Ticks <- TwoTicks
    Clusters <- TwoClusters
    BatchSize = 2
    Ranks <- AnyRank
    Poison = {}
    Flaky <- OneCluster
    Lapsing <- OneCluster
    MaxFailures = 3
    CapMayClose = TRUE
    Faults = TRUE
INVARIANTS
    TypeOK
    NoOrphanReservation
    DuplicatesAccounted
PROPERTY
    ReservationsEnd
