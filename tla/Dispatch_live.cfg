SPECIFICATION FairSpec
CONSTANTS
    c1 = c1
    c2 = c2
    c3 = c3
    t1 = t1
    t2 = t2
    None = None
    Ticks <- TwoTicks
    Clusters <- ThreeClusters
    BatchSize = 2
    Ranks <- WorstFirst
    Poison <- OneCluster
    Flaky <- SecondCluster
    Lapsing = {}
    MaxFailures = 0
    CapMayClose = FALSE
    Faults = FALSE
PROPERTIES
    DeferralHolds
    HealthyClustersDrafted
