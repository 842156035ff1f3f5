SPECIFICATION FairSpec
CONSTANTS
    t1 = t1
    t2 = t2
    Nobody = Nobody
    Ticks <- TwoTicks
    DailyLimit = 1
    HourTarget = 1
    BatchSize = 1
    Quotas = {2}
    SameZone = TRUE
    MaxRequests = 1
    MaxFaults = 0
PROPERTY
    BurstServed
