SPECIFICATION Spec
CONSTANTS
    t1 = t1
    t2 = t2
    Nobody = Nobody
    Ticks <- TwoTicks
    DailyLimit = 2
    HourTarget = 1
    BatchSize = 2
    Quotas = {2}
    SameZone = FALSE
    MaxRequests = 1
    MaxFaults = 1
SYMMETRY TickSymmetry
INVARIANTS
    TypeOK
    OvershootBounded
    HourOvershootBounded
    NoIncrementLost
