SPECIFICATION Spec
CONSTANTS
    a = a
    b = b
    c = c
    d = d
    rss = rss
    None = None
    Items = {a, b, c, d}
    Sources = {rss}
    Feed <- MCFeed
    Score <- MCScore
    AttachAt = 4
    ConfirmAt = 2
    MaxCandidates = 1
    BatchLimit = 2
    OnTopic = {a, c, d}
    Threshold = 2
    FreshFor = 0
    Window = 1
    MaxNow = 0
    MaxFailures = 0
PROPERTY
    EverySourceCompared
