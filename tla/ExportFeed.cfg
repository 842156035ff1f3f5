SPECIFICATION Spec
CONSTANTS
    r = r
    s = s
    ref = ref
    other = other
    None = None
    Drafts = {1, 2, 3}
    Handled = {2}
    Regenerated = {2}
    MaxClock = 1
    Day = 1
    Fallback = 1
    Refs = {ref, other}
    Requests = {r, s}
    Queries <- MCQueries
    Defaults <- MCDefaults
    Batches <- MCBatches
SYMMETRY Symmetry
INVARIANTS
    TypeOK
    NoSkip
    NoRepeat
    MarksAccounted
