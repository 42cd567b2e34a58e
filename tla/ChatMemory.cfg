CONSTANTS
    s1 = s1
    s2 = s2
    p1 = p1
    p2 = p2
    Sessions = {s1, s2}
    Messages <- TwoKinds
    Passes = {p1, p2}
    TriggerEvery = 2
    KeepRecent = 1
    DeleteLowValue = TRUE
    MaxChats = 4
    MaxSeconds = 1
    MaxCompactions = 2
SYMMETRY Symmetry
SPECIFICATION Spec
INVARIANTS
    TypeOK
    NothingLost
    RawIsNotSummarised
    ParentCovers
    TailIsKept
    BacklogBounded
CHECK_DEADLOCK FALSE
